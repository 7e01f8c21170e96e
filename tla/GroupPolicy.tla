---------------------------- MODULE GroupPolicy ----------------------------
(***************************************************************************)
(* Which groups are meant: wildmats (wildmat.go), by which clients choose  *)
(* what is listed, and the policies made of them (grouppolicy.go), by      *)
(* which groups are added on their own when an article or a list names     *)
(* them.  Names and wildmats are sequences of characters.  What the        *)
(* regular expression of a pattern matches is the library's.               *)
(***************************************************************************)
EXTENDS TextParts

CONSTANTS NameChars,      \* the characters of names that may stand in a wildmat
          NewsChars,      \* those that a name in a policy may have, and "."
          Ctl,            \* "ctl"
          FirstReserved,  \* "example", "to"
          AnyReserved,    \* "any"
          WholeReserved   \* "poster"

VARIABLES
    filter,    \* the text it is made of, for a list or a policy; ready; pieces
    asked      \* the name asked for last, and the answer

policyVars == <<filter, asked>>

Wild == {"*", "?"}

\* What has a meaning of its own in wildmats is no character of a name; "ctl" is a name, and
\* no reserved component has a dot.
ASSUME NamesAssumption ==
    /\ "," \notin NameChars \cup Wild /\ "!" \notin NameChars \cup Wild
    /\ "." \in NameChars /\ "_" \in NameChars
    /\ Ctl # <<>> /\ \A k \in 1 .. Len(Ctl) : Ctl[k] \in NameChars \ Wild
    /\ \A comp \in FirstReserved \cup {AnyReserved} : \A k \in 1 .. Len(comp) : comp[k] # "."

\* ValidWildmat
ValidWildmat(x) ==
    LET Step(s, c) ==
          CASE c \in NameChars \cup Wild /\ s # "bad" -> "inside"
            [] c = "!" /\ s = "start" -> "negate"
            [] c = "," /\ s = "inside" -> "start"
            [] OTHER -> "bad"
        state[n \in 0 .. Len(x)] == IF n = 0 THEN "start" ELSE Step(state[n - 1], x[n])
    IN  state[Len(x)] = "inside"

WildmatPiece(pattern, result) == [pattern |-> pattern, result |-> result]

\* CompileWildmat: an expression for each pattern, of its characters one by one.
CompileWildmat(x) ==
    LET Step(w, c) ==
          CASE c = "," -> [done |-> Append(w.done, WildmatPiece(w.now, w.result)), now |-> <<>>,
                           result |-> TRUE]
            [] c = "!" -> [w EXCEPT !.result = FALSE]
            [] OTHER -> [w EXCEPT !.now = Append(@, c)]
        at[n \in 0 .. Len(x)] ==
          IF n = 0 THEN [done |-> <<>>, now |-> <<>>, result |-> TRUE] ELSE Step(at[n - 1], x[n])
        last == at[Len(x)]
    IN  Append(last.done, WildmatPiece(last.now, last.result))

\* regexp.MatchString: upto[i] says which beginnings of the name, by their
\* lengths, are matched by the first i characters of the pattern.
Matches(p, name) ==
    LET upto[i \in 0 .. Len(p)] ==
          IF i = 0 THEN {0}
          ELSE LET before == upto[i - 1] IN
               IF p[i] = "*" THEN {k \in 0 .. Len(name) : \E j \in before : j <= k}
               ELSE {k \in 1 .. Len(name) : k - 1 \in before /\ p[i] \in {"?", name[k]}}
    IN  Len(name) \in upto[Len(p)]

\* Wildmat.CheckString: "later ones override previous ones"
CheckString(pieces, name) ==
    LET said[n \in 0 .. Len(pieces)] ==
          IF n = 0 THEN FALSE
          ELSE IF Matches(pieces[n].pattern, name) THEN pieces[n].result
          ELSE said[n - 1]
    IN  said[Len(pieces)]

\* strings.Split and strings.Join
PartsAt(s, c) == Split(s, {c})
CommaJoined(parts) ==
    FlattenSeq([k \in DOMAIN parts |-> IF k = 1 THEN parts[k] ELSE <<",">> \o parts[k]])

\* What MakeNewGroupPolicy compiles: an explicit "ctl" is taken out, the implicit one and the
\* "future-compat blocker" are put behind the rest.
PolicyText(s) ==
    LET kept == OtherThan(Ctl, PartsAt(s, ","))
        withCtl == IF kept = <<<<"*">>>> THEN kept ELSE Append(kept, Ctl)
    IN  CommaJoined(Append(withCtl, <<"!", "*", ".", "_", "*">>))

Made(pieces) == filter' = [filter EXCEPT !.ready = TRUE, !.pieces = pieces] /\ UNCHANGED asked

\* LIST ACTIVE, LIST NEWSGROUPS and XGTITLE with a wildmat; 501 for another text.
ListWildmat ==
    /\ ~filter.ready /\ ~filter.policy
    /\ Made(IF ValidWildmat(filter.text) THEN CompileWildmat(filter.text) ELSE <<>>)

\* MakeNewGroupPolicy, of a text that is not empty.
MakeNewGroupPolicy ==
    /\ ~filter.ready /\ filter.policy
    /\ Made(IF ValidWildmat(filter.text) THEN CompileWildmat(PolicyText(filter.text)) ELSE <<>>)

\* groupFirstCompEq
FirstCompEq(g, comp) ==
    /\ Len(g) >= Len(comp) /\ SubSeq(g, 1, Len(comp)) = comp
    /\ Len(g) = Len(comp) \/ g[Len(comp) + 1] = "."

\* groupAnyCompEq: looks at the places where comp is found, in turn.
AnyCompEq(g, comp) ==
    \E i \in 1..Len(g) - Len(comp) + 1 :
        /\ SubSeq(g, i, i + Len(comp) - 1) = comp
        /\ i = 1 \/ g[i - 1] = "."
        /\ i + Len(comp) - 1 = Len(g) \/ g[i + Len(comp)] = "."

\* validNetNewsGroup
ValidNetNewsGroup(g) ==
    /\ \A i \in DOMAIN g :
          IF g[i] = "." THEN ~(i = 1 \/ g[i - 1] = "." \/ i = Len(g)) ELSE g[i] \in NewsChars
    /\ \A comp \in FirstReserved : ~FirstCompEq(g, comp)
    /\ g # WholeReserved
    /\ ~AnyCompEq(g, AnyReserved)

\* CheckGroup of a policy, CheckBytes of a list: no policy is permissive.
Ask(names) ==
    /\ filter.ready /\ asked = [name |-> <<>>, answer |-> FALSE]
    /\ \E g \in names :
          asked' = [name |-> g, answer |-> CheckString(filter.pieces, g)
                                           /\ (filter.policy => ValidNetNewsGroup(g))]
    /\ UNCHANGED filter

PolicyNext(names) == ListWildmat \/ MakeNewGroupPolicy \/ Ask(names)

PolicyInit(listed, policies) ==
    /\ \/ \E x \in listed : filter = [text |-> x, policy |-> FALSE, ready |-> FALSE, pieces |-> <<>>]
       \/ \E x \in policies : filter = [text |-> x, policy |-> TRUE, ready |-> FALSE, pieces |-> <<>>]
    /\ asked = [name |-> <<>>, answer |-> FALSE]

-----------------------------------------------------------------------------
\* RFC 3977, 4.1 and 4.2, which wildmat.go quotes: patterns with commas between
\* them, each maybe negated; the rightmost one that matches decides.
Negated(p) == p # <<>> /\ p[1] = "!"
Pattern(p) == IF Negated(p) THEN Tail(p) ELSE p
IsWildmat(x) ==
    \A k \in DOMAIN PartsAt(x, ",") :
        LET p == Pattern(PartsAt(x, ",")[k]) IN p # <<>> /\ Range(p) \subseteq NameChars \cup Wild
Meant(x, g) ==
    LET parts == PartsAt(x, ",")
        hits == {k \in DOMAIN parts : Matches(Pattern(parts[k]), g)}
    IN  IsWildmat(x) /\ hits # {} /\ ~Negated(parts[Max(hits)])

\* A name that may be added: components with something in them, none of them
\* reserved, none but the first beginning with "_".
Proper(g) ==
    LET comps == PartsAt(g, ".") IN
    /\ \A k \in DOMAIN comps :
          /\ comps[k] # <<>> /\ Range(comps[k]) \subseteq NewsChars
          /\ comps[k] # AnyReserved
          /\ k > 1 => comps[k][1] # "_"
    /\ comps[1] \notin FirstReserved
    /\ g # WholeReserved

\* The last pattern that a name matches decides, whatever the others say and
\* however they are negated; a policy admits "ctl", too, once there is one, but
\* no name that is not proper.  A text that is no wildmat admits nothing
\* (CheckString, wildmat.go:150-167; CheckGroup, grouppolicy.go:139-155).
PolicyTrue ==
    asked.name # <<>> =>
        (asked.answer <=>
            IF filter.policy
            THEN /\ Proper(asked.name)
                 /\ Meant(filter.text, asked.name) \/ (IsWildmat(filter.text) /\ asked.name = Ctl)
            ELSE Meant(filter.text, asked.name))
=============================================================================
