----------------------------- MODULE PassingOn -----------------------------
(***************************************************************************)
(* An article is taken in, stored and given to another server: its body is *)
(* eaten (mailib/articleprocessing.go), its layout goes through JSON       *)
(* (mailib/postinfo.go), and what was kept is made into an article again   *)
(* (mailib/articlegeneration.go, pireadnntp/nntpgenerate.go).  How files   *)
(* and goroutines fare meanwhile is in Intake.                             *)
(*                                                                         *)
(* The data of a part are given without its transfer encoding.  "8" stands *)
(* for bytes over 127, "0" for NUL.                                        *)
(***************************************************************************)
EXTENDS TextLines

CONSTANT MaxTextLen     \* MailProcessorConfig.MaxTextLen

VARIABLES
    article,    \* as the first server gets it: [form, subject, parts]
    onWire,     \* as it is sent now
    held,       \* what the servers keep, the first one first
    passing     \* "sent", "kept", or how it ended: "refused", "failed"

passVars == <<article, onWire, held, passing>>

NoSubject == "none"
NoBody == -1

Has(s, c) == \E i \in DOMAIN s : s[i] = c

\* processMessagePrepareReader
BadEncoding(p) == p.cte = "odd" \/ (p.type = "multi" /\ p.cte \in {"base64", "qp"})
Binary(p) == p.cte = "base64"

\* What the part says, as text unless it is binary.
Data(p) == IF Binary(p) THEN p.data ELSE UnixText(p.data)

\* Wrong: the last newline goes even if it is all there is.
TrimAnyNL(s) == IF s # <<>> /\ Last(s) = "LF" THEN Front(s) ELSE s

\* The last newline, if the byte before it is there and is not one.
TrimUnixNL(s) ==
    IF Len(s) > 1 /\ Last(s) = "LF" /\ s[Len(s) - 1] # "LF" THEN Front(s) ELSE s

\* NormalizeTextMessage of what was decoded: without NUL.
Normalized(s) == SelectSeq(s, LAMBDA c : c # "0")

\* Text in UTF-8, or without special bytes in a charset that has ASCII in it.
Readable(p, s) == p.charset = "utf8" \/ (p.charset = "latin" /\ ~Has(s, "8"))

\* processMessageText: "message" if nothing else is kept, "copied" if the
\* message is a copy and the part is kept too, "attached" if it is only kept.
AsMessage(p, s) ==
    CASE Len(s) > MaxTextLen -> "attached"
      [] Len(s) <= MaxTextLen /\ Readable(p, s) /\ ~Has(s, "0") -> "message"
      [] Len(s) <= MaxTextLen /\ Readable(p, s) /\ Has(s, "0") -> "copied"
      [] Len(s) <= MaxTextLen /\ ~Readable(p, s) /\ p.charset = "latin" -> "copied"
      [] OTHER -> "attached"

\* ReadTracker, trackedGuttleBody
HasNull(p) == ~Binary(p) /\ Has(p.data, "0")
Has8Bit(p) == ~Binary(p) /\ Has(p.data, "8") /\ ~HasNull(p)

PartInfo(p, body) ==
    [type |-> p.type, charset |-> p.charset, head |-> p.head,
     binary |-> Binary(p), hasNull |-> HasNull(p), has8Bit |-> Has8Bit(p), body |-> body]

\* The first text is tried as the message, all else is a file.
How(got, p) ==
    IF p.type # "text" \/ got.textprocessed THEN "file" ELSE AsMessage(p, Data(p))

\* guttleBody
Guttle(got, p) ==
    LET s == Data(p)
        how == How(got, p)
        kept == Append(got.FI, s)
        told == [got EXCEPT !.textprocessed = @ \/ how # "file",
                            !.message = CASE how = "message" /\ Binary(p) -> s
                                          [] how = "message" /\ ~Binary(p) -> TrimUnixNL(s)
                                          [] how = "copied" -> Normalized(s)
                                          [] OTHER -> @]
    IN  IF how = "message"
        THEN [told EXCEPT !.parts = Append(@, PartInfo(p, IF told.message = <<>> THEN NoBody ELSE 0))]
        ELSE [told EXCEPT !.FI = kept, !.parts = Append(@, PartInfo(p, Len(kept))),
                          !.textAttachment = IF how = "attached" THEN Len(kept) ELSE @]

Nothing == [textprocessed |-> FALSE, message |-> <<>>, textAttachment |-> 0,
            FI |-> <<>>, parts |-> <<>>]

\* A message inside: its parts are eaten for their files, then it is kept as a
\* file itself; its layout does not say that it is binary.
InnerFile == <<"a">>
GuttleInner(p) ==
    [Nothing EXCEPT !.FI = <<InnerFile, Data(p)>>,
                    !.parts = <<[PartInfo(p, 2) EXCEPT !.binary = FALSE]>>]

\* pn_eatbody: the subject as it is read; the header goes if it says no more.
Title(subject) == CASE subject = "coded" -> "plain" [] subject = "blank" -> NoSubject
                    [] OTHER -> subject
SubjectHeader(subject) == IF subject = Title(subject) THEN NoSubject ELSE subject

\* guttleBody on one part after the other.
Guttled(ps) ==
    LET upTo[n \in 0 .. Len(ps)] == IF n = 0 THEN Nothing ELSE Guttle(upTo[n - 1], ps[n])
    IN  upTo[Len(ps)]

\* devourMessageBody, pn_eatbody
Devour(a) ==
    LET eaten == IF a.form = "message" THEN GuttleInner(a.parts[1]) ELSE Guttled(a.parts)
    IN  [form |-> a.form, title |-> Title(a.subject), subject |-> SubjectHeader(a.subject),
         message |-> eaten.message, FI |-> eaten.FI, parts |-> eaten.parts,
         textAttachment |-> eaten.textAttachment]

\* BodyObject and PartInfo by way of JSON: a list of no parts is null, and null
\* is no body; within an object it is read as a number, 0.
OnlyBody(i) ==
    i.type = "text" /\ i.charset = "utf8" /\ ~i.binary /\ ~i.hasNull /\ ~i.has8Bit /\ i.head = "none"
ByJSON(i) == IF i.body = NoBody /\ ~OnlyBody(i) THEN [i EXCEPT !.body = 0] ELSE i
NoParts == [type |-> "multi", charset |-> "utf8", head |-> "none", binary |-> FALSE,
            hasNull |-> FALSE, has8Bit |-> FALSE, body |-> NoBody]
Stored(row) ==
    IF row.form = "parts" /\ row.parts = <<>>
    THEN [row EXCEPT !.form = "single", !.parts = <<NoParts>>]
    ELSE [row EXCEPT !.parts = [k \in DOMAIN row.parts |-> ByJSON(row.parts[k])]]

\* generateBody: the message, or a file of which all is there.
Source(row, i) ==
    CASE i.body = NoBody -> <<>> [] i.body = 0 -> row.message [] OTHER -> row.FI[i.body]

\* quotedprintable.Writer ends lines with CR LF.
QuotedLines(s) ==
    FlattenSeq([k \in DOMAIN s |-> IF s[k] = "LF" THEN <<"CR", "LF">> ELSE <<s[k]>>])

\* setCTE, generateSomething
SetCTE(i) ==
    CASE i.binary -> "base64" [] ~i.binary /\ i.hasNull -> "qp"
      [] ~i.binary /\ ~i.hasNull /\ i.has8Bit -> "8bit" [] OTHER -> "none"
Generated(row, i) ==
    LET text == IF i.binary THEN Source(row, i) ELSE UnixText(Source(row, i))
    IN  [type |-> i.type, charset |-> i.charset, head |-> i.head, cte |-> SetCTE(i),
         data |-> IF SetCTE(i) = "qp" THEN QuotedLines(text) ELSE text]

\* A part's head is written without force (StartNextPart).
CannotWrite(row) ==
    row.form = "parts" /\ \E k \in DOMAIN row.parts : row.parts[k].head = "long"

\* nntpGenerate, GenerateMessage
GenerateMessage(row) ==
    [form |-> row.form,
     subject |-> IF row.subject = NoSubject THEN row.title ELSE row.subject,
     parts |-> [k \in DOMAIN row.parts |-> Generated(row, row.parts[k])]]
-----------------------------------------------------------------------------
\* A server takes the article in.
TakeIn ==
    /\ passing = "sent"
    /\ IF \E k \in DOMAIN onWire.parts : BadEncoding(onWire.parts[k])
       THEN passing' = "refused" /\ UNCHANGED held
       ELSE passing' = "kept" /\ held' = Append(held, Stored(Devour(onWire)))
    /\ UNCHANGED <<article, onWire>>

\* It gives the article to the next one.
PassOn ==
    /\ passing = "kept" /\ Len(held) = 1
    /\ IF CannotWrite(held[1])
       THEN passing' = "failed" /\ UNCHANGED onWire
       ELSE passing' = "sent" /\ onWire' = GenerateMessage(held[1])
    /\ UNCHANGED <<article, held>>

PassInit(articles) ==
    /\ article \in articles /\ onWire = article /\ held = <<>> /\ passing = "sent"

PassNext == TakeIn \/ PassOn
-----------------------------------------------------------------------------
\* What this code cannot pass on: a multipart without parts, one within another
\* (or one that is an attachment) with a NUL in it, a part with a header line
\* that is too long, a message in base64.
Passable ==
    LET ps == article.parts IN
    /\ article.form = "parts" => ps # <<>> /\ \A k \in DOMAIN ps : ps[k].head # "long"
    /\ \A k \in DOMAIN ps : ~(ps[k].type = "multi" /\ Has(ps[k].data, "0"))
    /\ article.form = "message" => ~Binary(ps[1])

SameContent(p, q) ==
    /\ p.type = q.type /\ p.charset = q.charset
    /\ Binary(p) <=> Binary(q)
    /\ IF Binary(p) THEN p.data = q.data ELSE UnixText(p.data) = UnixText(q.data)

\* What a server has taken in it can pass on: the next server gets the same
\* subject and the same parts, byte by byte if they were binary, in their lines
\* if they were text, whatever went into the message, was converted, was too
\* long or has NUL in it; no NUL is sent as it is.  The next server takes the
\* article in too and keeps the very same post.
PassedOnWhole ==
    Passable /\ held # <<>> =>
        /\ passing \notin {"refused", "failed"}
        /\ passing = "sent" \/ Len(held) = 2 =>
               /\ onWire.form = article.form /\ onWire.subject = article.subject
               /\ Len(onWire.parts) = Len(article.parts)
               /\ \A k \in DOMAIN onWire.parts :
                      /\ SameContent(article.parts[k], onWire.parts[k])
                      /\ onWire.parts[k].cte \in {"none", "8bit"} => ~Has(onWire.parts[k].data, "0")
        /\ Len(held) = 2 => held[2] = held[1]
=============================================================================
