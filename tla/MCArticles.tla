---------------------------- MODULE MCArticles ----------------------------
(***************************************************************************)
(* Which articles are taken (Transfer), how they get in (Intake) and out   *)
(* (CacheCopy), and what posts refer to as they come and go (PostRefs).  A *)
(* behaviour follows one of the four: Intake is one article of Transfer's, *)
(* seen closer; the others share no file, no row and no goroutine.         *)
(***************************************************************************)
EXTENDS CacheCopy, Intake, PostRefs, Transfer

CONSTANT MaxLen

\* Every article of up to MaxLen bytes.
MCArticles ==
    {a \in UNION {[1 .. k -> {"text", "nl"}] : k \in 1 .. MaxLen} :
        \E i \in 1 .. Len(a) : EmptyLine(a, i)}

\* Every body of one part, and every multipart body of up to two; with and
\* without something behind the last boundary, or cut off before it.
MCBodies ==
    {b \in [parts : UNION {[1 .. k -> PartKinds] : k \in 0 .. 2}, multi : BOOLEAN,
             tail : BOOLEAN, cut : BOOLEAN, inner : BOOLEAN, face : BOOLEAN,
             sent : BOOLEAN] :
        /\ ~b.multi => Len(b.parts) = 1 /\ ~b.tail /\ ~b.cut
        /\ ~(b.tail /\ b.cut)}

\* The posts 1 and 2 have names that begin alike.  The message names a board, a
\* Message-ID with digits in it, then those two posts with a board and without,
\* and one post more than is looked at.
Match(from, to, digits, board, msgid) ==
    [start |-> from, end |-> to, digits |-> digits, board |-> board, msgid |-> msgid]
MCMessages ==
    {{},
     {Match(1, 2, {}, 1, NoPost), Match(4, 8, {}, NoBoard, 1), Match(6, 9, {2}, NoBoard, NoPost),
      Match(10, 13, {1, 2}, 2, NoPost), Match(15, 17, {1, 2}, NoBoard, NoPost),
      Match(18, 20, {3}, NoBoard, NoPost)}}

\* A thread (1) with replies to it: good, in another group, dated before it,
\* to itself; a thread in a group that is added on the way, one in a group that
\* is not wanted; a post without id; texts that cannot be read; heads that miss
\* something or name something that is not.
Article(given, group, ref, date) ==
    [given |-> given, own |-> 9, group |-> group, ref |-> ref, date |-> date,
     laxdate |-> FALSE, lacks |-> {}, sound |-> TRUE]
Root == Article(1, "a", NoId, 1)
MCOldPosts == {<<>>, [x \in {1} |-> [group |-> "a", date |-> 1, thread |-> 1]]}
MCOffers ==
    LET offered(how, said, expect, mail) ==
            [how |-> how, said |-> said, expect |-> expect, art |-> mail]
        transferred == {Root, Article(2, "a", 1, 2), Article(3, "b", 1, 2),
                        [Article(4, "a", 1, 0) EXCEPT !.laxdate = TRUE],
                        [Article(5, "b", NoId, 0) EXCEPT !.sound = FALSE],
                        Article(6, "a", 6, 1), Article(7, "new", NoId, 1),
                        Article(8, "junk", NoId, 1)}
    IN  {offered("transfer", a.given, "", a) : a \in transferred}
        \cup {offered("post", NoId, "", a) :
                a \in {Root, Article(NoId, "a", 1, 2), Article(6, "a", 6, 1),
                       [Article(4, "a", 1, 0) EXCEPT !.laxdate = TRUE]}}
        \cup {offered("pull", a.given, "a", a) : a \in {Article(2, "a", 1, 2), Article(7, "new", NoId, 1)}}
        \cup {offered("transfer", 1, "", Article(2, "a", 1, 2)),
              offered("transfer", 10, "", [Article(NoId, "b", 1, 3) EXCEPT !.date = 3]),
              offered("transfer", 11, "", [Article(11, "", NoId, 0) EXCEPT !.lacks = {"transfer"}])}

VARIABLE subject    \* "in", "out", "refs" or "offers"

articlesVars == <<subject, vars, intakeVars, refsVars, transferVars>>

\* The others have nothing to do: they have ended.
CopyIdle == art = <<"nl">> /\ kind = "full" /\ wpc = "done" /\ rpc = "done" /\ Untouched
IntakeIdle ==
    /\ body = [parts |-> <<>>, multi |-> TRUE, tail |-> FALSE, cut |-> FALSE,
               inner |-> FALSE, face |-> FALSE, sent |-> FALSE]
    /\ iat = "refused" /\ Untaken

ArticlesInit ==
    /\ \/ subject = "in" /\ IntakeInit /\ CopyIdle
       \/ subject = "out" /\ Init /\ IntakeIdle
       \/ subject \in {"refs", "offers"} /\ CopyIdle /\ IntakeIdle
    /\ RefsInit
    /\ TransferInit /\ (subject # "offers" => stored = <<>>)

ArticlesNext ==
    /\ \/ subject = "in" /\ IntakeNext /\ UNCHANGED <<vars, refsVars, transferVars>>
       \/ subject = "out" /\ Next /\ UNCHANGED <<intakeVars, refsVars, transferVars>>
       \/ subject = "refs" /\ RefsNext /\ UNCHANGED <<vars, intakeVars, transferVars>>
       \/ subject = "offers" /\ TransferNext /\ UNCHANGED <<vars, intakeVars, refsVars>>
    /\ UNCHANGED subject

ArticlesSpec ==
    /\ ArticlesInit /\ [][ArticlesNext]_articlesVars
    /\ IntakeFairness /\ WF_vars(Write) /\ WF_vars(Read)

\* An article is taken in or refused in the end, whichever of its two
\* goroutines fails first: neither waits for ever at the pipe.  And a reader of
\* the cache ends when the generation of its article does.
ArticleEnds == <>(IntakeEnded /\ rpc = "done")
=============================================================================
