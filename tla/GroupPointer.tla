----------------------------- MODULE GroupPointer -----------------------------
(***************************************************************************)
(* Reading over NNTP: the group that a connection has selected and its     *)
(* current article (pireadnntp/nntp.go, nntpcachemgr.go, nntpcopyer.go and *)
(* the queries of nntp.sql), while articles are posted and deleted.        *)
(*                                                                         *)
(* Every query sees the rows that are committed when it runs.  A post in a *)
(* board takes the next number of the board, and with it the lock on the   *)
(* row of the board, until its transaction ends (init_triggers_bposts.sql).*)
(* Boards stay: the application can add one and delete none.  Answers are  *)
(* abstracted to the rows they tell of; an answer without any is a refusal *)
(* or an empty list.                                                       *)
(***************************************************************************)
EXTENDS Integers, FiniteSets

CONSTANTS
    Boards,      \* ib0.boards, by b_id
    MaxNum,      \* bound on the numbers of a board
    MaxArticles, \* bound on the articles ever posted
    Ranges       \* the ranges asked for, <<first, last>>; last < 0 is open

NoBoard == 0

ASSUME PointerAssumption ==
    /\ NoBoard \notin Boards /\ IsFiniteSet(Boards)
    /\ MaxNum \in Nat /\ MaxArticles \in Nat
    /\ Ranges \subseteq Nat \X Int

VARIABLES
    rows,   \* ib0.bposts as committed: board, number, article
    open,   \* the rows of transactions that are not committed
    last,   \* boards.last_id, with the numbers taken by open transactions
    posted, \* how many articles there have been
    bid,    \* groupState.bid
    bpid,   \* groupState.bpid
    gpid,   \* groupState.gpid
    got,    \* the article whose text is about to be copied to the client
    said,   \* the rows that the last answer told of; number 0 is "not in this group"
    ever,   \* history: the rows ever committed
    first,  \* history: where the walk through the group began
    shown   \* history: the numbers that the pointer has been at since

db == <<rows, open, last, posted, ever>>
pointer == <<bid, bpid, gpid, first, shown>>
vars == <<db, pointer, got, said>>

Row == [b : Boards, n : 1 .. MaxNum, g : 1 .. MaxArticles]
Nothing == [n |-> 0, g |-> 0, moves |-> FALSE]

-----------------------------------------------------------------------------
(***************************************************************************)
(* The database.                                                           *)
(***************************************************************************)

Locked(b) == \E r \in open : r.b = b

NewRows(T) == {[b |-> b, n |-> last[b] + 1, g |-> posted + 1] : b \in T}

\* (Wrong variant: numbers are handed out without a lock.)
InsertUnlocked(T) ==
    /\ posted < MaxArticles /\ \A b \in T : last[b] < MaxNum
    /\ open' = open \cup NewRows(T)
    /\ last' = [b \in Boards |-> IF b \in T THEN last[b] + 1 ELSE last[b]]
    /\ posted' = posted + 1
    /\ UNCHANGED <<rows, ever, pointer, got, said>>

\* A new article for the boards of T: bposts_fix_bpid.
Insert(T) ==
    /\ posted < MaxArticles
    /\ \A b \in T : ~Locked(b) /\ last[b] < MaxNum
    /\ open' = open \cup NewRows(T)
    /\ last' = [b \in Boards |-> IF b \in T THEN last[b] + 1 ELSE last[b]]
    /\ posted' = posted + 1
    /\ UNCHANGED <<rows, ever, pointer, got, said>>

Mine(g) == {r \in open : r.g = g}

Commit(g) ==
    /\ Mine(g) # {}
    /\ rows' = rows \cup Mine(g)
    /\ ever' = ever \cup Mine(g)
    /\ open' = open \ Mine(g)
    /\ UNCHANGED <<last, posted, pointer, got, said>>

\* The numbers are given back with the rest of the transaction; g_p_id is not.
Rollback(g) ==
    /\ Mine(g) # {}
    /\ last' = [b \in Boards |-> IF \E r \in Mine(g) : r.b = b THEN last[b] - 1 ELSE last[b]]
    /\ open' = open \ Mine(g)
    /\ UNCHANGED <<rows, posted, ever, pointer, got, said>>

\* (Wrong variant: the number of the last post is free again.)
DeleteReusing(S) ==
    /\ S # {}
    /\ rows' = rows \ S
    /\ last' = [b \in Boards |-> IF \E r \in S : r.b = b /\ r.n = last[b] THEN last[b] - 1 ELSE last[b]]
    /\ UNCHANGED <<open, posted, ever, pointer, got, said>>

\* Rows go: mod_delete_by_msgid, a thread that is pruned.  The counts of the
\* board are corrected, so its row must not be locked.
Delete(S) ==
    /\ S # {} /\ \A r \in S : ~Locked(r.b)
    /\ rows' = rows \ S
    /\ UNCHANGED <<open, last, posted, ever, pointer, got, said>>

-----------------------------------------------------------------------------
(***************************************************************************)
(* The queries.                                                            *)
(***************************************************************************)

InBoard(b) == {r \in rows : r.b = b}

\* The first row by number, the last, and both; none of none.
Lowest(S) == {r \in S : \A q \in S : r.n <= q.n}
Highest(S) == {r \in S : \A q \in S : r.n >= q.n}
Ends(S) == Lowest(S) \cup Highest(S)

InRange(b, range) == {r \in InBoard(b) : r.n >= range[1] /\ (range[2] < 0 \/ r.n <= range[2])}
ByNumber(b, n) == {r \in InBoard(b) : r.n = n}
Posts(g) == {r \in rows : r.g = g}

\* bpidIfGroupEq and artnumInGroups: the number in the selected group or 0, of
\* an article looked up by its id.
InGroup(g) == IF \E r \in Posts(g) : r.b = bid
              THEN CHOOSE r \in Posts(g) : r.b = bid
              ELSE [b |-> bid, n |-> 0, g |-> g]

-----------------------------------------------------------------------------
(***************************************************************************)
(* The pointer.                                                            *)
(***************************************************************************)

\* Commands run one after another on a connection.
Ready == got = Nothing

Says(S) == said' = S
Refused == Says({}) /\ UNCHANGED <<pointer, got>>

\* The pointer at row r of board b, where a walk begins.
Enter(b, r) ==
    /\ bid' = b
    /\ bpid' = r.n /\ gpid' = r.g
    /\ first' = r.n /\ shown' = {r.n}

\* The first article of a board, which may have none.
Entry(b) == IF InBoard(b) = {} THEN {[n |-> 0, g |-> 0]} ELSE Lowest(InBoard(b))

\* GROUP; the name of no group changes nothing.
SelectGroup ==
    /\ Ready
    /\ \/ Refused
       \/ \E b \in Boards : \E r \in Entry(b) :
             Enter(b, r) /\ Says(Ends(InBoard(b))) /\ UNCHANGED got
    /\ UNCHANGED db

\* LISTGROUP, with the name of a group, of none, or without a name: of the
\* group that is selected.
SelectAndListGroup ==
    /\ Ready
    /\ \/ Refused
       \/ \E b \in Boards : \E r \in Entry(b), range \in Ranges :
             Enter(b, r) /\ Says(Ends(InBoard(b)) \cup InRange(b, range)) /\ UNCHANGED got
    /\ UNCHANGED db

\* The pointer at row r, on a walk that goes on.
StepPointer(r) ==
    /\ bpid' = r.n /\ gpid' = r.g
    /\ first' = IF r.n < first THEN r.n ELSE first
    /\ shown' = shown \cup {r.n}
    /\ Says({r})
    /\ UNCHANGED <<bid, got>>

After == {r \in InBoard(bid) : r.n > bpid}
Before == {r \in InBoard(bid) : r.n < bpid}

\* NEXT.
SelectNextArticle ==
    /\ Ready
    /\ IF bid = NoBoard \/ bpid = 0 \/ After = {} THEN Refused ELSE \E r \in Lowest(After) : StepPointer(r)
    /\ UNCHANGED db

\* LAST.
SelectPrevArticle ==
    /\ Ready
    /\ IF bid = NoBoard \/ bpid = 0 \/ Before = {} THEN Refused ELSE \E r \in Highest(Before) : StepPointer(r)
    /\ UNCHANGED db

-----------------------------------------------------------------------------
(***************************************************************************)
(* Articles, overviews and headers.                                        *)
(***************************************************************************)

\* ARTICLE, HEAD, BODY, STAT: the article is looked up, and then copied; in
\* between it may be deleted.
Fetch(r, moves) ==
    /\ got' = [n |-> r.n, g |-> r.g, moves |-> moves]
    /\ UNCHANGED <<pointer, said>>

ObtainByMsgID(g) ==
    /\ Ready
    /\ IF Posts(g) = {} THEN Refused ELSE Fetch(InGroup(g), FALSE)
    /\ UNCHANGED db

ObtainByNum(n) ==
    /\ Ready
    /\ IF bid = NoBoard \/ ByNumber(bid, n) = {} THEN Refused
       ELSE \E r \in ByNumber(bid, n) : Fetch(r, TRUE)
    /\ UNCHANGED db

ObtainByCurr ==
    /\ Ready
    /\ IF bid = NoBoard \/ bpid = 0 \/ ByNumber(bid, bpid) = {} THEN Refused
       ELSE \E r \in ByNumber(bid, bpid) : Fetch(r, FALSE)
    /\ UNCHANGED db

\* The copier sets the pointer, for a lookup by number, when it has read the
\* beginning of the text.
Copied ==
    /\ ~Ready
    /\ got' = Nothing
    /\ Says({[b |-> bid, n |-> got.n, g |-> got.g]})
    /\ IF got.moves THEN Enter(bid, got) ELSE UNCHANGED pointer
    /\ UNCHANGED db

\* There is no text (any more).
NotCopied ==
    /\ ~Ready
    /\ got' = Nothing
    /\ Says({})
    /\ UNCHANGED <<db, pointer>>

\* OVER tells of an article in the selected group, and in its last field of all
\* the groups that it is in.
Over(S) == Says(S \cup UNION {Posts(r.g) : r \in S})

GetOverByMsgID(g) ==
    /\ Ready
    /\ Over(IF Posts(g) = {} THEN {} ELSE {InGroup(g)})
    /\ UNCHANGED <<db, pointer, got>>

GetOverByRange(range) ==
    /\ Ready
    /\ Over(IF bid = NoBoard THEN {} ELSE InRange(bid, range))
    /\ UNCHANGED <<db, pointer, got>>

\* The current article, which OVER and HDR take by gpid, in whatever group it
\* still is.
Current == IF bid = NoBoard \/ Posts(gpid) = {} THEN {} ELSE {[b |-> bid, n |-> bpid, g |-> gpid]}

GetOverByCurr ==
    /\ Ready
    /\ Over(Current)
    /\ UNCHANGED <<db, pointer, got>>

\* HDR tells of the selected group alone.
GetHdrByMsgID(g) ==
    /\ Ready
    /\ Says(IF Posts(g) = {} THEN {} ELSE {InGroup(g)})
    /\ UNCHANGED <<db, pointer, got>>

GetHdrByRange(range) ==
    /\ Ready
    /\ Says(IF bid = NoBoard THEN {} ELSE InRange(bid, range))
    /\ UNCHANGED <<db, pointer, got>>

GetHdrByCurr ==
    /\ Ready
    /\ Says(Current)
    /\ UNCHANGED <<db, pointer, got>>

-----------------------------------------------------------------------------
(***************************************************************************)
(* Lists, which need no group.                                             *)
(***************************************************************************)

\* NEWNEWS: the ids of the articles in the groups of T from the oldest asked for.
ListNewNews(T, oldest) ==
    /\ Ready
    /\ Says({[b |-> r.b, n |-> 0, g |-> r.g] : r \in {q \in rows : q.b \in T /\ q.g >= oldest}})
    /\ UNCHANGED <<db, pointer, got>>

\* NEWGROUPS: the groups of T have been added since.
ListNewGroups(T) ==
    /\ Ready
    /\ Says(UNION {Ends(InBoard(b)) : b \in T})
    /\ UNCHANGED <<db, pointer, got>>

\* LIST ACTIVE: T are the groups whose names match.
ListActiveGroups(T) ==
    /\ Ready
    /\ Says(UNION {Ends(InBoard(b)) : b \in T})
    /\ UNCHANGED <<db, pointer, got>>

-----------------------------------------------------------------------------

Database ==
    \/ \E T \in SUBSET Boards \ {{}} : Insert(T)
    \/ \E g \in 1 .. MaxArticles : Commit(g) \/ Rollback(g) \/ Delete(Posts(g))
    \/ \E r \in rows : Delete({r})

Selecting == SelectGroup \/ SelectAndListGroup \/ SelectNextArticle \/ SelectPrevArticle

Fetching ==
    \/ \E g \in 1 .. MaxArticles : ObtainByMsgID(g)
    \/ \E n \in 1 .. MaxNum : ObtainByNum(n)
    \/ ObtainByCurr \/ Copied \/ NotCopied

Describing ==
    \/ \E g \in 1 .. MaxArticles : GetOverByMsgID(g) \/ GetHdrByMsgID(g)
    \/ \E range \in Ranges : GetOverByRange(range) \/ GetHdrByRange(range)
    \/ GetOverByCurr \/ GetHdrByCurr

Listing ==
    \E T \in SUBSET Boards :
        \/ \E g \in 1 .. MaxArticles : ListNewNews(T, g)
        \/ ListNewGroups(T) \/ ListActiveGroups(T)

Reader == Selecting \/ Fetching \/ Describing \/ Listing

Next == Database \/ Reader

Init ==
    /\ rows = {} /\ open = {} /\ ever = {}
    /\ last = [b \in Boards |-> 0]
    /\ posted = 0
    /\ bid = NoBoard /\ bpid = 0 /\ gpid = 0
    /\ first = 0 /\ shown = {}
    /\ got = Nothing
    /\ said = {}

Spec == Init /\ [][Next]_vars

-----------------------------------------------------------------------------
(***************************************************************************)
(* Properties.                                                             *)
(***************************************************************************)

\* Every variable keeps its type.
TypeOK ==
    /\ rows \subseteq Row /\ open \subseteq Row /\ ever \subseteq Row
    /\ last \in [Boards -> 0 .. MaxNum]
    /\ posted \in 0 .. MaxArticles
    /\ bid \in Boards \cup {NoBoard}
    /\ bpid \in 0 .. MaxNum
    /\ gpid \in 0 .. MaxArticles
    /\ got \in [n : 0 .. MaxNum, g : 0 .. MaxArticles, moves : BOOLEAN]
    /\ said \subseteq [b : Boards \cup {NoBoard}, n : 0 .. MaxNum, g : 1 .. MaxArticles]
    /\ first \in 0 .. MaxNum
    /\ shown \subseteq 0 .. MaxNum

\* A number means one article of a group for ever ("we cound reuse same b_p_id
\* but it sorta feels cleaner not to", init_triggers_bposts.sql:424): what the
\* pointer holds and what the answers say of numbers was once so in the group,
\* however the articles have come and gone since.
NumbersTrue ==
    /\ \A x, y \in ever : x.b = y.b /\ x.n = y.n => x = y
    /\ bpid # 0 => [b |-> bid, n |-> bpid, g |-> gpid] \in ever
    /\ \A r \in said : r.n # 0 => r \in ever

\* A walk with NEXT and LAST passes no article over: whatever is in the group
\* between where it began and where it is has been shown, also the articles
\* that were committed while it went on.
WalkComplete ==
    bpid # 0 => \A r \in InBoard(bid) : r.n \in first .. bpid => r.n \in shown
=============================================================================
