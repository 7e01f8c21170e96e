------------------------------ MODULE PostRefs ------------------------------
(***************************************************************************)
(* Posts that refer to posts (psqlib/internal/pirefs).  A message names    *)
(* others by the first digits of their names, with or without a board, or  *)
(* by Message-ID (ibrefsrnd).  What it refers to is kept with the post     *)
(* (activ_refs) and depends on what posts there are; so the transaction    *)
(* that adds or deletes a post also looks for posts that refer to it and   *)
(* computes theirs again, a page at a time.                                *)
(*                                                                         *)
(* A transaction sees, at every statement, what is committed and what it   *)
(* did itself (READ COMMITTED).  Posts of one board are added and deleted  *)
(* one transaction after the other: each updates the row of its board.     *)
(*                                                                         *)
(* A name stands for a post's name, its Message-ID and its hash; the       *)
(* digits that a message writes are told by the names that begin so.       *)
(***************************************************************************)
EXTENDS Integers, FiniteSets, SequencesExt

CONSTANTS Boards,      \* numbers
          PostNames,   \* numbers
          Messages,    \* sets of matches, as the three regular expressions find them
          PageLen,     \* how many posts mod_ref_find_post returns, 5000
          MaxTx,       \* bound: how many transactions there are
          MaxWriters,  \* bound: how many of them refer to others
          MaxRefs      \* how many references are taken from a message, 255

VARIABLES
    posts,     \* the committed posts by name: board, thread, number, matches, In-Reply-To
    activRefs, \* their activ_refs
    tx,        \* by board: the transaction that holds its row
    begun, referring,  \* how many transactions there were; posts with references
    seen,      \* the boards and names of all posts there ever were
    crossed    \* two transactions have run at once

refsVars == <<posts, activRefs, tx, begun, referring, seen, crossed>>

NoBoard == 0
NoPost == 0

\* Two matches do not begin at the same place.
RefsAssumption ==
    /\ NoPost \notin PostNames /\ PageLen \in Nat \ {0} /\ MaxRefs \in Nat
    /\ MaxTx \in Nat /\ MaxWriters \in Nat
    /\ \A found \in Messages :
           /\ IsFiniteSet(found) /\ \A m \in found : m.start \in Nat
           /\ \A m, k \in found : m.start = k.start => m = k
ASSUME RefsAssumption

NoTx == [at |-> "none", new |-> <<>>, gone |-> {}, wrote |-> <<>>,
         todo |-> <<>>, off |-> 0, page |-> {}, full |-> FALSE, now |-> NoPost, fresh |-> <<>>]

\* The members of S by a number that each has of its own.
Sorted(S, key) ==
    [i \in 1 .. Cardinality(S) |->
        CHOOSE x \in S : Cardinality({y \in S : key[y] < key[x]}) = i - 1]
-----------------------------------------------------------------------------
(* References in a message. *)

\* ParseReferences: by place, without those that begin before the last one
\* ends, and no more than MaxRefs.
Parsed(found) ==
    LET inOrder == Sorted(found, [m \in found |-> m.start])
        apart[i \in Nat] ==
            IF i = 0 THEN <<>>
            ELSE LET kept == apart[i - 1]
                     m == inOrder[i]
                 IN  IF kept # <<>> /\ Last(kept).end > m.start
                     THEN kept ELSE Append(kept, m)
        all == apart[Len(inOrder)]
    IN  SubSeq(all, 1, IF Len(all) < MaxRefs THEN Len(all) ELSE MaxRefs)

\* mod_ref_write and mod_ref_find_post: r may be the post n of board b.
MayBe(r, n, b) == (n \in r.digits /\ r.board \in {NoBoard, b}) \/ r.msgid = n

OnlyBoard(r) == r.digits = {} /\ r.msgid = NoPost

Before(k, l) ==
    \E i \in DOMAIN k : k[i] < l[i] /\ \A j \in 1 .. i - 1 : k[j] = l[j]
Rank(good) == IF good THEN 0 ELSE 1

\* The posts of view that r may be.
Meant(view, r) == {n \in DOMAIN view : MayBe(r, n, view[n].board)}

\* ORDER BY ... LIMIT 1 among them.
Pick(may, key) ==
    IF may = {} THEN NoPost ELSE CHOOSE n \in may : \A m \in may \ {n} : Before(key[n], key[m])

\* ProcessReferencesOnPost: the own thread first if no board is written, then
\* the own board, then the newest.
PickOnPost(view, r, b, t) ==
    Pick(Meant(view, r), [n \in Meant(view, r) |->
             <<Rank(r.board = NoBoard /\ view[n].board = b /\ view[n].thread = t),
               Rank(view[n].board = b), -view[n].num>>])

\* What the server of a poster writes as In-Reply-To.
InReplyTo(view, found, b, t) ==
    LET refs == Parsed(found)
    IN  {PickOnPost(view, refs[i], b, t) : i \in DOMAIN refs} \ {NoPost}

\* ProcessReferencesOnIncoming: what is in In-Reply-To first, then the own
\* board, then the oldest.
PickOnIncoming(view, r, b, irt) ==
    Pick(Meant(view, r),
         [n \in Meant(view, r) |-> <<Rank(n \in irt), Rank(view[n].board = b), view[n].num>>])

\* Board and thread are left out when they are those of the post itself.
Entry(view, r, n, b, t) ==
    LET own == r.board = NoBoard /\ r.msgid = NoPost /\ view[n].board = b
    IN  [start |-> r.start, end |-> r.end, post |-> n,
         board |-> IF own THEN NoBoard ELSE view[n].board,
         thread |-> IF own /\ view[n].thread = t THEN NoPost ELSE view[n].thread]

BoardEntry(r) ==
    [start |-> r.start, end |-> r.end, post |-> NoPost, board |-> r.board, thread |-> NoPost]

\* ProcessReferencesOnIncoming: one entry for each reference that is found.
Incoming(view, p) ==
    LET refs == Parsed(p.found)
        to == [i \in DOMAIN refs |-> PickOnIncoming(view, refs[i], p.board, p.irt)]
        there == {i \in DOMAIN refs : OnlyBoard(refs[i]) \/ to[i] # NoPost}
        order == Sorted(there, [i \in there |-> i])
    IN  [k \in DOMAIN order |->
            LET i == order[k]
            IN  IF OnlyBoard(refs[i]) THEN BoardEntry(refs[i])
                ELSE Entry(view, refs[i], to[i], p.board, p.thread)]
-----------------------------------------------------------------------------
(* Transactions. *)

Held(b) == tx[b].at # "none"

Minus(f, S) == [n \in DOMAIN f \ S |-> f[n]]
Only(n, row) == [m \in {n} |-> row]
WrittenOn(f, g) ==
    [n \in DOMAIN f \cup DOMAIN g |-> IF n \in DOMAIN f THEN f[n] ELSE g[n]]

\* What the transaction of b sees.
View(b) == WrittenOn(tx[b].new, Minus(posts, tx[b].gone))
RefsOf(b) == WrittenOn(tx[b].wrote, activRefs)

Uncommitted == UNION {DOMAIN tx[b].new \cup tx[b].gone : b \in Boards}

\* The row of post n is written by another transaction that has not ended.
RowLocked(b, n) == \E c \in Boards \ {b} : n \in DOMAIN tx[c].wrote \cup tx[c].gone

BeginTx(b, t) ==
    /\ tx' = [tx EXCEPT ![b] = t]
    /\ crossed' = (crossed \/ \E c \in Boards \ {b} : Held(c))

\* The number is taken from the board's row.  A name that is there already is a
\* duplicate and changes nothing; one that another transaction adds or deletes
\* is waited for.
InsertBPost(b, n, t) ==
    /\ ~Held(b) /\ n \notin DOMAIN posts \cup Uncommitted
    /\ begun < MaxTx /\ begun' = begun + 1 /\ seen' = seen \cup {<<b, n>>}
    /\ \E found \in Messages :
           /\ found # {} => referring < MaxWriters
           /\ referring' = referring + (IF found # {} THEN 1 ELSE 0)
           /\ BeginTx(b, [NoTx EXCEPT
                  !.at = "declare",
                  !.new = Only(n, [board |-> b, thread |-> t, num |-> begun + 1, found |-> found,
                                   irt |-> InReplyTo(posts, found, b, t)])])
    /\ UNCHANGED <<posts, activRefs>>

InsertNewThread(b) == \E n \in PostNames : InsertBPost(b, n, n)

InsertNewReply(b) ==
    \E t \in DOMAIN posts \ Uncommitted :
        /\ posts[t].board = b /\ posts[t].thread = t
        /\ \E n \in PostNames : InsertBPost(b, n, t)

\* deleteByMsgID: the post, and with the first of a thread all of it.
DeleteByMsgID(b) ==
    /\ ~Held(b) /\ begun < MaxTx /\ begun' = begun + 1
    /\ \E n \in DOMAIN posts \ Uncommitted :
       LET nuked == {n} \cup {m \in DOMAIN posts : posts[m].thread = n}
       IN  /\ posts[n].board = b /\ nuked \cap Uncommitted = {}
           /\ \A m \in nuked : ~RowLocked(b, m)
           /\ BeginTx(b, [NoTx EXCEPT !.at = "find", !.gone = nuked,
                                      !.todo = Sorted(nuked, [m \in nuked |-> posts[m].num])])
    /\ UNCHANGED <<posts, activRefs, referring, seen>>

Go(b, t) == tx' = [tx EXCEPT ![b] = t] /\ UNCHANGED <<posts, activRefs, begun, referring, seen, crossed>>

\* ProcessRefsAfterPost up to the fixup: InsertXRefs, what it refers to,
\* UpdatePostReferences.
Declare(b) ==
    /\ tx[b].at = "declare"
    /\ LET n == CHOOSE m \in DOMAIN tx[b].new : TRUE
       IN  Go(b, [tx[b] EXCEPT !.at = "find", !.todo = <<n>>,
                               !.wrote = Only(n, Incoming(View(b), View(b)[n]))])

\* The rows that InsertXRefs has made for a post.
Xrefs(p) == Range(Parsed(p.found))

\* The posts behind off that refer to what was added or deleted, in the order
\* of their numbers.
Referring(b, n, off) ==
    LET view == View(b)
        board == IF n \in tx[b].gone THEN posts[n].board ELSE view[n].board
        refer == {m \in DOMAIN view :
                     view[m].num > off /\ \E r \in Xrefs(view[m]) : MayBe(r, n, board)}
    IN  Sorted(refer, [m \in refer |-> view[m].num])

\* FindReferences: a page of them, behind off.
FindReferences(b) ==
    /\ tx[b].at = "find" /\ tx[b].todo # <<>>
    /\ LET behind == Referring(b, Head(tx[b].todo), tx[b].off)
           page == SubSeq(behind, 1, IF Len(behind) < PageLen THEN Len(behind) ELSE PageLen)
       IN  Go(b, [tx[b] EXCEPT !.at = "fix",
                               !.full = Len(page) = PageLen,
                               !.page = {[name |-> m, post |-> View(b)[m], was |-> RefsOf(b)[m],
                                          left |-> TRUE] : m \in Range(page)}])

\* What a post on the page refers to now.
Recompute(b) ==
    /\ tx[b].at = "fix"
    /\ \E x \in tx[b].page :
           /\ x.left
           /\ LET fresh == Incoming(View(b), x.post)
                  done == (tx[b].page \ {x}) \cup {[x EXCEPT !.left = FALSE]}
              IN  Go(b, IF fresh = x.was THEN [tx[b] EXCEPT !.page = done]
                        ELSE [tx[b] EXCEPT !.at = "update", !.page = done,
                                           !.now = x, !.fresh = fresh])

\* UpdatePostReferences waits for a transaction that wrote the row; if that has
\* deleted it, nothing is updated.
UpdatePostReferences(b) ==
    /\ tx[b].at = "update" /\ ~RowLocked(b, tx[b].now.name)
    /\ LET n == tx[b].now.name
           there == n \in DOMAIN View(b) /\ View(b)[n].num = tx[b].now.post.num
       IN  Go(b, [tx[b] EXCEPT !.at = "fix", !.now = NoPost, !.fresh = <<>>,
                               !.wrote = IF there THEN WrittenOn(Only(n, tx[b].fresh), @) ELSE @])

\* Wrong: a full page is taken for the last one.
NextPageNot(b) ==
    /\ tx[b].at = "fix" /\ \A x \in tx[b].page : ~x.left
    /\ Go(b, [tx[b] EXCEPT !.at = "find", !.page = {}, !.off = 0, !.todo = Tail(tx[b].todo)])

\* A full page may not be the last one.  The next one is behind the post that
\* was returned last: any of them, the join keeps no order.
NextPage(b) ==
    /\ tx[b].at = "fix" /\ \A x \in tx[b].page : ~x.left
    /\ IF tx[b].full
       THEN \E x \in tx[b].page :
                Go(b, [tx[b] EXCEPT !.at = "find", !.page = {}, !.off = x.post.num])
       ELSE Go(b, [tx[b] EXCEPT !.at = "find", !.page = {}, !.off = 0, !.todo = Tail(tx[b].todo)])

\* Commit.
CommitRefs(b) ==
    /\ tx[b].at = "find" /\ tx[b].todo = <<>>
    /\ posts' = View(b)
    /\ activRefs' = [n \in DOMAIN View(b) |-> RefsOf(b)[n]]
    /\ tx' = [tx EXCEPT ![b] = NoTx]
    /\ UNCHANGED <<begun, referring, seen, crossed>>

\* One of two transactions that wait for each other is rolled back.  (Another
\* one that fails leaves nothing: it is one that did not begin.)
RollbackRefs(b) ==
    /\ tx[b].at = "update" /\ RowLocked(b, tx[b].now.name)
    /\ Go(b, NoTx)

RefsStep(b) ==
    \/ InsertNewThread(b) \/ InsertNewReply(b) \/ DeleteByMsgID(b)
    \/ Declare(b) \/ FindReferences(b) \/ Recompute(b) \/ UpdatePostReferences(b)
    \/ NextPage(b) \/ CommitRefs(b) \/ RollbackRefs(b)

\* Nobody has to add or delete a post.
AtRest == \A b \in Boards : ~Held(b)

RefsNext == (\E b \in Boards : RefsStep(b)) \/ (AtRest /\ UNCHANGED refsVars)

RefsInit ==
    /\ posts = <<>> /\ activRefs = <<>> /\ tx = [b \in Boards |-> NoTx]
    /\ begun = 0 /\ referring = 0 /\ seen = {} /\ crossed = FALSE
-----------------------------------------------------------------------------
(* ProcessBackReferences, for a thread that is shown. *)

ThreadPosts(b, t) ==
    Sorted({n \in DOMAIN posts : posts[n].board = b /\ posts[n].thread = t},
           [n \in DOMAIN posts |-> posts[n].num])

\* An entry leads to post n of the thread t of b that is shown.
LeadsTo(e, n, b, t) ==
    e.post = n /\ e.board \in {NoBoard, b} /\ e.thread \in {NoPost, t}

\* m is put behind the back references of n for each of its entries that leads
\* there, unless it is the last already.
BackReferences(n) ==
    LET b == posts[n].board
        t == posts[n].thread
        shown == ThreadPosts(b, t)
        Of(back, m) ==
            LET with[j \in 0 .. Len(activRefs[m])] ==
                    IF j = 0 THEN back
                    ELSE LET k == with[j - 1]
                         IN  IF LeadsTo(activRefs[m][j], n, b, t) /\ m # n
                                /\ (k = <<>> \/ Last(k) # m)
                             THEN Append(k, m) ELSE k
            IN  with[Len(activRefs[m])]
        all[i \in 0 .. Len(shown)] == IF i = 0 THEN <<>> ELSE Of(all[i - 1], shown[i])
    IN  all[Len(shown)]
-----------------------------------------------------------------------------
(* Properties. *)

\* Only posts of its own board can ever have been meant by n's references.
Local(n) ==
    LET refs == Parsed(posts[n].found)
    IN  \A i \in DOMAIN refs : \A x \in seen :
            MayBe(refs[i], x[2], x[1]) => x[1] = posts[n].board

\* The post that m refers to at e exists, is named so by the message, is on
\* the board and in the thread that is said; and nothing that is named there
\* is left out.
EntryTrue(m, e) ==
    \E r \in posts[m].found :
        /\ r.start = e.start /\ r.end = e.end
        /\ \/ OnlyBoard(r) /\ e.board = r.board /\ e.post = NoPost
           \/ /\ e.post \in DOMAIN posts /\ MayBe(r, e.post, posts[e.post].board)
              /\ e.board \in {posts[e.post].board}
                               \cup (IF posts[e.post].board = posts[m].board THEN {NoBoard} ELSE {})
              /\ e.thread \in {posts[e.post].thread}
                               \cup (IF posts[e.post].thread = posts[m].thread THEN {NoPost} ELSE {})

\* When no transaction runs, every post refers to what it would if it came in
\* now: a post that was deleted is referred to by none, one that came later
\* than a reference to it is found.  So it is as long as transactions run one
\* after the other, and always for posts whose references stay on their board.
\* And the back references of a thread are the references in it.
RefsTrue ==
    AtRest =>
        \A n \in DOMAIN posts : (~crossed \/ Local(n)) =>
            /\ activRefs[n] = Incoming(posts, posts[n])
            /\ \A i \in DOMAIN activRefs[n] : EntryTrue(n, activRefs[n][i])
            /\ Local(n) => \A m \in DOMAIN posts :
                   /\ \A i, j \in DOMAIN BackReferences(m) :
                          BackReferences(m)[i] = BackReferences(m)[j] => i = j
                   /\ n \in Range(BackReferences(m))
                          <=> /\ n # m /\ posts[n].board = posts[m].board
                              /\ posts[n].thread = posts[m].thread
                              /\ \E i \in DOMAIN activRefs[n] : activRefs[n][i].post = m
=============================================================================
