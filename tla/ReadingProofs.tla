---------------------------- MODULE ReadingProofs ----------------------------
(***************************************************************************)
(* Proofs about what is read and told: the groups and articles that a      *)
(* client reads (GroupPointer), for any set of boards and any number of    *)
(* articles; the texts, lists and wildmats that are taken apart            *)
(* (TextsAndLists), for any of them, of any length.                        *)
(***************************************************************************)
EXTENDS GroupPointer, TextsAndLists, FiniteSetTheorems, SequenceTheorems,
        WellFoundedInduction, TLAPS


(***************************************************************************)
(* The invariant.                                                          *)
(***************************************************************************)

\* Numbers are handed out once and in order: an open row has the last number of
\* its board, and what is committed lies below it.
Numbered ==
    /\ rows \subseteq ever
    /\ \A r \in open : r.n = last[r.b]
    /\ \A r, q \in open : r.b = q.b => r = q
    /\ \A x \in ever : x.n <= last[x.b]
    /\ \A x \in ever, r \in open : x.b = r.b => x.n < r.n
    /\ \A x, y \in ever : x.b = y.b /\ x.n = y.n => x = y

\* What the connection holds, and what it has been told, was once so.
Pointed ==
    /\ bpid # 0 => [b |-> bid, n |-> bpid, g |-> gpid] \in ever
    /\ got # Nothing => got.g # 0
    /\ got.n # 0 => [b |-> bid, n |-> got.n, g |-> got.g] \in ever
    /\ got.moves => got.n # 0
    /\ \A r \in said : r.n # 0 => r \in ever

\* The walk began at or before where it is.
Walked ==
    /\ bpid # 0 => first \in 1 .. bpid
    /\ WalkComplete

PointerInv == TypeOK /\ Numbered /\ Pointed /\ Walked

LEMMA InitInv == Init => PointerInv
<1> SUFFICES ASSUME Init PROVE PointerInv
  OBVIOUS
<1> USE PointerAssumption DEF Init
<1>1. TypeOK
  BY DEF TypeOK, Nothing, NoBoard
<1>2. Numbered
  BY DEF Numbered
<1>3. Pointed
  BY DEF Pointed, Nothing
<1>4. Walked
  BY DEF Walked, WalkComplete
<1> QED
  BY <1>1, <1>2, <1>3, <1>4 DEF PointerInv

-----------------------------------------------------------------------------
(***************************************************************************)
(* The database.                                                           *)
(***************************************************************************)

\* What the connection has is not touched.
Idle == UNCHANGED <<pointer, got, said>>

\* A committed row keeps what is said of it, and a walk is complete as long as
\* no row comes in at or below where it is.
LEMMA IdleInv ==
    ASSUME PointerInv, Idle, ever \subseteq ever',
           \A r \in rows' : r \in rows \/ bpid = 0 \/ r.b # bid \/ r.n > bpid,
           rows' \subseteq Row
    PROVE  Pointed' /\ Walked'
<1> USE PointerAssumption DEF PointerInv, Idle, pointer
<1>1. Pointed'
  BY DEF Pointed
<1>2. Walked'
  BY DEF Walked, WalkComplete, InBoard, TypeOK, Row
<1> QED
  BY <1>1, <1>2

\* The rows of a new article are open rows of boards that had none.
LEMMA InsertInv ==
    ASSUME PointerInv, NEW T \in SUBSET Boards, Insert(T)
    PROVE  PointerInv'
<1> USE PointerAssumption DEF Insert
<1>1. NewRows(T) \subseteq Row
  BY DEF NewRows, Row, PointerInv, TypeOK
<1>2. \A r \in NewRows(T) : r.b \in T /\ r.n = last[r.b] + 1 /\ r.g = posted + 1
  BY DEF NewRows
<1>3. \A r, q \in NewRows(T) : r.b = q.b => r = q
  BY DEF NewRows
<1>4. \A r \in open : r.b \notin T
  BY DEF Locked
<1>5. TypeOK'
  BY <1>1 DEF PointerInv, TypeOK, pointer
<1>6. Numbered'
  <2> USE DEF PointerInv, Numbered
  <2>1. rows' \subseteq ever' /\ \A x, y \in ever' : x.b = y.b /\ x.n = y.n => x = y
    OBVIOUS
  <2>2. \A r \in open' : r.n = last'[r.b]
    BY <1>2, <1>4 DEF TypeOK, Row
  <2>3. \A r, q \in open' : r.b = q.b => r = q
    BY <1>2, <1>3, <1>4
  <2>4. \A x \in ever' : x.n <= last'[x.b]
    BY DEF TypeOK, Row
  <2>5. \A x \in ever', r \in open' : x.b = r.b => x.n < r.n
    BY <1>2 DEF TypeOK, Row
  <2> QED
    BY <2>1, <2>2, <2>3, <2>4, <2>5
<1>7. Pointed' /\ Walked'
  BY IdleInv DEF Idle, PointerInv, TypeOK
<1> QED
  BY <1>5, <1>6, <1>7 DEF PointerInv

\* A row that is committed has a number above all that were committed before,
\* the pointer's among them.
LEMMA CommitInv ==
    ASSUME PointerInv, NEW g \in 1 .. MaxArticles, Commit(g)
    PROVE  PointerInv'
<1> USE PointerAssumption DEF Commit
<1>1. Mine(g) \subseteq open
  BY DEF Mine
<1>2. TypeOK'
  BY <1>1 DEF PointerInv, TypeOK, pointer
<1>3. Numbered'
  <2> USE <1>1 DEF PointerInv, Numbered
  <2>1. rows' \subseteq ever'
    OBVIOUS
  <2>2. /\ \A r \in open' : r.n = last'[r.b]
        /\ \A r, q \in open' : r.b = q.b => r = q
    OBVIOUS
  <2>3. \A x \in ever' : x.n <= last'[x.b]
    BY DEF TypeOK, Row
  <2>4. \A x \in ever', r \in open' : x.b = r.b => x.n < r.n
    OBVIOUS
  <2>5. \A x, y \in ever' : x.b = y.b /\ x.n = y.n => x = y
    BY DEF TypeOK, Row
  <2> QED
    BY <2>1, <2>2, <2>3, <2>4, <2>5
<1>4. \A r \in Mine(g) : bpid = 0 \/ r.b # bid \/ r.n > bpid
  BY <1>1 DEF PointerInv, Pointed, Numbered, TypeOK, Row
<1>5. Pointed' /\ Walked'
  BY <1>2, <1>4, IdleInv DEF Idle, TypeOK
<1> QED
  BY <1>2, <1>3, <1>5 DEF PointerInv

\* The number that is given back is the last one, and nobody has seen it.
LEMMA RollbackInv ==
    ASSUME PointerInv, NEW g \in 1 .. MaxArticles, Rollback(g)
    PROVE  PointerInv'
<1> USE PointerAssumption DEF Rollback
<1>1. Mine(g) \subseteq open
  BY DEF Mine
<1>2. \A b \in Boards : last'[b] \in 0 .. MaxNum
  BY <1>1 DEF PointerInv, TypeOK, Numbered, Row
<1>3. TypeOK'
  BY <1>1, <1>2 DEF PointerInv, TypeOK, pointer
<1>4. Numbered'
  <2> USE <1>1 DEF PointerInv, Numbered
  <2>1. rows' \subseteq ever' /\ \A x, y \in ever' : x.b = y.b /\ x.n = y.n => x = y
    OBVIOUS
  <2>2. \A r \in open' : r \in open /\ \A q \in Mine(g) : q.b # r.b
    OBVIOUS
  <2>3. \A r \in open' : r.n = last'[r.b]
    BY <2>2 DEF TypeOK, Row
  <2>4. \A x \in ever' : x.n <= last'[x.b]
    BY DEF TypeOK, Row
  <2>5. /\ \A r, q \in open' : r.b = q.b => r = q
        /\ \A x \in ever', r \in open' : x.b = r.b => x.n < r.n
    OBVIOUS
  <2> QED
    BY <2>1, <2>3, <2>4, <2>5
<1>5. Pointed' /\ Walked'
  BY IdleInv DEF Idle, PointerInv, TypeOK
<1> QED
  BY <1>3, <1>4, <1>5 DEF PointerInv

\* The number of a deleted row is not free again.
LEMMA DeleteInv ==
    ASSUME PointerInv, NEW S \in SUBSET rows, Delete(S)
    PROVE  PointerInv'
<1> USE PointerAssumption DEF Delete
<1>1. TypeOK'
  BY DEF PointerInv, TypeOK, pointer
<1>2. Numbered'
  BY DEF PointerInv, Numbered
<1>3. Pointed' /\ Walked'
  BY IdleInv DEF Idle, PointerInv, TypeOK
<1> QED
  BY <1>1, <1>2, <1>3 DEF PointerInv

-----------------------------------------------------------------------------
(***************************************************************************)
(* The connection.                                                         *)
(***************************************************************************)

\* What a command may leave behind when the database stays as it is: types, and
\* rows that are there.
LEMMA ReaderInv ==
    ASSUME PointerInv, UNCHANGED db,
           said' \subseteq [b : Boards \cup {NoBoard}, n : 0 .. MaxNum, g : 1 .. MaxArticles],
           \A r \in said' : r.n # 0 => r \in ever,
           got' \in [n : 0 .. MaxNum, g : 0 .. MaxArticles, moves : BOOLEAN],
           got' # Nothing => got'.g # 0,
           got'.n # 0 => [b |-> bid', n |-> got'.n, g |-> got'.g] \in ever,
           got'.moves => got'.n # 0,
           bid' \in Boards \cup {NoBoard}, bpid' \in 0 .. MaxNum, gpid' \in 0 .. MaxArticles,
           first' \in 0 .. MaxNum, shown' \subseteq 0 .. MaxNum,
           bpid' # 0 => [b |-> bid', n |-> bpid', g |-> gpid'] \in ever,
           bpid' # 0 => first' \in 1 .. bpid',
           bpid' # 0 => \A r \in rows : r.b = bid' /\ r.n \in first' .. bpid' => r.n \in shown'
    PROVE  PointerInv'
<1> USE DEF PointerInv, db
<1>1. TypeOK'
  BY DEF TypeOK
<1>2. Numbered'
  BY DEF Numbered
<1>3. Pointed'
  BY DEF Pointed
<1>4. Walked'
  BY DEF Walked, WalkComplete, InBoard
<1> QED
  BY <1>1, <1>2, <1>3, <1>4

\* A true answer about rows that are there.
True(S) ==
    /\ S \subseteq [b : Boards \cup {NoBoard}, n : 0 .. MaxNum, g : 1 .. MaxArticles]
    /\ \A r \in S : r.n # 0 => r \in ever

\* An answer that leaves the pointer alone.
LEMMA AnswerInv ==
    ASSUME PointerInv, UNCHANGED <<db, pointer, got>>, True(said')
    PROVE  PointerInv'
<1>1. bpid # 0 => \A r \in rows : r.b = bid /\ r.n \in first .. bpid => r.n \in shown
  BY DEF PointerInv, Walked, WalkComplete, InBoard
<1> QED
  BY <1>1, ReaderInv DEF PointerInv, TypeOK, Pointed, Walked, True, db, pointer

\* Rows of the table are true answers.
LEMMA RowsAreTrue ==
    ASSUME PointerInv, NEW S \in SUBSET rows
    PROVE  True(S)
<1>1. Row \subseteq [b : Boards \cup {NoBoard}, n : 0 .. MaxNum, g : 1 .. MaxArticles]
  BY PointerAssumption DEF Row
<1> QED
  BY <1>1 DEF PointerInv, TypeOK, Numbered, True

\* An article looked up by its id: a row of the selected group, or no number.
LEMMA InGroupIsTrue ==
    ASSUME PointerInv, NEW g \in 1 .. MaxArticles
    PROVE  /\ InGroup(g).g = g
           /\ InGroup(g).n \in 0 .. MaxNum
           /\ InGroup(g).n # 0 => InGroup(g) = [b |-> bid, n |-> InGroup(g).n, g |-> g]
           /\ True({InGroup(g)})
<1>1. CASE \E r \in Posts(g) : r.b = bid
  <2>1. InGroup(g) \in Posts(g) /\ InGroup(g).b = bid
    BY <1>1 DEF InGroup
  <2>2. InGroup(g) \in rows /\ InGroup(g).g = g
    BY <2>1 DEF Posts
  <2>3. InGroup(g) \in Row
    BY <2>2 DEF PointerInv, TypeOK
  <2>4. InGroup(g) = [b |-> bid, n |-> InGroup(g).n, g |-> g]
    BY <2>1, <2>2, <2>3 DEF Row
  <2> QED
    BY <2>2, <2>3, <2>4, RowsAreTrue, PointerAssumption DEF Row
<1>2. CASE ~\E r \in Posts(g) : r.b = bid
  <2>1. InGroup(g) = [b |-> bid, n |-> 0, g |-> g]
    BY <1>2 DEF InGroup
  <2> QED
    BY <2>1, PointerAssumption DEF True, PointerInv, TypeOK
<1> QED
  BY <1>1, <1>2

\* So is the current article, deleted or not.
LEMMA CurrentIsTrue ==
    ASSUME PointerInv
    PROVE  True(Current)
<1>1. CASE Current = {}
  BY <1>1 DEF True
<1>2. CASE Current # {}
  <2>1. Current = {[b |-> bid, n |-> bpid, g |-> gpid]} /\ Posts(gpid) # {}
    BY <1>2 DEF Current
  <2>2. gpid \in 1 .. MaxArticles
    BY <2>1 DEF Posts, PointerInv, TypeOK, Row
  <2> QED
    BY <2>1, <2>2 DEF True, PointerInv, TypeOK, Pointed
<1> QED
  BY <1>1, <1>2

\* OVER adds rows of other groups.
LEMMA OverIsTrue ==
    ASSUME PointerInv, NEW S, True(S)
    PROVE  True(S \cup UNION {Posts(r.g) : r \in S})
<1>1. UNION {Posts(r.g) : r \in S} \subseteq rows
  BY DEF Posts
<1> QED
  BY <1>1, RowsAreTrue DEF True

\* GROUP and LISTGROUP put the pointer at the first article.
LEMMA EnterInv ==
    ASSUME PointerInv, UNCHANGED <<db, got>>, Ready, True(said'),
           NEW b \in Boards, NEW r \in Entry(b), Enter(b, r)
    PROVE  PointerInv'
<1> USE PointerAssumption DEF Enter
<1>1. CASE InBoard(b) = {}
  <2>1. r.n = 0 /\ r.g = 0
    BY <1>1 DEF Entry
  <2> QED
    BY <2>1, ReaderInv DEF PointerInv, TypeOK, Ready, Nothing, True
<1>2. CASE InBoard(b) # {}
  <2>1. r \in rows /\ r.b = b
    BY <1>2 DEF Entry, Lowest, InBoard
  <2>2. r \in Row /\ r \in ever
    BY <2>1 DEF PointerInv, TypeOK, Numbered
  <2>3. r = [b |-> b, n |-> r.n, g |-> r.g] /\ r.n \in 1 .. MaxNum /\ r.g \in 1 .. MaxArticles
    BY <2>1, <2>2 DEF Row
  <2>4. \A q \in rows : q.n \in r.n .. r.n => q.n \in {r.n}
    BY <2>3
  <2> QED
    BY <2>2, <2>3, <2>4, ReaderInv DEF PointerInv, TypeOK, Ready, Nothing, True
<1> QED
  BY <1>1, <1>2

\* NEXT and LAST: the row is the nearest, so none lies between.
LEMMA StepInv ==
    ASSUME PointerInv, UNCHANGED db, Ready, bpid # 0,
           NEW r \in rows, r.b = bid, StepPointer(r),
           \/ r.n > bpid /\ \A q \in InBoard(bid) : q.n > bpid => r.n <= q.n
           \/ r.n < bpid
    PROVE  PointerInv'
<1> USE PointerAssumption DEF StepPointer
<1>1. r \in Row /\ r \in ever
  BY DEF PointerInv, TypeOK, Numbered
<1>2. r = [b |-> bid, n |-> r.n, g |-> r.g] /\ r.n \in 1 .. MaxNum /\ r.g \in 1 .. MaxArticles
  BY <1>1 DEF Row
<1>3. True(said')
  BY RowsAreTrue DEF Says
<1>4. bpid \in 1 .. MaxNum /\ first \in 1 .. bpid
  BY DEF PointerInv, TypeOK, Walked
<1>5. first' \in 1 .. r.n /\ first' \in 0 .. MaxNum
  BY <1>2, <1>4
<1>6. ASSUME NEW q \in rows, q.b = bid, q.n \in first' .. r.n PROVE q.n \in shown \cup {r.n}
  <2>1. q \in InBoard(bid) /\ q.n \in Nat
    BY <1>6 DEF InBoard, PointerInv, TypeOK, Row
  <2>2. q.n \in first .. bpid => q.n \in shown
    BY <2>1, <1>4 DEF PointerInv, Walked, WalkComplete
  <2> QED
    BY <1>2, <1>4, <1>5, <1>6, <2>1, <2>2
<1> QED
  BY <1>1, <1>2, <1>3, <1>5, <1>6, ReaderInv DEF PointerInv, TypeOK, Ready, Nothing, True

\* An article is looked up; it is in the selected group or has no number.
LEMMA FetchInv ==
    ASSUME PointerInv, UNCHANGED db, NEW r, NEW moves \in BOOLEAN, Fetch(r, moves),
           r.n \in 0 .. MaxNum, r.g \in 1 .. MaxArticles,
           r.n # 0 => [b |-> bid, n |-> r.n, g |-> r.g] \in ever,
           moves => r.n # 0
    PROVE  PointerInv'
<1> USE PointerAssumption DEF Fetch
<1>1. got' \in [n : 0 .. MaxNum, g : 0 .. MaxArticles, moves : BOOLEAN] /\ got'.g # 0
  OBVIOUS
<1>2. bpid # 0 => \A q \in rows : q.b = bid /\ q.n \in first .. bpid => q.n \in shown
  BY DEF PointerInv, Walked, WalkComplete, InBoard
<1> QED
  BY <1>1, <1>2, ReaderInv DEF PointerInv, TypeOK, Pointed, Walked, pointer

\* It is copied, and the pointer may go there, whether it is still in the group
\* or not.
LEMMA CopiedInv ==
    ASSUME PointerInv, Copied
    PROVE  PointerInv'
<1> USE PointerAssumption DEF Copied
<1>1. got.n \in 0 .. MaxNum /\ got.g \in 1 .. MaxArticles
  BY DEF PointerInv, TypeOK, Pointed, Ready
<1>2. True(said')
  BY <1>1 DEF Says, True, PointerInv, TypeOK, Pointed
<1>3. CASE got.moves
  <2>1. /\ bid' = bid /\ bpid' = got.n /\ gpid' = got.g
        /\ first' = got.n /\ shown' = {got.n}
    BY <1>3 DEF Enter
  <2>2. got.n # 0 /\ [b |-> bid, n |-> got.n, g |-> got.g] \in ever
    BY <1>3 DEF PointerInv, Pointed
  <2>3. \A q \in rows : q.n \in got.n .. got.n => q.n \in {got.n}
    BY <1>1 DEF PointerInv, TypeOK, Row
  <2> QED
    BY <1>1, <1>2, <2>1, <2>2, <2>3, ReaderInv DEF PointerInv, TypeOK, Nothing, True
<1>4. CASE ~got.moves
  <2>1. bpid # 0 => \A q \in rows : q.b = bid /\ q.n \in first .. bpid => q.n \in shown
    BY DEF PointerInv, Walked, WalkComplete, InBoard
  <2>2. UNCHANGED <<bid, bpid, gpid, first, shown>>
    BY <1>4 DEF pointer
  <2>3. /\ got' \in [n : 0 .. MaxNum, g : 0 .. MaxArticles, moves : BOOLEAN]
        /\ got' = Nothing /\ got'.n = 0 /\ got'.moves = FALSE
    BY DEF Nothing
  <2>4. bpid # 0 => [b |-> bid, n |-> bpid, g |-> gpid] \in ever /\ first \in 1 .. bpid
    BY DEF PointerInv, Pointed, Walked
  <2> QED
    BY <1>2, <2>1, <2>2, <2>3, <2>4, ReaderInv DEF PointerInv, TypeOK, True
<1> QED
  BY <1>3, <1>4

LEMMA NotCopiedInv ==
    ASSUME PointerInv, NotCopied
    PROVE  PointerInv'
<1>1. bpid # 0 => \A q \in rows : q.b = bid /\ q.n \in first .. bpid => q.n \in shown
  BY DEF PointerInv, Walked, WalkComplete, InBoard
<1> QED
  BY <1>1, ReaderInv, PointerAssumption
  DEF NotCopied, Says, PointerInv, TypeOK, Pointed, Walked, Nothing, pointer

-----------------------------------------------------------------------------
(***************************************************************************)
(* The theorems.                                                           *)
(***************************************************************************)

LEMMA DatabaseInv == PointerInv /\ Database => PointerInv'
<1> SUFFICES ASSUME PointerInv, Database PROVE PointerInv'
  OBVIOUS
<1>1. ASSUME NEW T \in SUBSET Boards \ {{}}, Insert(T) PROVE PointerInv'
  BY <1>1, InsertInv
<1>2. ASSUME NEW g \in 1 .. MaxArticles, Commit(g) PROVE PointerInv'
  BY <1>2, CommitInv
<1>3. ASSUME NEW g \in 1 .. MaxArticles, Rollback(g) PROVE PointerInv'
  BY <1>3, RollbackInv
<1>4. ASSUME NEW g \in 1 .. MaxArticles, Delete(Posts(g)) PROVE PointerInv'
  BY <1>4, DeleteInv DEF Posts
<1>5. ASSUME NEW r \in rows, Delete({r}) PROVE PointerInv'
  BY <1>5, DeleteInv
<1> QED
  BY <1>1, <1>2, <1>3, <1>4, <1>5 DEF Database

LEMMA SelectingInv == PointerInv /\ Selecting => PointerInv'
<1> SUFFICES ASSUME PointerInv, Selecting PROVE PointerInv'
  OBVIOUS
<1>1. ASSUME Refused, UNCHANGED db PROVE PointerInv'
  BY <1>1, AnswerInv DEF Refused, Says, True
<1>2. ASSUME NEW b \in Boards PROVE Ends(InBoard(b)) \subseteq rows
  BY DEF Ends, Lowest, Highest, InBoard
<1>3. ASSUME SelectGroup PROVE PointerInv'
  <2>1. ASSUME NEW b \in Boards, NEW r \in Entry(b), Enter(b, r), Says(Ends(InBoard(b))), UNCHANGED got
        PROVE  PointerInv'
    BY <1>2, <1>3, <2>1, RowsAreTrue, EnterInv DEF SelectGroup, Says
  <2> QED
    BY <1>1, <1>3, <2>1 DEF SelectGroup
<1>4. ASSUME SelectAndListGroup PROVE PointerInv'
  <2>1. ASSUME NEW b \in Boards, NEW r \in Entry(b), NEW range \in Ranges, Enter(b, r),
               Says(Ends(InBoard(b)) \cup InRange(b, range)), UNCHANGED got
        PROVE  PointerInv'
    <3>1. Ends(InBoard(b)) \cup InRange(b, range) \subseteq rows
      BY <1>2 DEF InRange, InBoard
    <3> QED
      BY <1>4, <2>1, <3>1, RowsAreTrue, EnterInv DEF SelectAndListGroup, Says
  <2> QED
    BY <1>1, <1>4, <2>1 DEF SelectAndListGroup
<1>5. ASSUME SelectNextArticle PROVE PointerInv'
  <2>1. ASSUME bpid # 0, NEW r \in Lowest(After), StepPointer(r) PROVE PointerInv'
    BY <1>5, <2>1, StepInv DEF SelectNextArticle, Lowest, After, InBoard
  <2> QED
    BY <1>1, <1>5, <2>1 DEF SelectNextArticle
<1>6. ASSUME SelectPrevArticle PROVE PointerInv'
  <2>1. ASSUME bpid # 0, NEW r \in Highest(Before), StepPointer(r) PROVE PointerInv'
    BY <1>6, <2>1, StepInv DEF SelectPrevArticle, Highest, Before, InBoard
  <2> QED
    BY <1>1, <1>6, <2>1 DEF SelectPrevArticle
<1> QED
  BY <1>3, <1>4, <1>5, <1>6 DEF Selecting

LEMMA FetchingInv == PointerInv /\ Fetching => PointerInv'
<1> SUFFICES ASSUME PointerInv, Fetching PROVE PointerInv'
  OBVIOUS
<1>1. ASSUME Refused, UNCHANGED db PROVE PointerInv'
  BY <1>1, AnswerInv DEF Refused, Says, True
<1>2. ASSUME NEW g \in 1 .. MaxArticles, ObtainByMsgID(g) PROVE PointerInv'
  <2>1. /\ InGroup(g).n \in 0 .. MaxNum
        /\ InGroup(g).g \in 1 .. MaxArticles
        /\ InGroup(g).n # 0 => [b |-> bid, n |-> InGroup(g).n, g |-> InGroup(g).g] \in ever
    BY InGroupIsTrue DEF True
  <2>2. CASE Fetch(InGroup(g), FALSE)
    BY <1>2, <2>1, <2>2, FetchInv DEF ObtainByMsgID
  <2> QED
    BY <1>1, <1>2, <2>2 DEF ObtainByMsgID
<1>3. ASSUME NEW n \in 0 .. MaxNum, NEW r \in ByNumber(bid, n)
      PROVE  /\ r.n \in 1 .. MaxNum /\ r.g \in 1 .. MaxArticles
             /\ [b |-> bid, n |-> r.n, g |-> r.g] \in ever
  <2>1. r \in rows /\ r.b = bid
    BY DEF ByNumber, InBoard
  <2> QED
    BY <2>1 DEF PointerInv, TypeOK, Numbered, Row
<1>4. ASSUME NEW n \in 1 .. MaxNum, ObtainByNum(n) PROVE PointerInv'
  <2>1. ASSUME NEW r \in ByNumber(bid, n), Fetch(r, TRUE) PROVE PointerInv'
    <3>1. /\ r.n \in 0 .. MaxNum /\ r.n # 0 /\ r.g \in 1 .. MaxArticles
          /\ [b |-> bid, n |-> r.n, g |-> r.g] \in ever
      BY <1>3, <2>1, PointerAssumption
    <3>2. UNCHANGED db
      BY <1>4 DEF ObtainByNum
    <3> QED
      BY <2>1, <3>1, <3>2, FetchInv
  <2> QED
    BY <1>1, <1>4, <2>1 DEF ObtainByNum
<1>5. ASSUME ObtainByCurr PROVE PointerInv'
  <2>1. ASSUME NEW r \in ByNumber(bid, bpid), Fetch(r, FALSE) PROVE PointerInv'
    <3>1. bpid \in 0 .. MaxNum
      BY DEF PointerInv, TypeOK
    <3>2. /\ r.n \in 0 .. MaxNum /\ r.n # 0 /\ r.g \in 1 .. MaxArticles
          /\ [b |-> bid, n |-> r.n, g |-> r.g] \in ever
      BY <1>3, <2>1, <3>1, PointerAssumption
    <3>3. UNCHANGED db
      BY <1>5 DEF ObtainByCurr
    <3> QED
      BY <2>1, <3>2, <3>3, FetchInv
  <2> QED
    BY <1>1, <1>5, <2>1 DEF ObtainByCurr
<1> QED
  BY <1>2, <1>4, <1>5, CopiedInv, NotCopiedInv DEF Fetching

LEMMA DescribingInv == PointerInv /\ Describing => PointerInv'
<1> SUFFICES ASSUME PointerInv, Describing PROVE PointerInv'
  OBVIOUS
<1>1. ASSUME NEW g \in 1 .. MaxArticles
      PROVE  True(IF Posts(g) = {} THEN {} ELSE {InGroup(g)})
  BY InGroupIsTrue DEF True
<1>2. ASSUME NEW range \in Ranges
      PROVE  True(IF bid = NoBoard THEN {} ELSE InRange(bid, range))
  BY RowsAreTrue DEF InRange, InBoard
<1>3. ASSUME NEW g \in 1 .. MaxArticles, GetOverByMsgID(g) PROVE PointerInv'
  BY <1>1, <1>3, OverIsTrue, AnswerInv DEF GetOverByMsgID, Over, Says
<1>4. ASSUME NEW range \in Ranges, GetOverByRange(range) PROVE PointerInv'
  BY <1>2, <1>4, OverIsTrue, AnswerInv DEF GetOverByRange, Over, Says
<1>5. ASSUME GetOverByCurr PROVE PointerInv'
  BY <1>5, CurrentIsTrue, OverIsTrue, AnswerInv DEF GetOverByCurr, Over, Says
<1>6. ASSUME NEW g \in 1 .. MaxArticles, GetHdrByMsgID(g) PROVE PointerInv'
  BY <1>1, <1>6, AnswerInv DEF GetHdrByMsgID, Says
<1>7. ASSUME NEW range \in Ranges, GetHdrByRange(range) PROVE PointerInv'
  BY <1>2, <1>7, AnswerInv DEF GetHdrByRange, Says
<1>8. ASSUME GetHdrByCurr PROVE PointerInv'
  BY <1>8, CurrentIsTrue, AnswerInv DEF GetHdrByCurr, Says
<1> QED
  BY <1>3, <1>4, <1>5, <1>6, <1>7, <1>8 DEF Describing

LEMMA ListingInv == PointerInv /\ Listing => PointerInv'
<1> SUFFICES ASSUME PointerInv, NEW T \in SUBSET Boards,
                    \/ \E g \in 1 .. MaxArticles : ListNewNews(T, g)
                    \/ ListNewGroups(T) \/ ListActiveGroups(T)
             PROVE  PointerInv'
  BY DEF Listing
<1>1. True(UNION {Ends(InBoard(b)) : b \in T})
  BY RowsAreTrue DEF Ends, Lowest, Highest, InBoard
<1>2. ASSUME NEW g \in 1 .. MaxArticles, ListNewNews(T, g) PROVE PointerInv'
  <2>1. ASSUME NEW r \in rows
        PROVE  /\ [b |-> r.b, n |-> 0, g |-> r.g] \in
                      [b : Boards \cup {NoBoard}, n : 0 .. MaxNum, g : 1 .. MaxArticles]
    BY PointerAssumption DEF PointerInv, TypeOK, Row
  <2>2. True(said')
    BY <1>2, <2>1 DEF ListNewNews, Says, True
  <2> QED
    BY <1>2, <2>2, AnswerInv DEF ListNewNews
<1>3. ASSUME ListNewGroups(T) PROVE PointerInv'
  BY <1>1, <1>3, AnswerInv DEF ListNewGroups, Says
<1>4. ASSUME ListActiveGroups(T) PROVE PointerInv'
  BY <1>1, <1>4, AnswerInv DEF ListActiveGroups, Says
<1> QED
  BY <1>2, <1>3, <1>4

LEMMA StutterInv == PointerInv /\ UNCHANGED vars => PointerInv'
BY DEF vars, db, pointer, PointerInv, TypeOK, Numbered, Pointed, Walked, WalkComplete, InBoard

\* PointerInv is an invariant of the specification.
THEOREM PointerInvariant == Spec => []PointerInv
<1>1. Init => PointerInv
  BY InitInv
<1>2. PointerInv /\ [Next]_vars => PointerInv'
  BY DatabaseInv, SelectingInv, FetchingInv, DescribingInv, ListingInv, StutterInv DEF Next, Reader
<1> QED
  BY <1>1, <1>2, PTL DEF Spec

\* A number means one article of a group for ever: for any number of boards and
\* articles, whatever order they are committed and deleted in.
THEOREM NumbersStayTrue == Spec => []NumbersTrue
<1>1. PointerInv => NumbersTrue
  BY DEF PointerInv, Numbered, Pointed, NumbersTrue
<1> QED
  BY <1>1, PointerInvariant, PTL

\* A walk with NEXT and LAST passes over no article of the group.
THEOREM NothingMissedOnAWalk == Spec => []WalkComplete
<1>1. PointerInv => WalkComplete
  BY DEF PointerInv, Walked
<1> QED
  BY <1>1, PointerInvariant, PTL


\* A set of numbers that is not empty has a least one.
LEMMA HasLeast ==
    ASSUME NEW S, S \subseteq Nat, S # {}
    PROVE  \E x \in S : \A y \in S : x <= y
<1>1. IsWellFoundedOn(OpToRel(<, Nat), Nat)
  BY NatLessThanWellFounded
<1>2. PICK x \in S : \A y \in S : <<y, x>> \notin OpToRel(<, Nat)
  BY <1>1, WFMin
<1>3. \A y \in S : ~(y < x)
  BY <1>2 DEF OpToRel
<1>4. QED
  BY <1>3

\* A set with 0 and with the successor of each of its numbers has all numbers.
LEMMA Induct ==
    ASSUME NEW S, 0 \in S, \A n \in Nat : n \in S => n + 1 \in S
    PROVE  Nat \subseteq S
<1> DEFINE Out == {n \in Nat : n \notin S}
<1>1. SUFFICES ASSUME Out # {} PROVE FALSE
  OBVIOUS
<1>2. PICK x \in Out : \A y \in Out : x <= y
  BY <1>1, HasLeast
<1>3. x # 0 /\ x - 1 \in Nat /\ x - 1 \notin Out /\ (x - 1) + 1 = x
  BY <1>2
<1>4. QED
  BY <1>3

\* From each value in V, op makes the next.
StepIn(V, op) == \A i \in Nat, v \in V : op[<<i, v>>] \in V

\* g begins with v0, and each value is what op makes of the last.
Run(V, v0, op, g) ==
    g \in [Nat -> V] /\ g[0] = v0 /\ \A i \in Nat : g[i + 1] = op[<<i, g[i]>>]

\* A function on the numbers may be given by its first value and by the step
\* from each value to the next.
LEMMA Recursion ==
    ASSUME NEW V, NEW v0 \in V, NEW op, StepIn(V, op)
    PROVE  \E g : Run(V, v0, op, g)
<1> USE DEF StepIn
<1> DEFINE A(n) == {h \in [0 .. n -> V] : h[0] = v0 /\ \A i \in 0 .. n - 1 : h[i + 1] = op[<<i, h[i]>>]}
<1>1. Nat \subseteq {n \in Nat : A(n) # {}}
  <2>1. [i \in 0 .. 0 |-> v0] \in A(0)
    OBVIOUS
  <2>2. ASSUME NEW n \in Nat, A(n) # {} PROVE A(n + 1) # {}
    <3>1. PICK h \in A(n) : TRUE
      BY <2>2
    <3>2. h[n] \in V /\ op[<<n, h[n]>>] \in V
      BY <3>1
    <3> DEFINE k == [i \in 0 .. n + 1 |-> IF i = n + 1 THEN op[<<n, h[n]>>] ELSE h[i]]
    <3>3. k \in [0 .. n + 1 -> V] /\ k[0] = v0
      BY <3>1, <3>2
    <3>4. \A i \in 0 .. (n + 1) - 1 : k[i + 1] = op[<<i, k[i]>>]
      <4>1. TAKE i \in 0 .. (n + 1) - 1
      <4>2. CASE i = n
        <5>1. k[n + 1] = op[<<n, h[n]>>] /\ k[n] = h[n]
          OBVIOUS
        <5> HIDE DEF k
        <5>2. QED
          BY <4>2, <5>1
      <4>3. CASE i # n
        <5>1. h[i + 1] = op[<<i, h[i]>>] /\ k[i + 1] = h[i + 1] /\ k[i] = h[i]
          BY <3>1, <4>3
        <5> HIDE DEF k
        <5>2. QED
          BY <5>1
      <4>4. QED
        BY <4>2, <4>3
    <3>5. QED
      BY <3>3, <3>4
  <2>3. QED
    <3> HIDE DEF A
    <3> DEFINE S == {n \in Nat : A(n) # {}}
    <3>1. 0 \in S /\ \A n \in Nat : n \in S => n + 1 \in S
      BY <2>1, <2>2
    <3> HIDE DEF S
    <3>2. Nat \subseteq S
      BY <3>1, Induct
    <3>3. QED
      BY <3>2 DEF S
<1>2. ASSUME NEW n \in Nat, NEW m \in Nat, NEW h \in A(n), NEW k \in A(m)
      PROVE  \A i \in Nat : i <= n /\ i <= m => h[i] = k[i]
  <2> DEFINE S == {i \in Nat : i <= n /\ i <= m => h[i] = k[i]}
  <2>1. 0 \in S
    OBVIOUS
  <2>2. ASSUME NEW i \in Nat, i \in S PROVE i + 1 \in S
    <3>1. SUFFICES ASSUME i + 1 <= n, i + 1 <= m PROVE h[i + 1] = k[i + 1]
      OBVIOUS
    <3>2. h[i] = k[i] /\ i \in 0 .. n - 1 /\ i \in 0 .. m - 1
      BY <2>2, <3>1
    <3>3. h[i + 1] = op[<<i, h[i]>>] /\ k[i + 1] = op[<<i, k[i]>>]
      BY <3>2
    <3>4. QED
      BY <3>2, <3>3
  <2>3. Nat \subseteq S
    <3> HIDE DEF S
    <3> QED
      BY <2>1, <2>2, Induct
  <2>4. QED
    BY <2>3
<1> DEFINE of(n) == CHOOSE h \in A(n) : TRUE
<1> DEFINE g == [n \in Nat |-> of(n)[n]]
<1>3. \A n \in Nat : of(n) \in A(n)
  <2> HIDE DEF A
  <2> QED
    BY <1>1
<1>4. g \in [Nat -> V] /\ g[0] = v0
  <2>1. ASSUME NEW n \in Nat PROVE of(n)[n] \in V
    <3> HIDE DEF of
    <3> QED
      BY <1>3
  <2>2. of(0)[0] = v0
    <3> HIDE DEF of
    <3> QED
      BY <1>3
  <2> HIDE DEF of
  <2>3. QED
    BY <2>1, <2>2
<1>5. ASSUME NEW i \in Nat PROVE g[i + 1] = op[<<i, g[i]>>]
  <2>1. of(i + 1) \in A(i + 1) /\ of(i) \in A(i)
    <3> HIDE DEF of, A
    <3> QED
      BY <1>3
  <2> HIDE DEF of
  <2>2. of(i + 1)[i + 1] = op[<<i, of(i + 1)[i]>>]
    BY <2>1
  <2>3. of(i + 1)[i] = of(i)[i]
    <3> HIDE DEF A
    <3> QED
      BY <1>2, <2>1
  <2>4. QED
    BY <2>2, <2>3
<1>6. QED
  <2> HIDE DEF g
  <2> QED
    BY <1>4, <1>5 DEF Run

\* The same as StepIn and Run for the numbers up to L.
StepTo(L, V, op) == \A i \in 0 .. L - 1, v \in V : op[<<i, v>>] \in V

RunTo(L, V, v0, op, g) ==
    g \in [0 .. L -> V] /\ g[0] = v0 /\ \A i \in 0 .. L - 1 : g[i + 1] = op[<<i, g[i]>>]

\* Over the numbers up to L, too, a function may be given by its steps.
LEMMA RecursionTo ==
    ASSUME NEW V, NEW v0 \in V, NEW op, NEW L \in Nat, StepTo(L, V, op)
    PROVE  \E g : RunTo(L, V, v0, op, g)
<1> USE DEF StepTo, RunTo
<1> DEFINE on == [x \in Nat \X V |-> IF x[1] < L THEN op[<<x[1], x[2]>>] ELSE x[2]]
<1>1. \A i \in Nat, v \in V : on[<<i, v>>] = IF i < L THEN op[<<i, v>>] ELSE v
  OBVIOUS
<1> HIDE DEF on
<1>2. StepIn(V, on)
  <2>1. ASSUME NEW i \in Nat, NEW v \in V PROVE on[<<i, v>>] \in V
    <3>1. i < L => i \in 0 .. L - 1
      OBVIOUS
    <3>2. QED
      BY <1>1, <3>1
  <2>2. QED
    BY <2>1 DEF StepIn
<1>3. PICK h : Run(V, v0, on, h)
  BY <1>2, Recursion
<1>4. h \in [Nat -> V] /\ h[0] = v0 /\ \A i \in Nat : h[i + 1] = on[<<i, h[i]>>]
  BY <1>3 DEF Run
<1> DEFINE g == [n \in 0 .. L |-> h[n]]
<1>5. g \in [0 .. L -> V] /\ g[0] = v0
  BY <1>4
<1>6. ASSUME NEW i \in 0 .. L - 1 PROVE g[i + 1] = op[<<i, g[i]>>]
  <2>1. i \in Nat /\ i < L /\ i \in 0 .. L /\ i + 1 \in 0 .. L
    OBVIOUS
  <2>2. g[i + 1] = h[i + 1] /\ g[i] = h[i]
    BY <2>1
  <2>3. h[i + 1] = on[<<i, h[i]>>] /\ h[i] \in V
    BY <1>4, <2>1
  <2>4. on[<<i, h[i]>>] = op[<<i, h[i]>>]
    BY <1>1, <2>1, <2>3
  <2> HIDE DEF g
  <2>5. QED
    BY <2>2, <2>3, <2>4
<1>7. QED
  <2> HIDE DEF g
  <2> QED
    BY <1>5, <1>6

\* A set with the empty sequence and with each longer one, if it has the one
\* without the last element, has all sequences.
LEMMA SeqInduct ==
    ASSUME NEW A, NEW P, <<>> \in P, \A s \in Seq(A), x \in A : s \in P => Append(s, x) \in P
    PROVE  Seq(A) \subseteq P
<1> DEFINE S == {n \in Nat : \A s \in Seq(A) : Len(s) = n => s \in P}
<1>1. 0 \in S
  <2>1. \A s \in Seq(A) : Len(s) = 0 => s = <<>>
    OBVIOUS
  <2> QED
    BY <2>1
<1>2. ASSUME NEW n \in Nat, n \in S PROVE n + 1 \in S
  <2>1. SUFFICES ASSUME NEW s \in Seq(A), Len(s) = n + 1 PROVE s \in P
    OBVIOUS
  <2> DEFINE t == SubSeq(s, 1, n)
  <2>2. t \in Seq(A) /\ Len(t) = n /\ s[n + 1] \in A /\ s = Append(t, s[n + 1])
    BY <2>1
  <2>3. t \in P
    BY <1>2, <2>2
  <2> HIDE DEF t
  <2> QED
    BY <2>2, <2>3
<1>3. Nat \subseteq S
  <2> HIDE DEF S
  <2> QED
    BY <1>1, <1>2, Induct
<1>4. ASSUME NEW s \in Seq(A) PROVE s \in P
  <2>1. Len(s) \in S
    BY <1>3
  <2> QED
    BY <2>1
<1> QED
  BY <1>4

\* FlattenSeq puts one piece behind the other.
LEMMA FlattenUp ==
    ASSUME NEW A, NEW p \in Seq(Seq(A)), p # <<>>
    PROVE  \E f \in [1 .. Len(p) -> Seq(A)] :
               /\ FlattenSeq(p) = f[Len(p)] /\ f[1] = p[1]
               /\ \A i \in 1 .. Len(p) - 1 : f[i + 1] = f[i] \o p[i + 1]
<1> DEFINE L == Len(p)
           flatten[i \in 1 .. Len(p)] == IF i = 1 THEN p[i] ELSE flatten[i - 1] \o p[i]
           F(f) == [i \in 1 .. L |-> IF i = 1 THEN p[i] ELSE f[i - 1] \o p[i]]
           V == Seq(A)
           op == [x \in Nat \X V |-> x[2] \o p[x[1] + 2]]
<1>1. L \in Nat /\ L >= 1 /\ L - 1 \in Nat
  OBVIOUS
<1>2. \A i \in 1 .. L : p[i] \in V
  OBVIOUS
<1>3. p[1] \in V
  BY <1>1, <1>2
<1>4. \A i \in Nat, v \in V : op[<<i, v>>] = v \o p[i + 2]
  OBVIOUS
<1>5. \A v \in V, w \in V : v \o w \in V
  OBVIOUS
<1> HIDE DEF V, op, L
<1>6. StepTo(L - 1, V, op)
  <2>1. ASSUME NEW i \in 0 .. (L - 1) - 1, NEW v \in V PROVE op[<<i, v>>] \in V
    <3>1. i \in Nat /\ i + 2 \in 1 .. L
      BY <1>1
    <3> QED
      BY <1>2, <1>4, <1>5, <3>1
  <2> QED
    BY <2>1 DEF StepTo
<1>7. PICK g : RunTo(L - 1, V, p[1], op, g)
  BY <1>1, <1>3, <1>6, RecursionTo
<1>8. g \in [0 .. L - 1 -> V] /\ g[0] = p[1] /\ \A i \in 0 .. (L - 1) - 1 : g[i + 1] = op[<<i, g[i]>>]
  BY <1>7 DEF RunTo
<1> DEFINE f == [i \in 1 .. L |-> g[i - 1]]
<1>9. f \in [1 .. L -> V] /\ f[1] = p[1]
  BY <1>1, <1>8
<1>10. \A i \in 1 .. L - 1 : f[i + 1] = f[i] \o p[i + 1]
  <2>1. TAKE i \in 1 .. L - 1
  <2>2. i - 1 \in 0 .. (L - 1) - 1 /\ (i - 1) + 1 = i /\ (i - 1) + 2 = i + 1 /\ i - 1 \in Nat
        /\ i \in 1 .. L /\ i + 1 \in 1 .. L /\ (i + 1) - 1 = i /\ i - 1 \in 0 .. L - 1
    BY <1>1
  <2>3. g[i] = op[<<i - 1, g[i - 1]>>] /\ g[i - 1] \in V
    BY <1>8, <2>2
  <2>4. op[<<i - 1, g[i - 1]>>] = g[i - 1] \o p[i + 1]
    BY <1>4, <2>2, <2>3
  <2>5. f[i + 1] = g[i] /\ f[i] = g[i - 1]
    BY <2>2
  <2> HIDE DEF f
  <2> QED
    BY <2>3, <2>4, <2>5
<1>11. f = F(f)
  <2>1. ASSUME NEW i \in 1 .. L PROVE f[i] = IF i = 1 THEN p[i] ELSE f[i - 1] \o p[i]
    <3>1. CASE i = 1
      BY <1>9, <3>1
    <3>2. CASE i # 1
      <4>1. i - 1 \in 1 .. L - 1 /\ (i - 1) + 1 = i
        BY <1>1, <3>2
      <4> HIDE DEF f
      <4> QED
        BY <1>10, <3>2, <4>1
    <3> QED
      BY <3>1, <3>2
  <2>2. f = [i \in 1 .. L |-> f[i]]
    BY <1>9
  <2> HIDE DEF f
  <2> QED
    BY <2>1, <2>2
<1>12. flatten = F(flatten)
  <2>1. flatten = CHOOSE k : k = F(k)
    BY DEF L
  <2> HIDE DEF F, flatten, f
  <2> QED
    BY <1>11, <2>1
<1>13. FlattenSeq(p) = flatten[L]
  <2>1. Len(p) # 0
    BY <1>1 DEF L
  <2> QED
    BY <2>1 DEF FlattenSeq, L
<1>14. ASSUME NEW k, k = F(k)
       PROVE  k[1] = p[1] /\ \A i \in 1 .. L - 1 : k[i + 1] = k[i] \o p[i + 1]
  <2>1. \A n \in 1 .. L : k[n] = IF n = 1 THEN p[n] ELSE k[n - 1] \o p[n]
    BY <1>14
  <2>2. 1 \in 1 .. L /\ \A i \in 1 .. L - 1 : i + 1 \in 1 .. L /\ i + 1 # 1 /\ (i + 1) - 1 = i
    BY <1>1
  <2> HIDE DEF F
  <2> QED
    BY <2>1, <2>2
<1>15. ASSUME NEW k, k = F(k) PROVE k \in [1 .. L -> V]
  <2>1. k = [n \in 1 .. L |-> k[n]]
    BY <1>15
  <2> DEFINE S == {n \in Nat : n + 1 \in 1 .. L => k[n + 1] \in V}
  <2>2. k[1] = p[1] /\ \A i \in 1 .. L - 1 : k[i + 1] = k[i] \o p[i + 1]
    BY <1>14, <1>15
  <2> HIDE DEF F
  <2>3. 0 \in S
    BY <1>3, <2>2
  <2>4. ASSUME NEW n \in Nat, n \in S PROVE n + 1 \in S
    <3>1. SUFFICES ASSUME (n + 1) + 1 \in 1 .. L PROVE k[(n + 1) + 1] \in V
      OBVIOUS
    <3>2. n + 1 \in 1 .. L - 1 /\ n + 1 \in 1 .. L
      BY <1>1, <3>1
    <3>3. k[n + 1] \in V
      BY <2>4, <3>2
    <3> QED
      BY <1>2, <1>5, <2>2, <3>1, <3>2, <3>3
  <2>5. Nat \subseteq S
    <3> HIDE DEF S
    <3> QED
      BY <2>3, <2>4, Induct
  <2>6. \A n \in 1 .. L : k[n] \in V
    <3>1. TAKE n \in 1 .. L
    <3>2. n - 1 \in Nat /\ (n - 1) + 1 = n
      BY <1>1
    <3>3. n - 1 \in S
      <4> HIDE DEF S
      <4> QED
        BY <2>5, <3>2
    <3> QED
      BY <3>2, <3>3
  <2> HIDE DEF S
  <2> QED
    BY <2>1, <2>6
<1> QED
  <2>1. flatten \in [1 .. L -> V]
    <3> HIDE DEF F, flatten
    <3> QED
      BY <1>12, <1>15
  <2>2. flatten[1] = p[1] /\ \A i \in 1 .. L - 1 : flatten[i + 1] = flatten[i] \o p[i + 1]
    <3> HIDE DEF F, flatten
    <3> QED
      BY <1>12, <1>14
  <2> HIDE DEF flatten
  <2> QED
    BY <1>13, <2>1, <2>2 DEF L, V

\* What FlattenSeq makes of one piece more.
LEMMA FlattenIs ==
    ASSUME NEW A
    PROVE  /\ FlattenSeq(<<>>) = <<>>
           /\ \A p \in Seq(Seq(A)) : FlattenSeq(p) \in Seq(A)
           /\ \A p \in Seq(Seq(A)), x \in Seq(A) : FlattenSeq(Append(p, x)) = FlattenSeq(p) \o x
<1>1. FlattenSeq(<<>>) = <<>>
  BY DEF FlattenSeq
<1>2. ASSUME NEW p \in Seq(Seq(A)) PROVE FlattenSeq(p) \in Seq(A)
  <2>1. CASE p = <<>>
    <3>1. <<>> \in Seq(A)
      OBVIOUS
    <3> QED
      BY <1>1, <2>1, <3>1
  <2>2. CASE p # <<>>
    <3>1. PICK f \in [1 .. Len(p) -> Seq(A)] : FlattenSeq(p) = f[Len(p)]
      BY <2>2, FlattenUp
    <3>2. Len(p) \in 1 .. Len(p)
      BY <2>2
    <3> DEFINE B == Seq(A)
    <3>3. f \in [1 .. Len(p) -> B]
      BY <3>1
    <3> HIDE DEF B
    <3>4. f[Len(p)] \in B
      BY <3>2, <3>3
    <3> QED
      BY <3>1, <3>4 DEF B
  <2> QED
    BY <2>1, <2>2
<1>3. ASSUME NEW p \in Seq(Seq(A)), NEW x \in Seq(A)
      PROVE  FlattenSeq(Append(p, x)) = FlattenSeq(p) \o x
  <2> DEFINE q == Append(p, x)
             L == Len(p)
  <2>1. q \in Seq(Seq(A)) /\ q # <<>> /\ Len(q) = L + 1 /\ q[L + 1] = x /\ L \in Nat
        /\ \A i \in 1 .. L : q[i] = p[i]
    <3> DEFINE B == Seq(A)
    <3>1. p \in Seq(B) /\ x \in B
      OBVIOUS
    <3> HIDE DEF B
    <3>2. q \in Seq(B) /\ q # <<>> /\ Len(q) = L + 1 /\ q[L + 1] = x /\ L \in Nat
          /\ \A i \in 1 .. L : q[i] = p[i]
      BY <3>1
    <3> QED
      BY <3>2 DEF B
  <2>2. PICK f \in [1 .. Len(q) -> Seq(A)] :
               /\ FlattenSeq(q) = f[Len(q)] /\ f[1] = q[1]
               /\ \A i \in 1 .. Len(q) - 1 : f[i + 1] = f[i] \o q[i + 1]
    <3> HIDE DEF q
    <3> QED
      BY <2>1, FlattenUp
  <2>3. CASE p = <<>>
    <3>1. L = 0 /\ Len(q) = 1
      BY <2>1, <2>3
    <3>2. FlattenSeq(q) = x
      BY <2>1, <2>2, <3>1
    <3>3. <<>> \o x = x
      OBVIOUS
    <3> QED
      BY <1>1, <2>3, <3>2, <3>3
  <2>4. CASE p # <<>>
    <3>1. PICK h \in [1 .. L -> Seq(A)] :
               /\ FlattenSeq(p) = h[L] /\ h[1] = p[1]
               /\ \A i \in 1 .. L - 1 : h[i + 1] = h[i] \o p[i + 1]
      BY <2>4, FlattenUp
    <3>2. L >= 1
      BY <2>1, <2>4
    <3> DEFINE S == {n \in Nat : n + 1 <= L => f[n + 1] = h[n + 1]}
    <3> HIDE DEF q, L
    <3>3. 0 \in S
      BY <2>1, <2>2, <3>1, <3>2
    <3>4. ASSUME NEW n \in Nat, n \in S PROVE n + 1 \in S
      <4>1. SUFFICES ASSUME (n + 1) + 1 <= L PROVE f[(n + 1) + 1] = h[(n + 1) + 1]
        OBVIOUS
      <4>2. n + 1 \in 1 .. L - 1 /\ n + 1 \in 1 .. Len(q) - 1 /\ (n + 1) + 1 \in 1 .. L /\ n + 1 <= L
        BY <2>1, <4>1
      <4>3. f[n + 1] = h[n + 1] /\ q[(n + 1) + 1] = p[(n + 1) + 1]
        BY <2>1, <3>4, <4>2
      <4> QED
        BY <2>2, <3>1, <4>2, <4>3
    <3>5. Nat \subseteq S
      <4> HIDE DEF S
      <4> QED
        BY <3>3, <3>4, Induct
    <3>6. f[L] = h[L]
      <4>1. L - 1 \in Nat /\ (L - 1) + 1 = L
        BY <2>1, <3>2
      <4>2. L - 1 \in S
        <5> HIDE DEF S
        <5> QED
          BY <3>5, <4>1
      <4> QED
        BY <4>1, <4>2
    <3>7. L \in 1 .. Len(q) - 1 /\ L + 1 = Len(q)
      BY <2>1, <3>2
    <3>8. f[L + 1] = f[L] \o q[L + 1]
      BY <2>2, <3>7
    <3> QED
      BY <2>1, <2>2, <3>1, <3>6, <3>7, <3>8 DEF q
  <2> QED
    BY <2>3, <2>4
<1> QED
  BY <1>1, <1>2, <1>3

\* Pieces that are made of bytes one by one.
Pieces(m, s) == [i \in DOMAIN s |-> m[s[i]]]

LEMMA PiecesAppend ==
    ASSUME NEW A, NEW m \in [A -> Seq(A)], NEW s \in Seq(A), NEW x \in A
    PROVE  /\ Pieces(m, s) \in Seq(Seq(A))
           /\ Pieces(m, Append(s, x)) = Append(Pieces(m, s), m[x])
<1> DEFINE B == Seq(A)
           p == [i \in DOMAIN s |-> m[s[i]]]
           t == Append(s, x)
           q == [i \in DOMAIN t |-> m[t[i]]]
<1>1. /\ Len(s) \in Nat /\ DOMAIN s = 1 .. Len(s) /\ \A i \in 1 .. Len(s) : s[i] \in A
      /\ DOMAIN t = 1 .. Len(s) + 1 /\ t[Len(s) + 1] = x /\ \A i \in 1 .. Len(s) : t[i] = s[i]
  OBVIOUS
<1>2. m \in [A -> B] /\ m[x] \in B
  OBVIOUS
<1> HIDE DEF B, t
<1>3. p \in Seq(B) /\ Len(p) = Len(s)
  BY <1>1, <1>2
<1>4. q \in Seq(B) /\ Len(q) = Len(s) + 1 /\ \A i \in 1 .. Len(s) + 1 : q[i] = m[t[i]]
  <2>1. ASSUME NEW i \in 1 .. Len(s) + 1 PROVE t[i] \in A
    <3>1. i \in 1 .. Len(s) \/ i = Len(s) + 1
      BY <1>1
    <3> QED
      BY <1>1, <3>1
  <2> QED
    BY <1>1, <1>2, <2>1
<1>5. \A i \in 1 .. Len(s) : p[i] = m[s[i]]
  BY <1>1
<1> HIDE DEF p, q
<1>6. \A i \in 1 .. Len(s) + 1 : q[i] = Append(p, m[x])[i]
  BY <1>1, <1>2, <1>3, <1>4, <1>5
<1>7. q = Append(p, m[x])
  <2>1. Append(p, m[x]) \in Seq(B) /\ Len(Append(p, m[x])) = Len(s) + 1
    BY <1>1, <1>2, <1>3
  <2> QED
    BY <1>1, <1>4, <1>6, <2>1
<1> QED
  BY <1>3, <1>7 DEF p, q, t, B, Pieces

\* What the UnixTextReader leaves out, byte by byte.
LEMMA WithoutIs ==
    ASSUME NEW A
    PROVE  /\ WithoutCR(<<>>) = <<>>
           /\ \A s \in Seq(A) : WithoutCR(s) \in Seq(A)
           /\ \A s \in Seq(A), x \in A :
                 WithoutCR(Append(s, x)) = IF x = "CR" THEN WithoutCR(s) ELSE Append(WithoutCR(s), x)
<1> DEFINE m == [x \in A |-> IF x = "CR" THEN <<>> ELSE <<x>>]
           p(s) == Pieces(m, s)
<1>1. m \in [A -> Seq(A)]
  OBVIOUS
<1>2. ASSUME NEW s \in Seq(A) PROVE WithoutCR(s) = FlattenSeq(p(s))
  <2>1. \A i \in DOMAIN s : s[i] \in A
    OBVIOUS
  <2>2. \A i \in DOMAIN s : (IF s[i] = "CR" THEN <<>> ELSE <<s[i]>>) = m[s[i]]
    BY <2>1
  <2> HIDE DEF m
  <2> USE DEF Pieces
  <2>3. [i \in DOMAIN s |-> IF s[i] = "CR" THEN <<>> ELSE <<s[i]>>] = p(s)
    BY <2>2
  <2> HIDE DEF p
  <2> QED
    BY <2>3 DEF WithoutCR
<1>3. WithoutCR(<<>>) = <<>>
  <2>1. [i \in DOMAIN <<>> |-> IF <<>>[i] = "CR" THEN <<>> ELSE <<<<>>[i]>>] = <<>>
    OBVIOUS
  <2> QED
    BY <2>1, FlattenIs DEF WithoutCR
<1>4. ASSUME NEW s \in Seq(A), NEW x \in A
      PROVE  /\ WithoutCR(s) \in Seq(A)
             /\ WithoutCR(Append(s, x)) = IF x = "CR" THEN WithoutCR(s) ELSE Append(WithoutCR(s), x)
  <2>1. p(s) \in Seq(Seq(A)) /\ p(Append(s, x)) = Append(p(s), m[x])
    <3> HIDE DEF m
    <3> QED
      BY <1>1, PiecesAppend
  <2>2. m[x] = (IF x = "CR" THEN <<>> ELSE <<x>>) /\ m[x] \in Seq(A)
    BY <1>1
  <2> HIDE DEF m, p
  <2>3. FlattenSeq(p(s)) \in Seq(A) /\ FlattenSeq(p(Append(s, x))) = FlattenSeq(p(s)) \o m[x]
    BY <2>1, <2>2, FlattenIs
  <2>4. Append(s, x) \in Seq(A)
    OBVIOUS
  <2>5. WithoutCR(s) \in Seq(A) /\ WithoutCR(Append(s, x)) = WithoutCR(s) \o m[x]
    BY <1>2, <2>3, <2>4
  <2> QED
    BY <2>2, <2>5
<1>5. ASSUME NEW s \in Seq(A) PROVE WithoutCR(s) \in Seq(A)
  <2>1. p(s) \in Seq(Seq(A))
    <3>1. CASE s = <<>>
      BY <3>1 DEF Pieces
    <3>2. CASE s # <<>>
      <4>1. s[1] \in A
        BY <3>2
      <4> HIDE DEF m
      <4> QED
        BY <1>1, <4>1, PiecesAppend
    <3> QED
      BY <3>1, <3>2
  <2> HIDE DEF p
  <2> QED
    BY <1>2, <2>1, FlattenIs
<1> QED
  BY <1>3, <1>4, <1>5

-----------------------------------------------------------------------------
(***************************************************************************)
(* Texts.                                                                  *)
(***************************************************************************)

\* Append, in other words.
LEMMA AppendIs ==
    ASSUME NEW A, NEW s \in Seq(A), NEW x \in A
    PROVE  Append(s, x) = s \o <<x>> /\ <<x>> \in Seq(A)
OBVIOUS

\* A sequence is its first elements and the rest.
LEMMA CutAt ==
    ASSUME NEW A, NEW s \in Seq(A), NEW k \in 0 .. Len(s)
    PROVE  /\ SubSeq(s, 1, k) \in Seq(A) /\ Len(SubSeq(s, 1, k)) = k
           /\ SubSeq(s, k + 1, Len(s)) \in Seq(A) /\ Len(SubSeq(s, k + 1, Len(s))) = Len(s) - k
           /\ s = SubSeq(s, 1, k) \o SubSeq(s, k + 1, Len(s))
<1> DEFINE a == SubSeq(s, 1, k)
           b == SubSeq(s, k + 1, Len(s))
           c == a \o b
<1>1. a \in Seq(A) /\ Len(a) = k /\ \A i \in 1 .. k : a[i] = s[i]
  OBVIOUS
<1>2. b \in Seq(A) /\ Len(b) = Len(s) - k /\ \A i \in 1 .. Len(s) - k : b[i] = s[k + i]
  OBVIOUS
<1> HIDE DEF a, b
<1>3. c \in Seq(A) /\ Len(c) = Len(s)
      /\ \A i \in 1 .. Len(s) : c[i] = IF i <= k THEN a[i] ELSE b[i - k]
  BY <1>1, <1>2
<1> HIDE DEF c
<1>4. ASSUME NEW i \in 1 .. Len(s) PROVE c[i] = s[i]
  <2>1. CASE i <= k
    BY <1>1, <1>3, <2>1
  <2>2. CASE i > k
    <3>1. i - k \in 1 .. Len(s) - k /\ k + (i - k) = i
      BY <2>2
    <3> QED
      BY <1>2, <1>3, <2>2, <3>1
  <2> QED
    BY <2>1, <2>2
<1>5. c = s
  BY <1>3, <1>4
<1> QED
  BY <1>1, <1>2, <1>5 DEF a, b, c

\* The CR are taken out of each part of a text.
LEMMA WithoutCat ==
    ASSUME NEW A, NEW s \in Seq(A), NEW t \in Seq(A)
    PROVE  WithoutCR(s \o t) = WithoutCR(s) \o WithoutCR(t)
<1> DEFINE P == {u \in Seq(A) : WithoutCR(s \o u) = WithoutCR(s) \o WithoutCR(u)}
<1>1. <<>> \in P
  <2>1. s \o <<>> = s /\ WithoutCR(s) \in Seq(A) /\ WithoutCR(<<>>) = <<>>
    BY WithoutIs
  <2>2. WithoutCR(s) \o <<>> = WithoutCR(s) /\ <<>> \in Seq(A)
    BY <2>1
  <2> QED
    BY <2>1, <2>2
<1>2. ASSUME NEW u \in Seq(A), NEW x \in A, u \in P PROVE Append(u, x) \in P
  <2>1. s \o u \in Seq(A) /\ s \o Append(u, x) = Append(s \o u, x) /\ Append(u, x) \in Seq(A)
    OBVIOUS
  <2>2. WithoutCR(s) \in Seq(A) /\ WithoutCR(u) \in Seq(A)
    BY WithoutIs
  <2>3. WithoutCR(Append(s \o u, x)) = IF x = "CR" THEN WithoutCR(s \o u) ELSE Append(WithoutCR(s \o u), x)
    BY <2>1, WithoutIs
  <2>4. WithoutCR(Append(u, x)) = IF x = "CR" THEN WithoutCR(u) ELSE Append(WithoutCR(u), x)
    BY WithoutIs
  <2>5. WithoutCR(s \o u) = WithoutCR(s) \o WithoutCR(u)
    BY <1>2
  <2> DEFINE a == WithoutCR(s)
             b == WithoutCR(u)
  <2>6. Append(a \o b, x) = a \o Append(b, x)
    <3> DEFINE c == a \o b
               d == <<x>>
    <3>1. a \in Seq(A) /\ b \in Seq(A) /\ c \in Seq(A) /\ d \in Seq(A)
      BY <2>2
    <3> HIDE DEF a, b, c
    <3>2. Append(c, x) = c \o d /\ Append(b, x) = b \o d
      BY <3>1, AppendIs
    <3> HIDE DEF d
    <3>3. c \o d = a \o (b \o d)
      BY <3>1, ConcatAssociative DEF c
    <3> QED
      BY <3>2, <3>3 DEF c
  <2> QED
    BY <2>1, <2>3, <2>4, <2>5, <2>6
<1> HIDE DEF P
<1>3. Seq(A) \subseteq P
  BY <1>1, <1>2, SeqInduct
<1> QED
  BY <1>3 DEF P

\* Quotient and rest.
LEMMA RestIs ==
    ASSUME NEW n \in Nat \ {0}, NEW a \in Nat
    PROVE  a = (n * (a \div n)) + (a % n) /\ a \div n \in Nat /\ a % n \in 0 .. n - 1
OBVIOUS

LEMMA RestOf ==
    ASSUME NEW n \in Nat \ {0}, NEW q \in Nat, NEW r \in 0 .. n - 1
    PROVE  ((n * q) + r) % n = r
OBVIOUS

\* The rest of the next number.
LEMMA RestUp ==
    ASSUME NEW n \in Nat \ {0}, NEW a \in Nat
    PROVE  (a + 1) % n = IF a % n = n - 1 THEN 0 ELSE (a % n) + 1
<1> DEFINE q == a \div n
           r == a % n
<1>1. a = (n * q) + r /\ q \in Nat /\ r \in 0 .. n - 1
  BY RestIs
<1> HIDE DEF q, r
<1>2. CASE r = n - 1
  <2> DEFINE t == q + 1
  <2>1. t \in Nat /\ a + 1 = (n * t) + 0 /\ 0 \in 0 .. n - 1
    BY <1>1, <1>2
  <2> HIDE DEF t
  <2>2. ((n * t) + 0) % n = 0
    BY <2>1, RestOf
  <2> QED
    BY <1>2, <2>1, <2>2 DEF r
<1>3. CASE r # n - 1
  <2> DEFINE t == r + 1
  <2>1. t \in 0 .. n - 1 /\ a + 1 = (n * q) + t
    BY <1>1, <1>3
  <2> HIDE DEF t
  <2>2. ((n * q) + t) % n = t
    BY <1>1, <2>1, RestOf
  <2> QED
    BY <1>3, <2>1, <2>2 DEF r, t
<1> QED
  BY <1>2, <1>3

\* What a byte more makes of the lines.
LEMMA InLinesIs ==
    ASSUME NEW A, "LF" \in A, NEW n \in Nat \ {0}
    PROVE  /\ InLines(<<>>, n) = <<>>
           /\ \A s \in Seq(A) : InLines(s, n) \in Seq(A)
           /\ \A s \in Seq(A), x \in A :
                 InLines(Append(s, x), n)
                     = InLines(s, n) \o (IF s # <<>> /\ Len(s) % n = 0 THEN <<"LF", x>> ELSE <<x>>)
<1> DEFINE B == Seq(A)
           g(i, x) == IF i > 1 /\ (i - 1) % n = 0 THEN <<"LF", x>> ELSE <<x>>
           p(s) == [i \in DOMAIN s |-> IF i > 1 /\ (i - 1) % n = 0 THEN <<"LF", s[i]>> ELSE <<s[i]>>]
<1>1. InLines(<<>>, n) = <<>>
  <2>1. p(<<>>) = <<>>
    OBVIOUS
  <2> QED
    BY <2>1, FlattenIs DEF InLines
<1>2. ASSUME NEW i \in Nat, NEW x \in A PROVE g(i, x) \in B
  OBVIOUS
<1>3. ASSUME NEW s \in Seq(A)
      PROVE  p(s) \in Seq(B) /\ Len(p(s)) = Len(s) /\ \A i \in 1 .. Len(s) : p(s)[i] = g(i, s[i])
  <2>1. Len(s) \in Nat /\ DOMAIN s = 1 .. Len(s) /\ \A i \in 1 .. Len(s) : s[i] \in A /\ i \in Nat
    OBVIOUS
  <2>2. \A i \in 1 .. Len(s) : g(i, s[i]) \in B
    <3> HIDE DEF B, g
    <3> QED
      BY <1>2, <2>1
  <2>3. p(s) = [i \in 1 .. Len(s) |-> g(i, s[i])]
    BY <2>1
  <2> HIDE DEF B, g, p
  <2> QED
    BY <2>1, <2>2, <2>3
<1>4. ASSUME NEW s \in Seq(A) PROVE InLines(s, n) = FlattenSeq(p(s))
  BY DEF InLines
<1>5. ASSUME NEW s \in Seq(A), NEW x \in A
      PROVE  InLines(Append(s, x), n) = InLines(s, n) \o g(Len(s) + 1, x)
  <2> DEFINE t == Append(s, x)
  <2>1. t \in Seq(A) /\ Len(t) = Len(s) + 1 /\ t[Len(s) + 1] = x /\ Len(s) \in Nat
        /\ \A i \in 1 .. Len(s) : t[i] = s[i]
    OBVIOUS
  <2> HIDE DEF t
  <2>2. p(t) \in Seq(B) /\ Len(p(t)) = Len(t) /\ \A i \in 1 .. Len(t) : p(t)[i] = g(i, t[i])
    <3> HIDE DEF B, g, p
    <3> QED
      BY <1>3, <2>1
  <2>3. p(s) \in Seq(B) /\ Len(p(s)) = Len(s) /\ \A i \in 1 .. Len(s) : p(s)[i] = g(i, s[i])
    <3> HIDE DEF B, g, p
    <3> QED
      BY <1>3
  <2>4. g(Len(s) + 1, x) \in B
    <3> HIDE DEF B, g
    <3> QED
      BY <1>2, <2>1
  <2>5. p(t) = Append(p(s), g(Len(s) + 1, x))
    <3> HIDE DEF B, g, p
    <3> DEFINE u == Append(p(s), g(Len(s) + 1, x))
    <3>1. u \in Seq(B) /\ Len(u) = Len(s) + 1 /\ u[Len(s) + 1] = g(Len(s) + 1, x)
          /\ \A i \in 1 .. Len(s) : u[i] = p(s)[i]
      BY <2>1, <2>3, <2>4
    <3> HIDE DEF u
    <3>2. \A i \in 1 .. Len(s) + 1 : i \in 1 .. Len(s) \/ i = Len(s) + 1
      BY <2>1
    <3>3. \A i \in 1 .. Len(s) + 1 : p(t)[i] = u[i]
      BY <2>1, <2>2, <2>3, <3>1, <3>2
    <3>4. p(t) = u
      BY <2>1, <2>2, <3>1, <3>3
    <3> QED
      BY <3>4 DEF u
  <2>6. FlattenSeq(Append(p(s), g(Len(s) + 1, x))) = FlattenSeq(p(s)) \o g(Len(s) + 1, x)
    <3> HIDE DEF p, g
    <3> QED
      BY <2>3, <2>4, FlattenIs DEF B
  <2> HIDE DEF p, g
  <2> QED
    BY <1>4, <2>1, <2>5, <2>6 DEF t
<1>6. ASSUME NEW s \in Seq(A) PROVE InLines(s, n) \in Seq(A)
  <2>1. p(s) \in Seq(Seq(A))
    <3> HIDE DEF p, g
    <3> QED
      BY <1>3 DEF B
  <2> HIDE DEF p
  <2> QED
    BY <1>4, <2>1, FlattenIs
<1>7. ASSUME NEW s \in Seq(A), NEW x \in A
      PROVE  g(Len(s) + 1, x) = IF s # <<>> /\ Len(s) % n = 0 THEN <<"LF", x>> ELSE <<x>>
  <2>1. (Len(s) + 1) - 1 = Len(s) /\ (Len(s) + 1 > 1 <=> s # <<>>)
    OBVIOUS
  <2> QED
    BY <2>1
<1> HIDE DEF g
<1> QED
  BY <1>1, <1>5, <1>6, <1>7

\* Where the last line of s ends.
Column(s, n) == IF s = <<>> THEN 0 ELSE ((Len(s) - 1) % n) + 1

LEMMA ColumnUp ==
    ASSUME NEW A, NEW s \in Seq(A), NEW x \in A, NEW n \in Nat \ {0}
    PROVE  /\ Column(s, n) \in 0 .. n
           /\ Column(Append(s, x), n) = IF Column(s, n) = n THEN 1 ELSE Column(s, n) + 1
           /\ s # <<>> /\ Len(s) % n = 0 <=> Column(s, n) = n
<1>1. Append(s, x) # <<>> /\ Len(Append(s, x)) = Len(s) + 1 /\ Len(s) \in Nat /\ (Len(s) + 1) - 1 = Len(s)
  OBVIOUS
<1>2. Column(Append(s, x), n) = (Len(s) % n) + 1
  BY <1>1 DEF Column
<1>3. CASE s = <<>>
  <2>1. Len(s) = 0 /\ 0 % n = 0
    BY <1>3
  <2> QED
    BY <1>2, <1>3, <2>1 DEF Column
<1>4. CASE s # <<>>
  <2> DEFINE a == Len(s) - 1
  <2>1. a \in Nat /\ a + 1 = Len(s)
    BY <1>4
  <2>2. Column(s, n) = (a % n) + 1
    BY <1>4 DEF Column
  <2> HIDE DEF a
  <2>3. (a + 1) % n = IF a % n = n - 1 THEN 0 ELSE (a % n) + 1
    BY <2>1, RestUp
  <2>4. a % n \in 0 .. n - 1
    BY <2>1, RestIs
  <2> QED
    BY <1>2, <1>4, <2>1, <2>2, <2>3, <2>4
<1> QED
  BY <1>3, <1>4

\* Where the line begins that is written next, and what ends the one before it.
Begin(s, n) == IF Column(s, n) = n THEN 0 ELSE Column(s, n)

Break(s, n) == IF Column(s, n) = n THEN <<"LF">> ELSE <<>>

\* What is written in one turn: the end of a line that is full, and what there
\* is room for in the next.
LEMMA InLinesCat ==
    ASSUME NEW A, "LF" \in A, NEW n \in Nat \ {0}, NEW s \in Seq(A), NEW t \in Seq(A), t # <<>>,
           Begin(s, n) + Len(t) <= n
    PROVE  /\ InLines(s \o t, n) = InLines(s, n) \o Break(s, n) \o t
           /\ Column(s \o t, n) = Begin(s, n) + Len(t)
<1> USE DEF Begin, Break
<1> DEFINE b == IF Column(s, n) = n THEN 0 ELSE Column(s, n)
           e == IF Column(s, n) = n THEN <<"LF">> ELSE <<>>
           l == InLines(s, n)
           P == {u \in Seq(A) : u # <<>> /\ b + Len(u) <= n =>
                    InLines(s \o u, n) = l \o e \o u /\ Column(s \o u, n) = b + Len(u)}
<1>1. l \in Seq(A) /\ e \in Seq(A) /\ Column(s, n) \in 0 .. n /\ b \in 0 .. n
  <2>1. Column(s, n) \in 0 .. n
    BY ColumnUp
  <2>2. l \in Seq(A)
    BY InLinesIs
  <2> QED
    BY <2>1, <2>2
<1>2. <<>> \in P
  OBVIOUS
<1>3. ASSUME NEW u \in Seq(A), NEW x \in A, u \in P PROVE Append(u, x) \in P
  <2> DEFINE v == Append(u, x)
             w == s \o u
  <2>1. v \in Seq(A) /\ Len(v) = Len(u) + 1 /\ w \in Seq(A) /\ s \o v = Append(w, x) /\ Len(u) \in Nat
    OBVIOUS
  <2>2. SUFFICES ASSUME b + Len(v) <= n
                 PROVE  InLines(s \o v, n) = l \o e \o v /\ Column(s \o v, n) = b + Len(v)
    BY <2>1
  <2>3. InLines(Append(w, x), n) = InLines(w, n) \o (IF w # <<>> /\ Len(w) % n = 0 THEN <<"LF", x>> ELSE <<x>>)
    <3> HIDE DEF w
    <3> QED
      BY <2>1, InLinesIs
  <2>4. /\ Column(Append(w, x), n) = IF Column(w, n) = n THEN 1 ELSE Column(w, n) + 1
        /\ w # <<>> /\ Len(w) % n = 0 <=> Column(w, n) = n
    <3> HIDE DEF w
    <3>1. w \in Seq(A)
      BY <2>1
    <3> QED
      BY <3>1, ColumnUp
  <2>5. CASE u = <<>>
    <3>1. w = s /\ v = <<x>> /\ Len(v) = 1
      BY <2>1, <2>5
    <3>2. Column(s \o v, n) = b + 1
      BY <2>1, <2>4, <3>1
    <3>3. InLines(s \o v, n) = l \o (IF Column(s, n) = n THEN <<"LF", x>> ELSE <<x>>)
      BY <2>1, <2>3, <2>4, <3>1
    <3> HIDE DEF l
    <3>4. l \o (IF Column(s, n) = n THEN <<"LF", x>> ELSE <<x>>) = l \o e \o <<x>>
      BY <1>1
    <3> QED
      BY <3>1, <3>2, <3>3, <3>4
  <2>6. CASE u # <<>>
    <3>1. b + Len(u) < n
      BY <1>1, <2>1, <2>2
    <3>2. InLines(w, n) = l \o e \o u /\ Column(w, n) = b + Len(u)
      BY <1>1, <1>3, <2>1, <2>6, <3>1
    <3> HIDE DEF l, e, b, w, P
    <3>3. Column(w, n) # n
      BY <1>1, <2>1, <3>1, <3>2
    <3> HIDE DEF v
    <3>4. Column(s \o v, n) = b + Len(v)
      <4>1. Column(s \o v, n) = (b + Len(u)) + 1
        BY <2>1, <2>4, <3>2, <3>3
      <4>2. Len(u) \in Nat /\ Len(v) = Len(u) + 1
        BY <2>1
      <4>3. b \in Nat
        BY <1>1
      <4> QED
        BY <4>1, <4>2, <4>3
    <3>5. InLines(s \o v, n) = InLines(w, n) \o <<x>>
      BY <2>1, <2>3, <2>4, <3>3
    <3> DEFINE f == l \o e
               d == <<x>>
    <3>6. f \in Seq(A) /\ d \in Seq(A) /\ v = u \o d
      BY <1>1, AppendIs DEF v
    <3> HIDE DEF f, d
    <3>7. (f \o u) \o d = f \o (u \o d)
      <4>1. f \in Seq(A) /\ d \in Seq(A)
        BY <3>6
      <4> QED
        BY <4>1, ConcatAssociative
    <3> QED
      BY <3>2, <3>4, <3>5, <3>6, <3>7 DEF f, d
  <2> HIDE DEF v
  <2> QED
    BY <2>5, <2>6
<1>4. Seq(A) \subseteq P
  <2> HIDE DEF P
  <2> QED
    BY <1>2, <1>3, SeqInduct
<1>5. t \in P
  <2> HIDE DEF P
  <2> QED
    BY <1>4
<1> QED
  BY <1>5

\* The bytes that texts are made of.
TextBytes(A) == {"CR", "LF"} \subseteq A

TextTypes(A) ==
    /\ sent \in Seq(A) /\ ahead \in Seq(A) /\ read \in Seq(A) /\ toWrite \in Seq(A)
    /\ width \in Nat \ {0}
    /\ tstate \in {"NL", "Text", "EOF"} /\ terr \in {"nil", "EOF"}

\* The state that the text without CR is left in.
Ended(t) == IF t = <<>> \/ t[Len(t)] = "LF" THEN "NL" ELSE "Text"

\* What has come is read, but for the LF that did not fit.
ReadSoFar(A) ==
    \E brought \in Seq(A) :
        /\ sent = brought \o ahead
        /\ terr = "nil" => read = WithoutCR(brought)
        /\ terr = "nil" /\ tstate # "EOF" => tstate = Ended(read)
        /\ terr = "nil" /\ tstate = "EOF" => ahead = <<>> /\ Ended(read) = "Text"
        /\ terr = "EOF" => read = UnixText(sent)

\* What has been written is what has been read, but for what is being written.
WrittenSoFar(A) ==
    \E out \in Seq(A) :
        /\ read = out \o toWrite
        /\ written = InLines(out, width)
        /\ column = Column(out, width)

TextInv(A) == TextTypes(A) /\ ReadSoFar(A) /\ WrittenSoFar(A)

\* UnixText, by the state that its text is left in.
LEMMA UnixTextIs ==
    ASSUME NEW A, TextBytes(A), NEW s \in Seq(A)
    PROVE  UnixText(s) = IF Ended(WithoutCR(s)) = "NL" THEN WithoutCR(s) ELSE WithoutCR(s) \o <<"LF">>
<1> DEFINE t == WithoutCR(s)
<1>1. t \in Seq(A) /\ "LF" \in A
  BY WithoutIs DEF TextBytes
<1>2. UnixText(s) = IF t = <<>> \/ Last(t) = "LF" THEN t ELSE Append(t, "LF")
  BY DEF UnixText
<1> HIDE DEF t
<1>3. Append(t, "LF") = t \o <<"LF">>
  BY <1>1
<1>4. t # <<>> => Last(t) = t[Len(t)]
  BY DEF Last
<1>5. UnixText(s) = IF Ended(t) = "NL" THEN t ELSE t \o <<"LF">>
  BY <1>2, <1>3, <1>4 DEF Ended
<1> QED
  BY <1>5 DEF t

\* What is put behind a text and is not empty says how the whole ends.
LEMMA EndedCat ==
    ASSUME NEW A, NEW s \in Seq(A), NEW t \in Seq(A), NEW st, st = Ended(s)
    PROVE  StateAfter(st, t) = Ended(s \o t) /\ (st = "NL" \/ st = "Text")
<1>1. CASE t = <<>>
  <2>1. s \o t = s
    BY <1>1
  <2> QED
    BY <1>1, <2>1 DEF StateAfter, Ended
<1>2. CASE t # <<>>
  <2> DEFINE u == s \o t
  <2>1. Len(u) = Len(s) + Len(t) /\ u # <<>> /\ u[Len(u)] = t[Len(t)]
    BY <1>2
  <2>2. Last(t) = t[Len(t)]
    BY <1>2 DEF Last
  <2> HIDE DEF u
  <2>3. StateAfter(st, t) = Ended(u)
    BY <1>2, <2>1, <2>2 DEF StateAfter, Ended
  <2>4. st = "NL" \/ st = "Text"
    BY DEF Ended
  <2> QED
    BY <2>3, <2>4 DEF u
<1> QED
  BY <1>1, <1>2

LEMMA TextStart ==
    ASSUME NEW A, TextBytes(A), LinesInit(Seq(A), Nat \ {0})
    PROVE  TextInv(A)
<1> USE DEF LinesInit
<1>1. <<>> \in Seq(A) /\ sent \in Seq(A) /\ sent = <<>> \o sent
  OBVIOUS
<1>2. WithoutCR(<<>>) = <<>> /\ InLines(<<>>, width) = <<>>
  BY WithoutIs, InLinesIs DEF TextBytes
<1>3. TextTypes(A)
  BY <1>1 DEF TextTypes
<1>4. ReadSoFar(A)
  BY <1>1, <1>2 DEF ReadSoFar, Ended
<1>5. WrittenSoFar(A)
  <2>1. <<>> = <<>> \o <<>>
    OBVIOUS
  <2> QED
    BY <1>1, <1>2, <2>1 DEF WrittenSoFar, Column
<1> QED
  BY <1>3, <1>4, <1>5 DEF TextInv

\* What a Read gives is put behind what has been read and is to be written.
LEMMA GivesKeeps ==
    ASSUME NEW A, TextInv(A), NEW brought \in Seq(A), NEW s, NEW err, toWrite = <<>>,
           Gives(brought, s, err), UNCHANGED <<column, width, written>>
    PROVE  read' \in Seq(A) /\ toWrite' \in Seq(A) /\ WrittenSoFar(A)'
<1>1. PICK out \in Seq(A) :
          read = out \o toWrite /\ written = InLines(out, width) /\ column = Column(out, width)
  BY DEF TextInv, WrittenSoFar
<1>2. read = out
  BY <1>1
<1>3. read' = read \o brought /\ toWrite' = brought
  BY DEF Gives
<1>4. read' \in Seq(A)
  BY <1>2, <1>3
<1>5. WrittenSoFar(A)'
  BY <1>1, <1>2, <1>3 DEF WrittenSoFar
<1> QED
  BY <1>3, <1>4, <1>5

LEMMA ReadTextKeeps ==
    ASSUME NEW A, TextBytes(A), TextInv(A), NEW n \in Nat \ {0}, ReadText(n)
    PROVE  TextInv(A)'
<1>1. toWrite = <<>> /\ terr = "nil" /\ UNCHANGED <<sent, column, width, written>>
  BY DEF ReadText
<1>2. TextTypes(A) /\ "LF" \in A
  BY DEF TextInv, TextBytes
<1>3. PICK had \in Seq(A) :
        /\ sent = had \o ahead /\ read = WithoutCR(had)
        /\ tstate # "EOF" => tstate = Ended(read)
        /\ tstate = "EOF" => ahead = <<>> /\ Ended(read) = "Text"
  BY <1>1 DEF TextInv, ReadSoFar
<1>4. CASE tstate = "EOF"
  <2>1. Gives(<<"LF">>, "NL", "EOF") /\ ahead' = ahead /\ ahead = <<>>
    BY <1>3, <1>4 DEF ReadText
  <2>2. <<"LF">> \in Seq(A)
    BY <1>2
  <2>3. read' \in Seq(A) /\ toWrite' \in Seq(A) /\ WrittenSoFar(A)'
    BY <1>1, <2>1, <2>2, GivesKeeps
  <2>4. sent = had /\ read' = read \o <<"LF">> /\ terr' = "EOF" /\ tstate' = "NL"
    BY <1>2, <1>3, <2>1 DEF Gives, TextTypes
  <2>5. read' = UnixText(sent)
    BY <1>3, <1>4, <2>4, UnixTextIs
  <2>6. TextTypes(A)'
    BY <1>1, <1>2, <2>1, <2>3, <2>4 DEF TextTypes
  <2>7. ReadSoFar(A)'
    BY <1>1, <1>3, <2>1, <2>4, <2>5 DEF ReadSoFar
  <2> QED
    BY <2>3, <2>6, <2>7 DEF TextInv
<1>5. CASE tstate # "EOF"
  <2>1. PICK x \in 0 .. n :
          /\ x <= Len(ahead) /\ (x = 0 => ahead = <<>>)
          /\ ahead' = SubSeq(ahead, x + 1, Len(ahead))
          /\ LET brought == WithoutCR(SubSeq(ahead, 1, x))
                 s == StateAfter(tstate, brought)
             IN  \/ ahead' # <<>> /\ Gives(brought, s, "nil")
                 \/ ahead' = <<>> /\ x > 0 /\ Gives(brought, s, "nil")
                 \/ ahead' = <<>> /\ AtEnd(brought, s, n)
    BY <1>5 DEF ReadText
  <2> DEFINE came == SubSeq(ahead, 1, x)
             brought == WithoutCR(came)
             s == StateAfter(tstate, brought)
             now == had \o came
             all == read \o brought
  <2>2. came \in Seq(A) /\ ahead' \in Seq(A) /\ ahead = came \o ahead'
    <3>1. ahead \in Seq(A) /\ x \in 0 .. Len(ahead)
      BY <1>2, <2>1 DEF TextTypes
    <3>2. ahead' = SubSeq(ahead, x + 1, Len(ahead))
      BY <2>1
    <3> QED
      BY <3>1, <3>2, CutAt
  <2> HIDE DEF came
  <2>3. now \in Seq(A) /\ sent = now \o ahead'
    <3>1. (had \o came) \o ahead' = had \o (came \o ahead')
      BY <2>2, ConcatAssociative
    <3> QED
      BY <1>3, <2>2, <3>1
  <2>4. brought \in Seq(A) /\ all = WithoutCR(now) /\ all \in Seq(A)
    <3>1. brought \in Seq(A) /\ WithoutCR(now) \in Seq(A)
      BY <2>2, <2>3, WithoutIs
    <3>2. WithoutCR(now) = WithoutCR(had) \o brought
      BY <2>2, WithoutCat
    <3> QED
      BY <1>3, <3>1, <3>2
  <2>5. s = Ended(all)
    <3>1. read \in Seq(A) /\ tstate = Ended(read)
      BY <1>2, <1>3, <1>5 DEF TextTypes
    <3> HIDE DEF brought
    <3> QED
      BY <2>4, <3>1, EndedCat
  <2>6. s \in {"NL", "Text"}
    BY <2>5 DEF Ended
  <2> HIDE DEF brought, s, now, all
  <2>7. ahead' = <<>> => sent = now
    BY <2>3
  <2>8. CASE Gives(brought, s, "nil")
    <3>1. read' \in Seq(A) /\ toWrite' \in Seq(A) /\ WrittenSoFar(A)'
      BY <1>1, <2>4, <2>8, GivesKeeps
    <3>2. read' = all /\ terr' = "nil" /\ tstate' = s
      BY <2>8 DEF Gives, all
    <3>3. TextTypes(A)'
      BY <1>1, <1>2, <2>2, <2>6, <3>1, <3>2 DEF TextTypes
    <3>4. ReadSoFar(A)'
      BY <1>1, <2>3, <2>4, <2>5, <2>6, <3>2 DEF ReadSoFar
    <3> QED
      BY <3>1, <3>3, <3>4 DEF TextInv
  <2>9. CASE ahead' = <<>> /\ AtEnd(brought, s, n)
    <3>1. CASE s = "NL"
      <4>1. Gives(brought, s, "EOF")
        BY <2>9, <3>1 DEF AtEnd
      <4>2. read' \in Seq(A) /\ toWrite' \in Seq(A) /\ WrittenSoFar(A)'
        BY <1>1, <2>4, <4>1, GivesKeeps
      <4>3. read' = all /\ terr' = "EOF" /\ tstate' = s
        BY <4>1 DEF Gives, all
      <4>4. read' = UnixText(sent)
        BY <2>3, <2>4, <2>5, <2>7, <2>9, <3>1, <4>3, UnixTextIs
      <4>5. TextTypes(A)'
        BY <1>1, <1>2, <2>2, <2>6, <4>2, <4>3 DEF TextTypes
      <4>6. ReadSoFar(A)'
        BY <1>1, <2>3, <4>3, <4>4 DEF ReadSoFar
      <4> QED
        BY <4>2, <4>5, <4>6 DEF TextInv
    <3>2. CASE s # "NL" /\ Len(brought) < n
      <4> DEFINE more == Append(brought, "LF")
      <4>1. Gives(more, "NL", "EOF")
        BY <2>9, <3>2 DEF AtEnd
      <4>2. more \in Seq(A) /\ more = brought \o <<"LF">> /\ <<"LF">> \in Seq(A)
        BY <1>2, <2>4, AppendIs
      <4> HIDE DEF more
      <4>3. read' \in Seq(A) /\ toWrite' \in Seq(A) /\ WrittenSoFar(A)'
        BY <1>1, <4>1, <4>2, GivesKeeps
      <4>4. read' = read \o more /\ terr' = "EOF" /\ tstate' = "NL"
        BY <4>1 DEF Gives
      <4>5. read \o more = all \o <<"LF">>
        <5>1. read \in Seq(A)
          BY <1>2 DEF TextTypes
        <5> DEFINE d == <<"LF">>
        <5>2. d \in Seq(A) /\ more = brought \o d
          BY <4>2
        <5> HIDE DEF d
        <5>3. (read \o brought) \o d = read \o (brought \o d)
          <6>1. read \in Seq(A) /\ brought \in Seq(A) /\ d \in Seq(A)
            BY <2>4, <5>1, <5>2
          <6> QED
            BY ONLY <6>1, ConcatAssociative
        <5> QED
          BY <5>2, <5>3 DEF all, d
      <4>6. read' = UnixText(sent)
        BY <2>3, <2>4, <2>5, <2>7, <2>9, <3>2, <4>4, <4>5, UnixTextIs
      <4>7. TextTypes(A)'
        BY <1>1, <1>2, <2>2, <4>3, <4>4 DEF TextTypes
      <4>8. ReadSoFar(A)'
        BY <1>1, <2>3, <4>4, <4>6 DEF ReadSoFar
      <4> QED
        BY <4>3, <4>7, <4>8 DEF TextInv
    <3>3. CASE s # "NL" /\ ~(Len(brought) < n)
      <4>1. Gives(brought, "EOF", "nil")
        BY <2>9, <3>3 DEF AtEnd
      <4>2. read' \in Seq(A) /\ toWrite' \in Seq(A) /\ WrittenSoFar(A)'
        BY <1>1, <2>4, <4>1, GivesKeeps
      <4>3. read' = all /\ terr' = "nil" /\ tstate' = "EOF"
        BY <4>1 DEF Gives, all
      <4>4. TextTypes(A)'
        BY <1>1, <1>2, <2>2, <4>2, <4>3 DEF TextTypes
      <4>5. ReadSoFar(A)'
        BY <1>1, <2>3, <2>4, <2>5, <2>6, <2>9, <3>3, <4>3 DEF ReadSoFar
      <4> QED
        BY <4>2, <4>4, <4>5 DEF TextInv
    <3> QED
      BY <3>1, <3>2, <3>3
  <2> QED
    BY <2>1, <2>8, <2>9 DEF came, brought, s
<1> QED
  BY <1>4, <1>5

LEMMA SplitLineKeeps ==
    ASSUME NEW A, TextBytes(A), TextInv(A), SplitLine
    PROVE  TextInv(A)'
<1>1. toWrite # <<>> /\ UNCHANGED <<sent, ahead, tstate, terr, read, width>>
  BY DEF SplitLine
<1>2. TextTypes(A) /\ "LF" \in A
  BY DEF TextInv, TextBytes
<1>3. PICK out \in Seq(A) :
          read = out \o toWrite /\ written = InLines(out, width) /\ column = Column(out, width)
  BY DEF TextInv, WrittenSoFar
<1> DEFINE full == column >= width
           begin == IF full THEN 0 ELSE column
           room == width - begin
           n == IF Len(toWrite) > room THEN room ELSE Len(toWrite)
           t == SubSeq(toWrite, 1, n)
           e == IF full THEN <<"LF">> ELSE <<>>
<1>4. /\ written' = written \o e \o t
      /\ column' = begin + n
      /\ toWrite' = SubSeq(toWrite, n + 1, Len(toWrite))
  BY DEF SplitLine
<1>5. Column(out, width) \in 0 .. width
  BY <1>2, <1>3, ColumnUp DEF TextTypes
<1>6. width \in Nat \ {0} /\ (full <=> Column(out, width) = width)
  BY <1>2, <1>3, <1>5 DEF TextTypes
<1>7. n \in 1 .. Len(toWrite) /\ begin + n <= width
      /\ begin = (IF Column(out, width) = width THEN 0 ELSE Column(out, width))
      /\ e = (IF Column(out, width) = width THEN <<"LF">> ELSE <<>>)
  <2>1. Len(toWrite) \in Nat \ {0}
    BY <1>1, <1>2 DEF TextTypes
  <2> QED
    BY <1>3, <1>5, <1>6, <2>1
<1>8. toWrite \in Seq(A)
  BY <1>2 DEF TextTypes
<1> HIDE DEF n, begin, e
<1>9. t \in Seq(A) /\ t # <<>> /\ Len(t) = n /\ toWrite' \in Seq(A) /\ toWrite = t \o toWrite'
  <2>1. n \in 0 .. Len(toWrite)
    BY <1>7, <1>8
  <2>2. t \in Seq(A) /\ Len(t) = n /\ toWrite' \in Seq(A) /\ toWrite = t \o toWrite'
    BY <1>4, <1>8, <2>1, CutAt
  <2> HIDE DEF t
  <2> QED
    BY <1>7, <2>2
<1> HIDE DEF t
<1>10. /\ InLines(out \o t, width) = InLines(out, width) \o e \o t
       /\ Column(out \o t, width) = begin + Len(t)
  <2>1. begin + Len(t) <= width
    BY <1>7, <1>9
  <2> QED
    <3>1. "LF" \in A /\ width \in Nat \ {0} /\ t \in Seq(A) /\ t # <<>>
      BY <1>2, <1>6, <1>9
    <3>2. /\ begin = (IF Column(out, width) = width THEN 0 ELSE Column(out, width))
          /\ e = (IF Column(out, width) = width THEN <<"LF">> ELSE <<>>)
      BY <1>7
    <3>3. begin = Begin(out, width) /\ e = Break(out, width)
      BY <3>2 DEF Begin, Break
    <3>4. Begin(out, width) + Len(t) <= width
      BY <2>1, <3>3
    <3>5. /\ InLines(out \o t, width) = InLines(out, width) \o Break(out, width) \o t
          /\ Column(out \o t, width) = Begin(out, width) + Len(t)
      BY <3>1, <3>4, InLinesCat
    <3> QED
      BY <3>3, <3>5
<1>11. read = (out \o t) \o toWrite' /\ out \o t \in Seq(A)
  <2>1. (out \o t) \o toWrite' = out \o (t \o toWrite')
    BY <1>9, ConcatAssociative
  <2> QED
    BY <1>3, <1>9, <2>1
<1>12. WrittenSoFar(A)'
  <2>1. read' = (out \o t) \o toWrite' /\ written' = InLines(out \o t, width') /\ column' = Column(out \o t, width')
    BY <1>1, <1>3, <1>4, <1>9, <1>10, <1>11
  <2> QED
    BY <1>11, <2>1 DEF WrittenSoFar
<1>13. ReadSoFar(A)'
  <2>1. ReadSoFar(A)
    BY DEF TextInv
  <2> QED
    BY <1>1, <2>1 DEF ReadSoFar
<1>14. TextTypes(A)'
  BY <1>1, <1>2, <1>9 DEF TextTypes
<1> QED
  BY <1>12, <1>13, <1>14 DEF TextInv

LEMMA TextStep ==
    ASSUME NEW A, TextBytes(A), TextInv(A), [LinesNext(Nat \ {0})]_lineTextVars
    PROVE  TextInv(A)'
<1>1. CASE LinesNext(Nat \ {0})
  BY <1>1, ReadTextKeeps, SplitLineKeeps DEF LinesNext
<1>2. CASE UNCHANGED lineTextVars
  BY <1>2 DEF lineTextVars, TextInv, TextTypes, ReadSoFar, WrittenSoFar
<1> QED
  BY <1>1, <1>2

LEMMA TextInvTrue ==
    ASSUME NEW A, TextInv(A)
    PROVE  TextTrue
<1>1. SUFFICES ASSUME terr = "EOF", toWrite = <<>>
               PROVE  read = UnixText(sent) /\ written = InLines(read, width)
  BY DEF TextTrue
<1>2. read = UnixText(sent)
  BY <1>1 DEF TextInv, ReadSoFar
<1>3. PICK out \in Seq(A) : read = out \o toWrite /\ written = InLines(out, width)
  BY DEF TextInv, WrittenSoFar
<1>4. read = out
  BY <1>1, <1>3
<1> QED
  BY <1>2, <1>3, <1>4

\* In pieces of whatever size a text is read and written: what has been read at the end is the text
\* without CR and with an LF at its end, and what has been written is all of that in lines of the
\* width (UnixTextReader.Read, unixtextreader.go:15-70; SplitWriter.Write, splitwriter.go:13-41).
THEOREM TextCorrect ==
    ASSUME NEW A, TextBytes(A)
    PROVE  LinesInit(Seq(A), Nat \ {0}) /\ [][LinesNext(Nat \ {0})]_lineTextVars => []TextTrue
<1>1. LinesInit(Seq(A), Nat \ {0}) => TextInv(A)
  BY TextStart
<1>2. TextInv(A) /\ [LinesNext(Nat \ {0})]_lineTextVars => TextInv(A)'
  BY TextStep
<1>3. TextInv(A) => TextTrue
  BY TextInvTrue
<1> QED
  BY <1>1, <1>2, <1>3, PTL

-----------------------------------------------------------------------------
(***************************************************************************)
(* What is made of a sequence element by element.                          *)
(***************************************************************************)

\* f says what next has made of v0 and of the first elements of s.
Folds(f, V, v0, next, s) ==
    /\ f \in [0 .. Len(s) -> V] /\ f[0] = v0
    /\ \A i \in 0 .. Len(s) - 1 : f[i + 1] = next[<<f[i], s[i + 1]>>]

LEMMA FoldThere ==
    ASSUME NEW A, NEW V, NEW v0 \in V, NEW next \in [V \X A -> V], NEW s \in Seq(A)
    PROVE  \E f : Folds(f, V, v0, next, s)
<1> DEFINE op == [y \in Nat \X V |-> next[<<y[2], s[y[1] + 1]>>]]
           L == Len(s)
<1>1. L \in Nat /\ \A i \in 0 .. L - 1 : i \in Nat /\ i + 1 \in 1 .. L /\ s[i + 1] \in A
  OBVIOUS
<1>2. \A i \in Nat, v \in V : op[<<i, v>>] = next[<<v, s[i + 1]>>]
  OBVIOUS
<1> HIDE DEF op, L
<1>3. StepTo(L, V, op)
  <2>1. ASSUME NEW i \in 0 .. L - 1, NEW v \in V PROVE op[<<i, v>>] \in V
    BY <1>1, <1>2
  <2> QED
    BY <2>1 DEF StepTo
<1>4. PICK f : RunTo(L, V, v0, op, f)
  BY <1>1, <1>3, RecursionTo
<1>5. f \in [0 .. L -> V] /\ f[0] = v0 /\ \A i \in 0 .. L - 1 : f[i + 1] = op[<<i, f[i]>>]
  BY <1>4 DEF RunTo
<1>6. ASSUME NEW i \in 0 .. L - 1 PROVE f[i + 1] = next[<<f[i], s[i + 1]>>]
  <2>1. i \in Nat /\ i \in 0 .. L
    BY <1>1
  <2> QED
    BY <1>2, <1>5, <2>1
<1> QED
  BY <1>5, <1>6 DEF Folds, L

\* A function on the lengths that is next's where it has a value does so.
LEMMA FoldIs ==
    ASSUME NEW A, NEW V, NEW v0 \in V, NEW next \in [V \X A -> V], NEW s \in Seq(A), NEW f,
           f = [n \in 0 .. Len(s) |-> f[n]], f[0] = v0,
           \A i \in 0 .. Len(s) - 1 : f[i] \in V => f[i + 1] = next[<<f[i], s[i + 1]>>]
    PROVE  Folds(f, V, v0, next, s)
<1> DEFINE L == Len(s)
           S == {n \in Nat : n <= L => f[n] \in V}
<1>1. L \in Nat /\ \A i \in 0 .. L - 1 : i \in Nat /\ i + 1 \in 1 .. L /\ s[i + 1] \in A
  OBVIOUS
<1>2. f = [n \in 0 .. L |-> f[n]] /\ \A i \in 0 .. L - 1 : f[i] \in V => f[i + 1] = next[<<f[i], s[i + 1]>>]
  OBVIOUS
<1> HIDE DEF L
<1>3. 0 \in S
  OBVIOUS
<1>4. ASSUME NEW n \in Nat, n \in S PROVE n + 1 \in S
  <2>1. SUFFICES ASSUME n + 1 <= L PROVE f[n + 1] \in V
    OBVIOUS
  <2>2. n \in 0 .. L - 1 /\ f[n] \in V
    BY <1>1, <1>4, <2>1
  <2>3. f[n + 1] = next[<<f[n], s[n + 1]>>] /\ s[n + 1] \in A
    BY <1>1, <1>2, <2>2
  <2> QED
    BY <2>2, <2>3
<1>5. Nat \subseteq S
  <2> HIDE DEF S
  <2> QED
    BY <1>3, <1>4, Induct
<1>6. \A n \in 0 .. L : f[n] \in V
  <2>1. TAKE n \in 0 .. L
  <2>2. n \in Nat /\ n <= L
    BY <1>1
  <2> QED
    BY <1>5, <2>2
<1>7. f \in [0 .. L -> V]
  BY <1>2, <1>6
<1>8. \A i \in 0 .. L - 1 : f[i + 1] = next[<<f[i], s[i + 1]>>]
  <2>1. \A i \in 0 .. L - 1 : i \in 0 .. L
    BY <1>1
  <2> QED
    BY <1>2, <1>6, <2>1
<1> QED
  BY <1>7, <1>8 DEF Folds, L

IsAppend(t, s, x) == t = Append(s, x)

\* An element more.
LEMMA FoldUp ==
    ASSUME NEW A, NEW V, NEW v0, NEW next, NEW s, s \in Seq(A), NEW x,
           NEW t, IsAppend(t, s, x), NEW f, NEW g, Folds(f, V, v0, next, s), Folds(g, V, v0, next, t)
    PROVE  g[Len(s) + 1] = next[<<f[Len(s)], x>>]
<1> DEFINE L == Len(s)
           S == {n \in Nat : n <= L => f[n] = g[n]}
<1>1. L \in Nat /\ Len(t) = L + 1 /\ t[L + 1] = x /\ \A i \in 1 .. L : t[i] = s[i]
  BY DEF IsAppend
<1>2. f[0] = v0 /\ \A i \in 0 .. L - 1 : f[i + 1] = next[<<f[i], s[i + 1]>>]
  BY DEF Folds
<1>3. g[0] = v0 /\ \A i \in 0 .. Len(t) - 1 : g[i + 1] = next[<<g[i], t[i + 1]>>]
  BY DEF Folds
<1> HIDE DEF L
<1>4. 0 \in S
  BY <1>2, <1>3
<1>5. ASSUME NEW n \in Nat, n \in S PROVE n + 1 \in S
  <2>1. SUFFICES ASSUME n + 1 <= L PROVE f[n + 1] = g[n + 1]
    OBVIOUS
  <2>2. n \in 0 .. L - 1 /\ n \in 0 .. Len(t) - 1 /\ n + 1 \in 1 .. L /\ f[n] = g[n]
    BY <1>1, <1>5, <2>1
  <2> QED
    BY <1>1, <1>2, <1>3, <2>2
<1>6. Nat \subseteq S
  <2> HIDE DEF S
  <2> QED
    BY <1>4, <1>5, Induct
<1>7. f[L] = g[L]
  BY <1>1, <1>6
<1>8. L \in 0 .. Len(t) - 1
  BY <1>1
<1>9. g[L + 1] = next[<<g[L], t[L + 1]>>]
  BY <1>3, <1>8
<1> QED
  BY <1>1, <1>7, <1>9 DEF L

-----------------------------------------------------------------------------
(***************************************************************************)
(* Parts of texts.                                                         *)
(***************************************************************************)

\* What a character more makes of the pieces p.
Longer(p, c, S) == IF c \in S THEN Append(p, <<>>) ELSE [p EXCEPT ![Len(p)] = Append(@, c)]

\* q is p with c more.
IsLonger(p, q, c, S) ==
    /\ c \in S => /\ Len(q) = Len(p) + 1 /\ q[Len(p)] = p[Len(p)] /\ q[Len(p) + 1] = <<>>
    /\ c \notin S => Len(q) = Len(p) /\ q[Len(p)] = p[Len(p)] \o <<c>>
    /\ \A k \in 1 .. Len(p) - 1 : q[k] = p[k]

LEMMA LongerThere ==
    ASSUME NEW A, NEW S, NEW p, p \in Seq(Seq(A)) /\ p # <<>>, NEW c, c \in A
    PROVE  IsLonger(p, Longer(p, c, S), c, S)
<1> DEFINE B == Seq(A)
           l == p[Len(p)]
           e == Append(l, c)
           q == Longer(p, c, S)
<1>1. p \in Seq(B) /\ <<>> \in B /\ Len(p) \in Nat \ {0} /\ Len(p) \in 1 .. Len(p)
  OBVIOUS
<1>2. l \in Seq(A)
  BY <1>1
<1>3. e \in B /\ e = l \o <<c>>
  <2> HIDE DEF l
  <2> QED
    BY <1>2
<1> HIDE DEF B, e, l
<1>4. CASE c \in S
  <2>1. q = Append(p, <<>>)
    BY <1>4 DEF Longer
  <2> HIDE DEF q
  <2>2. Len(q) = Len(p) + 1 /\ q[Len(p) + 1] = <<>> /\ \A k \in 1 .. Len(p) : q[k] = p[k]
    BY <1>1, <2>1
  <2>3. q[Len(p)] = p[Len(p)] /\ \A k \in 1 .. Len(p) - 1 : q[k] = p[k]
    BY <1>1, <2>2
  <2>4. IsLonger(p, q, c, S)
    BY <1>4, <2>2, <2>3 DEF IsLonger
  <2> QED
    BY <2>4 DEF q
<1>5. CASE c \notin S
  <2>1. q = [p EXCEPT ![Len(p)] = e]
    BY <1>5 DEF Longer, e, l
  <2> HIDE DEF q
  <2>2. /\ [p EXCEPT ![Len(p)] = e] \in Seq(B)
        /\ Len([p EXCEPT ![Len(p)] = e]) = Len(p)
        /\ \A j \in 1 .. Len(p) : [p EXCEPT ![Len(p)] = e][j] = IF j = Len(p) THEN e ELSE p[j]
    BY <1>1, <1>3, ExceptSeq
  <2>3. q \in Seq(B) /\ Len(q) = Len(p) /\ \A j \in 1 .. Len(p) : q[j] = IF j = Len(p) THEN e ELSE p[j]
    BY <2>1, <2>2
  <2>4. q[Len(p)] = e
    BY <1>1, <2>3
  <2>5. \A k \in 1 .. Len(p) - 1 : q[k] = p[k]
    BY <1>1, <2>3
  <2>6. IsLonger(p, q, c, S)
    BY <1>3, <1>5, <2>3, <2>4, <2>5 DEF IsLonger, l
  <2> QED
    BY <2>6 DEF q
<1> QED
  BY <1>4, <1>5

LEMMA LongerSeq ==
    ASSUME NEW A, NEW S, NEW p, p \in Seq(Seq(A)) /\ p # <<>>, NEW c, c \in A
    PROVE  Longer(p, c, S) \in Seq(Seq(A)) /\ Longer(p, c, S) # <<>>
<1> DEFINE B == Seq(A)
           e == Append(p[Len(p)], c)
<1>1. p \in Seq(B) /\ <<>> \in B /\ Len(p) \in 1 .. Len(p) /\ e \in B
  <2>1. p \in Seq(B) /\ <<>> \in B /\ Len(p) \in 1 .. Len(p)
    OBVIOUS
  <2>2. p[Len(p)] \in Seq(A)
    BY <2>1
  <2> QED
    BY <2>1, <2>2
<1> HIDE DEF B, e
<1>2. Append(p, <<>>) \in Seq(B) /\ Append(p, <<>>) # <<>>
  BY <1>1
<1>3. [p EXCEPT ![Len(p)] = e] \in Seq(B) /\ Len([p EXCEPT ![Len(p)] = e]) = Len(p)
  BY <1>1, ExceptSeq
<1>4. [p EXCEPT ![Len(p)] = e] # <<>>
  BY <1>1, <1>3
<1> QED
  BY <1>2, <1>3, <1>4 DEF Longer, B, e

\* Pieces character by character.
LEMMA SplitIs ==
    ASSUME NEW A, NEW S
    PROVE  /\ Split(<<>>, S) = <<<<>>>>
           /\ \A s \in Seq(A) : Split(s, S) \in Seq(Seq(A)) /\ Split(s, S) # <<>>
           /\ \A s \in Seq(A), c \in A : Split(Append(s, c), S) = Longer(Split(s, S), c, S)
<1> DEFINE V == Seq(Seq(A)) \ {<<>>}
           v0 == <<<<>>>>
           next == [y \in V \X A |-> Longer(y[1], y[2], S)]
<1>1. v0 \in V
  OBVIOUS
<1>2. \A p \in V, c \in A : Longer(p, c, S) \in V /\ next[<<p, c>>] = Longer(p, c, S)
  <2>1. TAKE p \in V, c \in A
  <2>2. p \in Seq(Seq(A)) /\ p # <<>>
    OBVIOUS
  <2>3. Longer(p, c, S) \in Seq(Seq(A)) /\ Longer(p, c, S) # <<>>
    BY <2>2, LongerSeq
  <2>4. next[<<p, c>>] = Longer(p, c, S)
    <3> DEFINE y0 == <<p, c>>
    <3> HIDE DEF V
    <3>1. y0 \in V \X A /\ y0[1] = p /\ y0[2] = c
      OBVIOUS
    <3> HIDE DEF y0
    <3>2. next[y0] = Longer(y0[1], y0[2], S)
      BY <3>1
    <3> QED
      BY <3>1, <3>2 DEF y0
  <2> QED
    BY <2>3, <2>4
<1>3. next \in [V \X A -> V]
  <2>1. ASSUME NEW y \in V \X A PROVE Longer(y[1], y[2], S) \in V
    <3>1. y[1] \in V /\ y[2] \in A
      OBVIOUS
    <3> HIDE DEF V, next
    <3> QED
      BY <1>2, <3>1
  <2> HIDE DEF V
  <2> QED
    BY <2>1
<1> HIDE DEF V, v0, next
<1>4. ASSUME NEW s \in Seq(A)
      PROVE  \E f : Folds(f, V, v0, next, s) /\ Split(s, S) = f[Len(s)]
  <2> DEFINE L == Len(s)
             pieces[n \in 0 .. Len(s)] ==
                 IF n = 0 THEN <<<<>>>>
                 ELSE LET p == pieces[n - 1] IN
                      IF s[n] \in S THEN Append(p, <<>>) ELSE [p EXCEPT ![Len(p)] = Append(@, s[n])]
             F(f) == [n \in 0 .. L |-> IF n = 0 THEN v0 ELSE Longer(f[n - 1], s[n], S)]
  <2>1. L \in Nat /\ \A i \in 0 .. L - 1 : i \in 0 .. L /\ i + 1 \in 0 .. L /\ i + 1 # 0 /\ (i + 1) - 1 = i
        /\ i + 1 \in 1 .. L /\ s[i + 1] \in A
    OBVIOUS
  <2>2. PICK g : Folds(g, V, v0, next, s)
    BY <1>1, <1>3, FoldThere
  <2>3. g \in [0 .. L -> V] /\ g[0] = v0 /\ \A i \in 0 .. L - 1 : g[i + 1] = Longer(g[i], s[i + 1], S)
    <3>1. g \in [0 .. L -> V] /\ g[0] = v0 /\ \A i \in 0 .. L - 1 : g[i + 1] = next[<<g[i], s[i + 1]>>]
      BY <2>2 DEF Folds
    <3> HIDE DEF L
    <3> QED
      BY <1>2, <2>1, <3>1
  <2>4. g = F(g)
    <3>1. ASSUME NEW n \in 0 .. L PROVE g[n] = IF n = 0 THEN v0 ELSE Longer(g[n - 1], s[n], S)
      <4>1. CASE n = 0
        BY <2>3, <4>1
      <4>2. CASE n # 0
        <5>1. n - 1 \in 0 .. L - 1 /\ (n - 1) + 1 = n
          BY <2>1, <4>2
        <5> HIDE DEF L
        <5> QED
          BY <2>3, <4>2, <5>1
      <4> QED
        BY <4>1, <4>2
    <3>2. g = [n \in 0 .. L |-> g[n]]
      BY <2>3
    <3> HIDE DEF L
    <3> QED
      BY <3>1, <3>2
  <2>5. pieces = F(pieces)
    <3>1. pieces = CHOOSE k : k = F(k)
      BY DEF Longer, v0
    <3> HIDE DEF F, pieces
    <3> QED
      BY <2>4, <3>1
  <2>6. Split(s, S) = pieces[L]
    BY DEF Split
  <2> HIDE DEF pieces
  <2>7. pieces = [n \in 0 .. L |-> pieces[n]] /\ pieces[0] = v0
        /\ \A i \in 0 .. L - 1 : pieces[i + 1] = Longer(pieces[i], s[i + 1], S)
    <3>1. \A n \in 0 .. L : pieces[n] = IF n = 0 THEN v0 ELSE Longer(pieces[n - 1], s[n], S)
      BY <2>5
    <3>2. pieces = [n \in 0 .. L |-> pieces[n]]
      BY <2>5
    <3>3. 0 \in 0 .. L
      BY <2>1
    <3> HIDE DEF L, F
    <3> QED
      BY <2>1, <3>1, <3>2, <3>3
  <2>8. \A i \in 0 .. L - 1 : pieces[i] \in V => pieces[i + 1] = next[<<pieces[i], s[i + 1]>>]
    <3> HIDE DEF L, F
    <3> QED
      BY <1>2, <2>1, <2>7
  <2>9. Folds(pieces, V, v0, next, s)
    <3> HIDE DEF F
    <3> QED
      BY <1>1, <1>3, <2>7, <2>8, FoldIs
  <2> QED
    BY <2>6, <2>9
<1>5. Split(<<>>, S) = <<<<>>>>
  <2>1. <<>> \in Seq(A) /\ Len(<<>>) = 0
    OBVIOUS
  <2>2. PICK f : Folds(f, V, v0, next, <<>>) /\ Split(<<>>, S) = f[Len(<<>>)]
    BY <1>4, <2>1
  <2> QED
    BY <2>1, <2>2 DEF Folds, v0
<1>6. ASSUME NEW s \in Seq(A) PROVE Split(s, S) \in V
  <2>1. PICK f : Folds(f, V, v0, next, s) /\ Split(s, S) = f[Len(s)]
    BY <1>4
  <2>2. Len(s) \in 0 .. Len(s)
    OBVIOUS
  <2> QED
    BY <2>1, <2>2 DEF Folds
<1>7. ASSUME NEW s \in Seq(A), NEW c \in A PROVE Split(Append(s, c), S) = Longer(Split(s, S), c, S)
  <2>1. PICK f : Folds(f, V, v0, next, s) /\ Split(s, S) = f[Len(s)]
    BY <1>4
  <2> DEFINE t == Append(s, c)
  <2>2. t \in Seq(A) /\ Len(t) = Len(s) + 1
    OBVIOUS
  <2>3. PICK g : Folds(g, V, v0, next, t) /\ Split(t, S) = g[Len(t)]
    <3> HIDE DEF t
    <3> QED
      BY <1>4, <2>2
  <2>4. g[Len(s) + 1] = next[<<f[Len(s)], c>>]
    <3>1. IsAppend(t, s, c) /\ s \in Seq(A)
      BY DEF IsAppend
    <3>2. Folds(f, V, v0, next, s)
      BY <2>1
    <3>3. Folds(g, V, v0, next, t)
      BY <2>3
    <3> HIDE DEF t
    <3> QED
      BY ONLY <3>1, <3>2, <3>3, FoldUp
  <2>5. Split(s, S) \in V
    BY <1>6
  <2> HIDE DEF t
  <2> QED
    BY <1>2, <2>1, <2>2, <2>3, <2>4, <2>5 DEF t
<1> QED
  BY <1>5, <1>6, <1>7 DEF V

LEMMA SplitStep ==
    ASSUME NEW A, NEW S, NEW s, s \in Seq(A), NEW c, c \in A
    PROVE  Split(s \o <<c>>, S) = Longer(Split(s, S), c, S) /\ s \o <<c>> \in Seq(A)
<1>1. Append(s, c) = s \o <<c>> /\ s \o <<c>> \in Seq(A)
  BY AppendIs
<1>2. Split(Append(s, c), S) = Longer(Split(s, S), c, S)
  BY SplitIs
<1> QED
  BY <1>1, <1>2

LEMMA CatInduct ==
    ASSUME NEW A, NEW P, <<>> \in P, \A s \in Seq(A), x \in A : s \in P => s \o <<x>> \in P
    PROVE  Seq(A) \subseteq P
<1>1. ASSUME NEW s \in Seq(A), NEW x \in A, s \in P PROVE Append(s, x) \in P
  <2>1. Append(s, x) = s \o <<x>>
    BY AppendIs
  <2> QED
    BY <1>1, <2>1
<1> QED
  BY <1>1, SeqInduct

NoneOf(w, S) == \A i \in 1 .. Len(w) : w[i] \notin S

\* q is p with more behind it, maybe in its last piece.
MoreOf(p, q) ==
    /\ Len(p) <= Len(q)
    /\ \A k \in 1 .. Len(p) - 1 : q[k] = p[k]
    /\ Len(p[Len(p)]) <= Len(q[Len(p)])

\* q is p with t in its last piece.
Lengthened(p, q, t) ==
    /\ Len(q) = Len(p)
    /\ \A k \in 1 .. Len(p) - 1 : q[k] = p[k]
    /\ q[Len(p)] = p[Len(p)] \o t

LEMMA MoreLonger ==
    ASSUME NEW A, NEW S, NEW p, p \in Seq(Seq(A)) /\ p # <<>>, NEW q, q \in Seq(Seq(A)) /\ q # <<>>,
           MoreOf(p, q), NEW c, c \in A
    PROVE  MoreOf(p, Longer(q, c, S))
<1> DEFINE r == Longer(q, c, S)
           n == Len(p)
           m == Len(q)
<1>1. n \in Nat \ {0} /\ m \in Nat \ {0} /\ n <= m /\ \A k \in 1 .. n - 1 : q[k] = p[k]
  BY DEF MoreOf
<1>2. Len(p[n]) <= Len(q[n]) /\ p[n] \in Seq(A) /\ q[n] \in Seq(A) /\ q[m] \in Seq(A)
  <2>1. n \in 1 .. n /\ n \in 1 .. m /\ m \in 1 .. m
    BY <1>1
  <2> QED
    BY <2>1 DEF MoreOf
<1>3. IsLonger(q, r, c, S)
  BY LongerThere
<1> HIDE DEF r
<1>7. /\ c \in S => Len(r) = m + 1 /\ r[m] = q[m]
      /\ c \notin S => Len(r) = m /\ r[m] = q[m] \o <<c>>
      /\ \A k \in 1 .. m - 1 : r[k] = q[k]
  BY <1>3 DEF IsLonger
<1>8. Len(q[m]) \in Nat /\ Len(q[m]) <= Len(r[m])
  <2> DEFINE l == q[m]
  <2>1. l \in Seq(A)
    BY <1>2
  <2> HIDE DEF l
  <2>2. Len(l \o <<c>>) = Len(l) + 1 /\ Len(l) \in Nat
    BY <2>1
  <2>3. r[m] = l \/ r[m] = l \o <<c>>
    BY <1>7 DEF l
  <2> QED
    BY <2>2, <2>3 DEF l
<1> HIDE DEF n, m
<1>4. n <= Len(r)
  BY <1>1, <1>7
<1>5. \A k \in 1 .. n - 1 : r[k] = p[k]
  BY <1>1, <1>7
<1>6. Len(p[n]) <= Len(r[n])
  <2>1. CASE n < m
    <3>1. n \in 1 .. m - 1
      BY <1>1, <2>1
    <3> QED
      BY <1>2, <1>7, <3>1
  <2>2. CASE n = m
    BY <1>2, <1>8, <2>2
  <2> QED
    BY <1>1, <2>1, <2>2
<1> QED
  BY <1>4, <1>5, <1>6 DEF MoreOf, r, n

\* A character more at the end of a part.
LEMMA CatOne ==
    ASSUME NEW A, NEW s, s \in Seq(A), NEW u, u \in Seq(A), NEW x, x \in A
    PROVE  s \o (u \o <<x>>) = (s \o u) \o <<x>> /\ s \o u \in Seq(A) /\ u \o <<x>> \in Seq(A)
<1> DEFINE y == <<x>>
<1>1. y \in Seq(A)
  OBVIOUS
<1> HIDE DEF y
<1>2. s \o (u \o y) = (s \o u) \o y /\ s \o u \in Seq(A) /\ u \o y \in Seq(A)
  BY <1>1, ConcatAssociative
<1> QED
  BY <1>2 DEF y

LEMMA SplitMore ==
    ASSUME NEW A, NEW S, NEW s \in Seq(A), NEW t \in Seq(A)
    PROVE  MoreOf(Split(s, S), Split(s \o t, S))
<1> DEFINE p == Split(s, S)
           P == {u \in Seq(A) : MoreOf(p, Split(s \o u, S))}
<1>1. p \in Seq(Seq(A)) /\ p # <<>>
  BY SplitIs
<1>2. <<>> \in P
  <2>1. MoreOf(p, p)
    <3>1. Len(p) \in Nat /\ p[Len(p)] \in Seq(A)
      BY <1>1
    <3>2. Len(p[Len(p)]) \in Nat
      BY <3>1
    <3> HIDE DEF p
    <3> QED
      BY <3>1, <3>2 DEF MoreOf
  <2>2. s \o <<>> = s /\ <<>> \in Seq(A)
    OBVIOUS
  <2> QED
    BY <2>1, <2>2
<1>3. ASSUME NEW u \in Seq(A), NEW x \in A, u \in P PROVE u \o <<x>> \in P
  <2>1. s \o u \in Seq(A) /\ u \o <<x>> \in Seq(A) /\ s \o (u \o <<x>>) = (s \o u) \o <<x>>
    BY CatOne
  <2> DEFINE q == Split(s \o u, S)
             v == s \o u
  <2>2. q \in Seq(Seq(A)) /\ q # <<>>
    BY <2>1, SplitIs
  <2>3. Split(v \o <<x>>, S) = Longer(Split(v, S), x, S)
    <3>1. v \in Seq(A)
      BY <2>1
    <3> HIDE DEF v
    <3> QED
      BY <3>1, SplitStep
  <2>4. MoreOf(p, q)
    BY <1>3
  <2>5. MoreOf(p, Longer(q, x, S))
    <3> HIDE DEF p, q
    <3> QED
      BY <1>1, <2>2, <2>4, MoreLonger
  <2> QED
    BY <2>1, <2>3, <2>5
<1> HIDE DEF P
<1>4. Seq(A) \subseteq P
  BY <1>2, <1>3, CatInduct
<1> QED
  BY <1>4 DEF P

LEMMA SplitNone ==
    ASSUME NEW A, NEW S, NEW s \in Seq(A), NEW t \in Seq(A), NoneOf(t, S)
    PROVE  Lengthened(Split(s, S), Split(s \o t, S), t)
<1> DEFINE p == Split(s, S)
           n == Len(p)
           P == {u \in Seq(A) : NoneOf(u, S) => Lengthened(p, Split(s \o u, S), u)}
<1>1. p \in Seq(Seq(A)) /\ p # <<>>
  BY SplitIs
<1>2. n \in Nat \ {0} /\ p[n] \in Seq(A)
  <2>1. n \in 1 .. n
    BY <1>1
  <2> QED
    BY <1>1, <2>1
<1>3. <<>> \in P
  <2>1. s \o <<>> = s /\ <<>> \in Seq(A) /\ p[n] \o <<>> = p[n]
    BY <1>2
  <2> HIDE DEF p
  <2>2. Lengthened(p, p, <<>>)
    BY <2>1 DEF Lengthened
  <2> QED
    BY <2>1, <2>2 DEF p
<1>4. ASSUME NEW u \in Seq(A), NEW x \in A, u \in P PROVE u \o <<x>> \in P
  <2>1. s \o u \in Seq(A) /\ u \o <<x>> \in Seq(A) /\ s \o (u \o <<x>>) = (s \o u) \o <<x>>
    BY CatOne
  <2>2. SUFFICES ASSUME NoneOf(u \o <<x>>, S) PROVE Lengthened(p, Split(s \o (u \o <<x>>), S), u \o <<x>>)
    BY <2>1
  <2>3. NoneOf(u, S) /\ x \notin S
    <3>1. Len(u \o <<x>>) = Len(u) + 1 /\ Len(u) \in Nat /\ (u \o <<x>>)[Len(u) + 1] = x
          /\ \A i \in 1 .. Len(u) : (u \o <<x>>)[i] = u[i]
      OBVIOUS
    <3> QED
      BY <2>2, <3>1 DEF NoneOf
  <2> DEFINE q == Split(s \o u, S)
             v == s \o u
             r == Longer(q, x, S)
  <2>4. q \in Seq(Seq(A)) /\ q # <<>> /\ Lengthened(p, q, u)
    BY <1>4, <2>1, <2>3, SplitIs
  <2>5. Split(v \o <<x>>, S) = Longer(Split(v, S), x, S)
    <3>1. v \in Seq(A)
      BY <2>1
    <3> HIDE DEF v
    <3> QED
      BY <3>1, SplitStep
  <2>6. Len(q) = n /\ (\A k \in 1 .. n - 1 : q[k] = p[k]) /\ q[n] = p[n] \o u
    BY <2>4 DEF Lengthened
  <2>7. Len(r) = n /\ (\A k \in 1 .. n - 1 : r[k] = q[k]) /\ r[n] = q[n] \o <<x>>
    <3>1. IsLonger(q, r, x, S)
      BY <2>4, LongerThere
    <3> HIDE DEF q, n, r
    <3> QED
      BY <2>3, <2>6, <3>1 DEF IsLonger
  <2>8. q[n] \o <<x>> = p[n] \o (u \o <<x>>)
    <3> DEFINE a == p[n]
    <3>1. a \in Seq(A) /\ q[n] = a \o u
      BY <1>2, <2>6
    <3> HIDE DEF a
    <3>2. (a \o u) \o <<x>> = a \o (u \o <<x>>)
      BY <3>1, CatOne
    <3> QED
      BY <3>1, <3>2 DEF a
  <2>9. Lengthened(p, r, u \o <<x>>)
    <3> HIDE DEF r, q, p
    <3> QED
      BY <2>6, <2>7, <2>8 DEF Lengthened
  <2> QED
    BY <2>1, <2>5, <2>9
<1> HIDE DEF P
<1>5. Seq(A) \subseteq P
  BY <1>3, <1>4, CatInduct
<1> QED
  BY <1>5 DEF P

LEMMA SplitSep ==
    ASSUME NEW A, NEW S, NEW s \in Seq(A), NEW c \in A, c \in S
    PROVE  Split(s \o <<c>>, S) = Append(Split(s, S), <<>>)
<1>1. Split(s \o <<c>>, S) = Longer(Split(s, S), c, S)
  BY SplitStep
<1> QED
  BY <1>1 DEF Longer

\* The pieces p are n and what comes behind the last separator, of which there is nothing yet.
Read(p, n) == Len(p) = n + 1 /\ p[n + 1] = <<>>

\* q has the first n of p.
SameTo(n, p, q) == \A k \in 1 .. n : q[k] = p[k]

LEMMA PieceTypes ==
    ASSUME NEW A, NEW S, NEW s \in Seq(A)
    PROVE  /\ Split(s, S) \in Seq(Seq(A)) /\ Len(Split(s, S)) \in Nat \ {0}
           /\ \A k \in 1 .. Len(Split(s, S)) : Split(s, S)[k] \in Seq(A)
<1> DEFINE p == Split(s, S)
<1>1. p \in Seq(Seq(A)) /\ p # <<>>
  BY SplitIs
<1> HIDE DEF p
<1>2. Len(p) \in Nat \ {0} /\ \A k \in 1 .. Len(p) : p[k] \in Seq(A)
  BY <1>1
<1> QED
  BY <1>1, <1>2 DEF p

\* A last piece.
LEMMA PieceLast ==
    ASSUME NEW A, NEW S, NEW s, s \in Seq(A), NEW w, w \in Seq(A), NoneOf(w, S),
           NEW n, n \in Nat, Read(Split(s, S), n)
    PROVE  /\ Len(Split(s \o w, S)) = n + 1 /\ Split(s \o w, S)[n + 1] = w
           /\ SameTo(n, Split(s, S), Split(s \o w, S))
<1>1. Lengthened(Split(s, S), Split(s \o w, S), w)
  BY SplitNone
<1>2. <<>> \o w = w
  OBVIOUS
<1> DEFINE p == Split(s, S)
           q == Split(s \o w, S)
<1> HIDE DEF p, q
<1>3. Lengthened(p, q, w) /\ Read(p, n)
  BY <1>1 DEF p, q
<1>4. Len(p) = n + 1 /\ p[n + 1] = <<>> /\ (n + 1) - 1 = n
  BY <1>3 DEF Read
<1>5. Len(q) = n + 1 /\ q[n + 1] = <<>> \o w /\ \A k \in 1 .. n : q[k] = p[k]
  BY <1>3, <1>4 DEF Lengthened
<1>6. Len(q) = n + 1 /\ q[n + 1] = w /\ SameTo(n, p, q)
  BY <1>2, <1>5 DEF SameTo
<1> QED
  BY <1>6 DEF p, q

\* One more.
LEMMA PieceUp ==
    ASSUME NEW A, NEW S, NEW s, s \in Seq(A), NEW w, w \in Seq(A), NoneOf(w, S), NEW c, c \in A, c \in S,
           NEW n, n \in Nat, Read(Split(s, S), n)
    PROVE  /\ Read(Split((s \o w) \o <<c>>, S), n + 1) /\ Split((s \o w) \o <<c>>, S)[n + 1] = w
           /\ SameTo(n, Split(s, S), Split((s \o w) \o <<c>>, S))
<1> DEFINE p == Split(s, S)
           v == s \o w
           q == Split(v, S)
           r == Split(v \o <<c>>, S)
<1>1. v \in Seq(A)
  OBVIOUS
<1>2. Len(q) = n + 1 /\ q[n + 1] = w /\ SameTo(n, p, q)
  BY PieceLast
<1> HIDE DEF v
<1>3. r = Append(q, <<>>) /\ q \in Seq(Seq(A))
  BY <1>1, SplitSep, PieceTypes
<1> HIDE DEF p, q, r
<1>4. Len(r) = Len(q) + 1 /\ r[Len(q) + 1] = <<>> /\ \A k \in 1 .. Len(q) : r[k] = q[k]
  BY <1>3
<1>5. Len(r) = (n + 1) + 1 /\ r[(n + 1) + 1] = <<>> /\ r[n + 1] = w
  <2>1. n + 1 \in 1 .. n + 1
    OBVIOUS
  <2> QED
    BY <1>2, <1>4, <2>1
<1>6. \A k \in 1 .. n : r[k] = p[k]
  BY <1>2, <1>4 DEF SameTo
<1>7. Read(r, n + 1) /\ r[n + 1] = w /\ SameTo(n, p, r)
  BY <1>5, <1>6 DEF Read, SameTo
<1> QED
  BY <1>7 DEF p, q, r, v

\* What is read stays, whatever follows.
LEMMA PieceKept ==
    ASSUME NEW A, NEW S, NEW s, s \in Seq(A), NEW t, t \in Seq(A), NEW n, n \in Nat, Read(Split(s, S), n)
    PROVE  Len(Split(s \o t, S)) >= n + 1 /\ SameTo(n, Split(s, S), Split(s \o t, S))
<1>1. MoreOf(Split(s, S), Split(s \o t, S))
  BY SplitMore
<1> DEFINE p == Split(s, S)
           q == Split(s \o t, S)
<1>2. Len(q) \in Nat
  <2>1. s \o t \in Seq(A)
    OBVIOUS
  <2> QED
    BY <2>1, PieceTypes
<1> HIDE DEF p, q
<1>3. MoreOf(p, q) /\ Read(p, n)
  BY <1>1 DEF p, q
<1>4. Len(p) = n + 1 /\ (n + 1) - 1 = n
  BY <1>3 DEF Read
<1>5. Len(q) >= n + 1 /\ \A k \in 1 .. n : q[k] = p[k]
  BY <1>2, <1>3, <1>4 DEF MoreOf
<1> QED
  BY <1>5 DEF p, q, SameTo

\* A piece that is begun does not become shorter.
LEMMA PieceLong ==
    ASSUME NEW A, NEW S, NEW s, s \in Seq(A), NEW w, w \in Seq(A), NoneOf(w, S), NEW t, t \in Seq(A),
           NEW n, n \in Nat, Read(Split(s, S), n)
    PROVE  /\ Len(Split((s \o w) \o t, S)) >= n + 1 /\ Len(Split((s \o w) \o t, S)[n + 1]) >= Len(w)
           /\ SameTo(n, Split(s, S), Split((s \o w) \o t, S))
<1> DEFINE p == Split(s, S)
           v == s \o w
           q == Split(v, S)
           r == Split(v \o t, S)
<1>1. v \in Seq(A) /\ v \o t \in Seq(A)
  OBVIOUS
<1>2. Len(q) = n + 1 /\ q[n + 1] = w /\ SameTo(n, p, q)
  BY PieceLast
<1> HIDE DEF v
<1>3. MoreOf(q, r)
  BY <1>1, SplitMore
<1>4. Len(r) \in Nat /\ \A k \in 1 .. Len(r) : r[k] \in Seq(A)
  BY <1>1, PieceTypes
<1> HIDE DEF p, q, r
<1>5. Len(q) <= Len(r) /\ Len(q[n + 1]) <= Len(r[n + 1]) /\ \A k \in 1 .. n : r[k] = q[k]
  <2>1. Len(q) = n + 1 /\ (n + 1) - 1 = n
    BY <1>2
  <2> QED
    BY <1>3, <2>1 DEF MoreOf
<1>6. \A k \in 1 .. n : r[k] = p[k]
  BY <1>2, <1>5 DEF SameTo
<1>7. n + 1 <= Len(r) /\ Len(w) <= Len(r[n + 1])
  BY <1>2, <1>5
<1>8. Len(r) >= n + 1 /\ Len(r[n + 1]) >= Len(w)
  <2>1. n + 1 \in 1 .. Len(r)
    BY <1>4, <1>7
  <2>2. Len(r[n + 1]) \in Nat /\ Len(w) \in Nat
    BY <1>4, <2>1
  <2> QED
    BY <1>4, <1>7, <2>2
<1> QED
  BY <1>6, <1>8 DEF p, q, r, v, SameTo

\* A text that ends after a line.
EndsLine(s) == s = <<>> \/ s[Len(s)] = "LF"

\* A line with its end.
LFd(w) == w \o <<"LF">>

LEMMA EndsIs ==
    ASSUME NEW A, "LF" \in A, NEW s \in Seq(A), EndsLine(s)
    PROVE  \E n \in Nat : Read(Split(s, {"LF"}), n)
<1>1. CASE s = <<>>
  <2>1. Read(Split(<<>>, {"LF"}), 0)
    <3>1. Split(<<>>, {"LF"}) = <<<<>>>>
      BY SplitIs
    <3> QED
      BY <3>1 DEF Read
  <2> QED
    BY <1>1, <2>1
<1>2. CASE s # <<>>
  <2> DEFINE k == Len(s) - 1
             a == SubSeq(s, 1, k)
             b == SubSeq(s, k + 1, Len(s))
  <2>1. k \in 0 .. Len(s) /\ k + 1 = Len(s) /\ Len(s) - k = 1 /\ Len(s) \in 1 .. Len(s)
    BY <1>2
  <2>2. a \in Seq(A) /\ b \in Seq(A) /\ Len(b) = 1 /\ s = a \o b
    <3> HIDE DEF k
    <3> QED
      BY <2>1, CutAt
  <2>3. b = <<"LF">>
    <3>1. b[1] = s[Len(s)]
      BY <2>1
    <3>2. s[Len(s)] = "LF"
      BY <1>2 DEF EndsLine
    <3> HIDE DEF b
    <3>3. DOMAIN b = 1 .. 1 /\ b = [i \in 1 .. 1 |-> b[i]]
      BY <2>2
    <3>4. <<"LF">> = [i \in 1 .. 1 |-> "LF"]
      OBVIOUS
    <3>5. \A i \in 1 .. 1 : b[i] = "LF"
      BY <3>1, <3>2
    <3> QED
      BY <3>3, <3>4, <3>5
  <2> HIDE DEF a, b
  <2>4. Split(a \o <<"LF">>, {"LF"}) = Append(Split(a, {"LF"}), <<>>)
    BY <2>2, SplitSep
  <2>5. Split(a, {"LF"}) \in Seq(Seq(A)) /\ Len(Split(a, {"LF"})) \in Nat
    BY <2>2, PieceTypes
  <2> DEFINE p == Split(a, {"LF"})
  <2> HIDE DEF p
  <2>6. Read(Append(p, <<>>), Len(p))
    BY <2>5 DEF Read, p
  <2> QED
    BY <2>2, <2>3, <2>4, <2>5, <2>6 DEF p
<1> QED
  BY <1>1, <1>2

\* Lines one by one.
LEMMA LineUp ==
    ASSUME NEW A, "LF" \in A, NEW s, s \in Seq(A), EndsLine(s), NEW w, w \in Seq(A), NoneOf(w, {"LF"})
    PROVE  /\ ListLines(s) \in Seq(Seq(A)) /\ ListLines(s \o LFd(w)) = ListLines(s) \o <<w>>
           /\ s \o LFd(w) \in Seq(A) /\ EndsLine(s \o LFd(w))
<1> DEFINE p == Split(s, {"LF"})
           v == s \o w
           q == Split(v \o <<"LF">>, {"LF"})
<1>1. PICK n \in Nat : Read(p, n)
  BY EndsIs
<1>2. s \o LFd(w) = v \o <<"LF">> /\ v \in Seq(A) /\ v \o <<"LF">> \in Seq(A)
  <2>1. <<"LF">> \in Seq(A)
    OBVIOUS
  <2> DEFINE y == <<"LF">>
  <2> HIDE DEF y
  <2>2. s \o (w \o y) = (s \o w) \o y /\ s \o w \in Seq(A) /\ (s \o w) \o y \in Seq(A)
    BY <2>1, ConcatAssociative DEF y
  <2> QED
    BY <2>2 DEF LFd, y
<1>3. Read(q, n + 1) /\ q[n + 1] = w /\ SameTo(n, p, q)
  BY <1>1, PieceUp
<1>4. p \in Seq(Seq(A)) /\ q \in Seq(Seq(A))
  <2> HIDE DEF v
  <2> QED
    BY <1>2, PieceTypes
<1>5. EndsLine(v \o <<"LF">>)
  <2> HIDE DEF v
  <2>1. Len(v \o <<"LF">>) = Len(v) + 1 /\ (v \o <<"LF">>)[Len(v) + 1] = "LF"
    BY <1>2
  <2> QED
    BY <2>1 DEF EndsLine
<1> HIDE DEF p, q
<1>6. Front(q) = Append(Front(p), w) /\ Front(p) \in Seq(Seq(A))
  <2>1. Len(p) = n + 1 /\ Len(q) = (n + 1) + 1
    BY <1>1, <1>3 DEF Read
  <2>2. Front(p) = SubSeq(p, 1, n) /\ Front(q) = SubSeq(q, 1, n + 1)
    BY <2>1 DEF Front
  <2> DEFINE B == Seq(A)
             f == SubSeq(p, 1, n)
             g == SubSeq(q, 1, n + 1)
  <2>3. w \in B /\ p \in Seq(B) /\ q \in Seq(B)
    BY <1>4
  <2> HIDE DEF B
  <2>4. f \in Seq(B) /\ Len(f) = n /\ \A k \in 1 .. n : f[k] = p[k]
    BY <2>1, <2>3
  <2>5. g \in Seq(B) /\ Len(g) = n + 1 /\ \A k \in 1 .. n + 1 : g[k] = q[k]
    BY <2>1, <2>3
  <2> HIDE DEF f, g
  <2> DEFINE h == Append(f, w)
  <2>6. h \in Seq(B) /\ Len(h) = n + 1 /\ h[n + 1] = w /\ \A k \in 1 .. n : h[k] = f[k]
    BY <2>3, <2>4
  <2> HIDE DEF h
  <2>7. \A k \in 1 .. n + 1 : g[k] = h[k]
    <3>1. TAKE k \in 1 .. n + 1
    <3>2. CASE k = n + 1
      BY <1>3, <2>5, <2>6, <3>2
    <3>3. CASE k # n + 1
      <4>1. k \in 1 .. n
        BY <3>3
      <4> QED
        BY <1>3, <2>4, <2>5, <2>6, <4>1 DEF SameTo
    <3> QED
      BY <3>2, <3>3
  <2>8. g = h
    BY <2>5, <2>6, <2>7
  <2> QED
    BY <2>2, <2>4, <2>8 DEF B, f, g, h
<1>7. Front(q) = Front(p) \o <<w>> /\ Front(p) \in Seq(Seq(A))
  <2> DEFINE B == Seq(A)
             f == Front(p)
  <2>1. f \in Seq(B) /\ w \in B /\ Front(q) = Append(f, w)
    BY <1>6
  <2> HIDE DEF B, f
  <2>2. Append(f, w) = f \o <<w>>
    BY <2>1, AppendIs
  <2> QED
    BY <2>1, <2>2 DEF B, f
<1> QED
  BY <1>2, <1>5, <1>7 DEF ListLines, p, q

\* A line of a text is one, whatever follows.
LEMMA LineThere ==
    ASSUME NEW A, "LF" \in A, NEW s, s \in Seq(A), EndsLine(s), NEW w, w \in Seq(A), NoneOf(w, {"LF"}),
           NEW t, t \in Seq(A)
    PROVE  w \in Range(ListLines((s \o LFd(w)) \o t))
<1> DEFINE p == Split(s, {"LF"})
           u == s \o LFd(w)
           q == Split(u, {"LF"})
           r == Split(u \o t, {"LF"})
<1>1. PICK n \in Nat : Read(p, n)
  BY EndsIs
<1>2. u \in Seq(A) /\ u \o t \in Seq(A)
  <2>1. u \in Seq(A)
    BY LineUp
  <2> HIDE DEF u
  <2> QED
    BY <2>1
<1>3. u = (s \o w) \o <<"LF">>
  <2>1. <<"LF">> \in Seq(A)
    OBVIOUS
  <2> DEFINE y == <<"LF">>
  <2> HIDE DEF y
  <2>2. s \o (w \o y) = (s \o w) \o y
    BY <2>1, ConcatAssociative DEF y
  <2> QED
    BY <2>2 DEF LFd, y
<1>4. Read(q, n + 1) /\ q[n + 1] = w
  <2> DEFINE v == s \o w
             z == Split(v \o <<"LF">>, {"LF"})
  <2>1. Read(z, n + 1) /\ z[n + 1] = w /\ SameTo(n, p, z)
    BY <1>1, PieceUp
  <2>2. q = z
    <3> HIDE DEF u
    <3> QED
      BY <1>3
  <2> HIDE DEF z, q
  <2> QED
    BY <2>1, <2>2
<1> HIDE DEF u
<1>5. Len(r) >= (n + 1) + 1 /\ SameTo(n + 1, q, r)
  <2> DEFINE m == n + 1
  <2>1. m \in Nat /\ Read(q, m) /\ t \in Seq(A)
    BY <1>4
  <2> HIDE DEF m
  <2>2. Len(r) >= m + 1 /\ SameTo(m, q, r)
    BY <1>2, <2>1, PieceKept
  <2> QED
    BY <2>2 DEF m
<1>6. r \in Seq(Seq(A)) /\ Len(r) \in Nat
  BY <1>2, PieceTypes
<1> HIDE DEF p, q, r
<1>7. r[n + 1] = w
  <2>1. n + 1 \in 1 .. n + 1
    OBVIOUS
  <2> QED
    BY <1>4, <1>5, <2>1 DEF SameTo
<1> DEFINE l == SubSeq(r, 1, Len(r) - 1)
           B == Seq(A)
<1>8. n + 1 \in DOMAIN l /\ l[n + 1] = w
  <2>1. r \in Seq(B)
    BY <1>6
  <2> HIDE DEF B
  <2>2. n + 1 \in 1 .. Len(r) - 1
    BY <1>5, <1>6
  <2> QED
    BY <1>6, <1>7, <2>1, <2>2
<1>9. w \in Range(l)
  <2> HIDE DEF l
  <2> QED
    BY <1>8 DEF Range
<1> QED
  BY <1>9 DEF ListLines, Front, l, r, u

Maps(m, B, F) == m \in [B -> F]

\* What m makes of each element.
LEMMA PiecesThere ==
    ASSUME NEW B, NEW F, NEW m, Maps(m, B, F), NEW s, s \in Seq(B)
    PROVE  Pieces(m, s) \in Seq(F) /\ Len(Pieces(m, s)) = Len(s)
<1> DEFINE p == [i \in DOMAIN s |-> m[s[i]]]
<1>1. Len(s) \in Nat /\ DOMAIN s = 1 .. Len(s) /\ \A i \in 1 .. Len(s) : s[i] \in B
  OBVIOUS
<1>2. \A i \in 1 .. Len(s) : m[s[i]] \in F
  BY <1>1 DEF Maps
<1>3. p \in Seq(F) /\ Len(p) = Len(s)
  BY <1>1, <1>2
<1> QED
  BY <1>3 DEF Pieces

LEMMA PiecesCat ==
    ASSUME NEW B, NEW F, NEW m, Maps(m, B, F), NEW s, s \in Seq(B), NEW x, x \in B,
           NEW t, IsAppend(t, s, x)
    PROVE  IsAppend(Pieces(m, t), Pieces(m, s), m[x])
<1> DEFINE y == m[x]
           p == Pieces(m, s)
           q == Pieces(m, t)
           L == Len(s)
<1>1. t \in Seq(B) /\ Len(t) = L + 1 /\ t[L + 1] = x /\ L \in Nat /\ \A i \in 1 .. L : t[i] = s[i]
  BY DEF IsAppend
<1>2. DOMAIN s = 1 .. L /\ DOMAIN t = 1 .. L + 1
  BY <1>1
<1>3. y \in F
  BY DEF Maps
<1>4. p \in Seq(F) /\ Len(p) = L
  BY PiecesThere
<1>5. q \in Seq(F) /\ Len(q) = L + 1
  BY <1>1, PiecesThere
<1>6. \A i \in 1 .. L : p[i] = m[s[i]]
  BY <1>2 DEF Pieces
<1>7. \A i \in 1 .. L + 1 : q[i] = m[t[i]]
  BY <1>2 DEF Pieces
<1> DEFINE r == Append(p, y)
<1> HIDE DEF p, q, y, L
<1>8. r \in Seq(F) /\ Len(r) = L + 1 /\ r[L + 1] = y /\ \A i \in 1 .. L : r[i] = p[i]
  BY <1>1, <1>3, <1>4
<1> HIDE DEF r
<1>9. \A i \in 1 .. L + 1 : q[i] = r[i]
  <2>1. TAKE i \in 1 .. L + 1
  <2>2. CASE i = L + 1
    BY <1>1, <1>7, <1>8, <2>2 DEF y
  <2>3. CASE i # L + 1
    <3>1. i \in 1 .. L
      BY <1>1, <2>3
    <3> QED
      BY <1>1, <1>6, <1>7, <1>8, <3>1
  <2> QED
    BY <2>2, <2>3
<1>10. q = r
  BY <1>5, <1>8, <1>9
<1> QED
  BY <1>10 DEF q, r, p, y, IsAppend

LEMMA FlattenCat ==
    ASSUME NEW E, NEW p, p \in Seq(Seq(E)), NEW y, y \in Seq(E), NEW q, IsAppend(q, p, y)
    PROVE  FlattenSeq(q) = FlattenSeq(p) \o y
<1>1. FlattenSeq(Append(p, y)) = FlattenSeq(p) \o y
  BY FlattenIs
<1>2. q = Append(p, y)
  BY DEF IsAppend
<1> QED
  BY <1>1, <1>2

\* What is put together of that.
LEMMA MapFlat ==
    ASSUME NEW B, NEW E, NEW m, Maps(m, B, Seq(E))
    PROVE  /\ FlattenSeq(Pieces(m, <<>>)) = <<>>
           /\ \A s \in Seq(B) : FlattenSeq(Pieces(m, s)) \in Seq(E)
           /\ \A s \in Seq(B), x \in B : \A t :
                 IsAppend(t, s, x) => FlattenSeq(Pieces(m, t)) = FlattenSeq(Pieces(m, s)) \o m[x]
<1> DEFINE F == Seq(E)
<1>1. Pieces(m, <<>>) = <<>> /\ FlattenSeq(<<>>) = <<>>
  BY FlattenIs DEF Pieces
<1>2. ASSUME NEW s \in Seq(B) PROVE Pieces(m, s) \in Seq(F) /\ FlattenSeq(Pieces(m, s)) \in Seq(E)
  <2>1. Maps(m, B, F)
    OBVIOUS
  <2>2. Pieces(m, s) \in Seq(F)
    <3> HIDE DEF F
    <3> QED
      BY <2>1, PiecesThere
  <2> QED
    BY <2>2, FlattenIs
<1>3. ASSUME NEW s \in Seq(B), NEW x \in B, NEW t, IsAppend(t, s, x)
      PROVE FlattenSeq(Pieces(m, t)) = FlattenSeq(Pieces(m, s)) \o m[x]
  <2> DEFINE p == Pieces(m, s)
             q == Pieces(m, t)
             y == m[x]
  <2>1. p \in Seq(F) /\ y \in F /\ Maps(m, B, F)
    BY <1>2 DEF Maps
  <2>2. IsAppend(q, p, y)
    <3> HIDE DEF F
    <3> QED
      BY <1>3, <2>1, PiecesCat
  <2> HIDE DEF p, q, y
  <2>3. FlattenSeq(q) = FlattenSeq(p) \o y
    BY <2>1, <2>2, FlattenCat
  <2> QED
    BY <2>3 DEF p, q, y
<1> QED
  BY <1>1, <1>2, <1>3

LEMMA MapUp ==
    ASSUME NEW B, NEW E, NEW m, Maps(m, B, Seq(E)), NEW s, s \in Seq(B), NEW x, x \in B,
           NEW t, IsAppend(t, s, x)
    PROVE  FlattenSeq(Pieces(m, t)) = FlattenSeq(Pieces(m, s)) \o m[x] /\ FlattenSeq(Pieces(m, s)) \in Seq(E)
  BY MapFlat

Hows == {"over", "hdr", "response", "active", "newsgroups", "capabilities"}

\* A line has at most one entry.
LEMMA OneEntry ==
    ASSUME NEW l, l.how \in Hows, NEW w
    PROVE  EntriesOf(l, w) = <<>> \/ \E e : EntriesOf(l, w) = <<e>>
<1>1. ASSUME NEW e PROVE Yields(<<e>>).entries = <<e>>
  BY DEF Yields
<1>2. Yields(<<>>).entries = <<>> /\ Malformed.entries = <<>>
  BY DEF Yields, Malformed
<1>3. CASE l.how = "over"
  <2>1. OverviewOf(w) = Malformed \/ \E e : OverviewOf(w) = Yields(<<e>>)
    BY DEF OverviewOf
  <2> QED
    BY <1>1, <1>2, <1>3, <2>1 DEF EntriesOf
<1>4. CASE l.how # "over"
  <2>1. EntriesOf(l, w) = Understood(l, w).entries
    BY <1>4 DEF EntriesOf
  <2>2. \/ Understood(l, w) = Malformed \/ Understood(l, w) = Yields(<<>>)
        \/ \E e : Understood(l, w) = Yields(<<e>>)
    <3>1. CASE l.how = "hdr"
      <4>1. Understood(l, w) = HdrLine(w)
        BY <3>1 DEF Understood
      <4> QED
        BY <4>1 DEF HdrLine
    <3>2. CASE l.how = "response"
      <4>1. Understood(l, w) = ResponseLine(LineOf(w))
        BY <3>2 DEF Understood
      <4> QED
        BY <4>1 DEF ResponseLine
    <3>3. CASE l.how = "active"
      <4>1. Understood(l, w) = ActiveLine(l, w)
        BY <3>3 DEF Understood
      <4> QED
        BY <4>1 DEF ActiveLine
    <3>4. CASE l.how = "newsgroups"
      <4>1. Understood(l, w) = NewsgroupLine(w)
        BY <3>4 DEF Understood
      <4> QED
        BY <4>1 DEF NewsgroupLine
    <3>5. CASE l.how = "capabilities"
      <4>1. Understood(l, w) = CapabilityLine(w)
        BY <3>5 DEF Understood
      <4>2. \E c : CapabilityLine(w) = Yields(c) /\ (c = <<>> \/ \E e : c = <<e>>)
        BY DEF CapabilityLine
      <4> QED
        BY <4>1, <4>2
    <3> QED
      BY <1>4, <3>1, <3>2, <3>3, <3>4, <3>5 DEF Hows
  <2> QED
    BY <1>1, <1>2, <2>1, <2>2
<1> QED
  BY <1>3, <1>4

\* What is listed with the entries e of one line more.
Taken(l, had, e) ==
    IF l.how \notin {"over", "hdr"} THEN had \o e
    ELSE IF e # <<>> /\ AskedFor(l, e[1].id) /\ Len(had) < l.max THEN Append(had, e[1]) ELSE had

\* The beginning of a list.
AtMost(l, all) == IF l.how \notin {"over", "hdr"} \/ Len(all) < l.max THEN all ELSE SubSeq(all, 1, l.max)

LEMMA TakenIs ==
    ASSUME NEW l, l.max \in Nat, NEW E, NEW all, all \in Seq(E), NEW e, e \in Seq(E),
           e = <<>> \/ \E x : e = <<x>>
    PROVE  AtMost(l, all \o Chosen(l, e)) = Taken(l, AtMost(l, all), e)
<1>1. all \o <<>> = all
  OBVIOUS
<1>2. CASE l.how \notin {"over", "hdr"}
  BY <1>2 DEF AtMost, Chosen, Taken
<1>3. CASE l.how \in {"over", "hdr"} /\ (e = <<>> \/ ~AskedFor(l, e[1].id))
  <2>1. Chosen(l, e) = <<>>
    BY <1>3 DEF Chosen
  <2> QED
    BY <1>1, <1>3, <2>1 DEF Taken
<1>4. CASE l.how \in {"over", "hdr"} /\ e # <<>> /\ AskedFor(l, e[1].id)
  <2> DEFINE n == l.max
             x == e[1]
             b == all \o <<x>>
             a == SubSeq(all, 1, n)
  <2>1. e = <<x>> /\ x \in E
    <3>1. PICK y : e = <<y>>
      BY <1>4
    <3> QED
      BY <3>1
  <2>2. Chosen(l, e) = <<x>>
    BY <1>4, <2>1 DEF Chosen
  <2> HIDE DEF x
  <2>3. b \in Seq(E) /\ Len(b) = Len(all) + 1 /\ b = Append(all, x) /\ \A i \in 1 .. Len(all) : b[i] = all[i]
    BY <2>1
  <2>4. Len(all) \in Nat
    OBVIOUS
  <2>5. CASE Len(all) < n
    <3>1. AtMost(l, all) = all /\ Taken(l, all, e) = Append(all, x)
      BY <1>4, <2>5 DEF AtMost, Taken, x
    <3>2. AtMost(l, b) = b
      <4> HIDE DEF b
      <4>1. CASE Len(b) < n
        BY <4>1 DEF AtMost
      <4>2. CASE ~(Len(b) < n)
        <5>1. Len(b) = n
          BY <2>3, <2>4, <2>5, <4>2
        <5>2. SubSeq(b, 1, Len(b)) = b
          BY <2>3
        <5> QED
          BY <1>4, <4>2, <5>1, <5>2 DEF AtMost
      <4> QED
        BY <4>1, <4>2
    <3> QED
      BY <2>2, <2>3, <3>1, <3>2
  <2>6. CASE ~(Len(all) < n)
    <3>1. AtMost(l, all) = a
      BY <1>4, <2>6 DEF AtMost
    <3>2. Len(a) = n
      BY <2>4, <2>6
    <3>3. Taken(l, a, e) = a
      <4> HIDE DEF a
      <4> QED
        BY <1>4, <3>2 DEF Taken
    <3>4. AtMost(l, b) = SubSeq(b, 1, n)
      <4>1. ~(Len(b) < n)
        BY <2>3, <2>4, <2>6
      <4> HIDE DEF b
      <4> QED
        BY <1>4, <4>1 DEF AtMost
    <3>5. SubSeq(b, 1, n) = a
      <4> HIDE DEF b, n
      <4>1. n \in Nat /\ n <= Len(all)
        BY <2>4, <2>6 DEF n
      <4>2. \A i \in 1 .. n : b[i] = all[i]
        BY <2>3, <2>4, <4>1
      <4> QED
        BY <2>3, <2>4, <4>1, <4>2
    <3> QED
      BY <2>2, <3>1, <3>3, <3>4, <3>5
  <2> QED
    BY <2>5, <2>6
<1> QED
  BY <1>2, <1>3, <1>4

\* A line more.
LEMMA LineSaid ==
    ASSUME NEW A, "LF" \in A, NEW l, l.how \in Hows, l.max \in Nat,
           NEW s, s \in Seq(A), EndsLine(s), NEW w, w \in Seq(A), NoneOf(w, {"LF"})
    PROVE  /\ WhatIsListed(l, ListLines(s \o LFd(w))) = Taken(l, WhatIsListed(l, ListLines(s)), EntriesOf(l, w))
           /\ \E E : WhatIsListed(l, ListLines(s)) \in Seq(E)
<1> DEFINE B == Seq(A)
           E == {EntriesOf(l, x)[1] : x \in B}
           m == [x \in B |-> Chosen(l, EntriesOf(l, x))]
<1>1. ASSUME NEW x \in B
      PROVE  /\ EntriesOf(l, x) \in Seq(E) /\ (EntriesOf(l, x) = <<>> \/ \E e : EntriesOf(l, x) = <<e>>)
             /\ Chosen(l, EntriesOf(l, x)) \in Seq(E)
  <2> DEFINE y == EntriesOf(l, x)
  <2>1. y = <<>> \/ \E e : y = <<e>>
    BY OneEntry
  <2>2. y[1] \in E
    OBVIOUS
  <2> HIDE DEF y, E
  <2>3. y \in Seq(E) /\ <<>> \in Seq(E)
    <3>1. <<>> \in Seq(E) /\ \A e : e \in E => <<e>> \in Seq(E)
      OBVIOUS
    <3>2. CASE y = <<>>
      BY <3>1, <3>2
    <3>3. CASE \E e : y = <<e>>
      <4>1. PICK e : y = <<e>>
        BY <3>3
      <4>2. y[1] = e
        BY <4>1
      <4> QED
        BY <2>2, <3>1, <4>1, <4>2
    <3> QED
      BY <2>1, <3>1, <3>2, <3>3
  <2>4. Chosen(l, y) = y \/ Chosen(l, y) = <<>>
    BY DEF Chosen
  <2> QED
    BY <2>1, <2>3, <2>4 DEF y
<1> HIDE DEF E
<1>2. Maps(m, B, Seq(E))
  BY <1>1 DEF Maps
<1>3. ASSUME NEW t, t \in Seq(B)
      PROVE  WhatIsListed(l, t) = AtMost(l, FlattenSeq(Pieces(m, t)))
  <2>1. \A k \in DOMAIN t : t[k] \in B
    BY <1>3
  <2>2. [k \in DOMAIN t |-> Chosen(l, EntriesOf(l, t[k]))] = Pieces(m, t)
    <3> HIDE DEF B
    <3> QED
      BY <2>1 DEF Pieces
  <2> HIDE DEF m
  <2> QED
    BY <2>2 DEF WhatIsListed, AtMost
<1> DEFINE p == ListLines(s)
           q == ListLines(s \o LFd(w))
           all == FlattenSeq(Pieces(m, p))
<1>4. p \in Seq(B) /\ q = p \o <<w>> /\ w \in B
  BY LineUp
<1> HIDE DEF p, q, m, B
<1>5. q \in Seq(B)
  BY <1>4
<1>6. FlattenSeq(Pieces(m, q)) = all \o m[w] /\ all \in Seq(E)
  <2>1. IsAppend(q, p, w)
    <3>1. Append(p, w) = p \o <<w>>
      BY <1>4, AppendIs
    <3> QED
      BY <1>4, <3>1 DEF IsAppend
  <2>2. p \in Seq(B) /\ w \in B
    BY <1>4
  <2>3. FlattenSeq(Pieces(m, q)) = FlattenSeq(Pieces(m, p)) \o m[w] /\ FlattenSeq(Pieces(m, p)) \in Seq(E)
    BY ONLY <1>2, <2>1, <2>2, MapUp
  <2> QED
    BY <2>3
<1>7. m[w] = Chosen(l, EntriesOf(l, w))
  BY <1>4 DEF m
<1>8. FlattenSeq(Pieces(m, q)) = all \o Chosen(l, EntriesOf(l, w))
  BY <1>4, <1>6, <1>7
<1> DEFINE e == EntriesOf(l, w)
<1>9. e \in Seq(E) /\ (e = <<>> \/ \E x : e = <<x>>)
  BY <1>1, <1>4
<1> HIDE DEF all, e
<1>12. AtMost(l, all) \in Seq(E)
  <2>1. all \in Seq(E) /\ Len(all) \in Nat
    BY <1>6
  <2>2. CASE l.how \notin {"over", "hdr"} \/ Len(all) < l.max
    BY <2>1, <2>2 DEF AtMost
  <2>3. CASE ~(l.how \notin {"over", "hdr"} \/ Len(all) < l.max)
    <3>1. l.max <= Len(all)
      BY <2>1, <2>3
    <3>2. SubSeq(all, 1, l.max) \in Seq(E)
      BY <2>1, <3>1
    <3> QED
      BY <2>3, <3>2 DEF AtMost
  <2> QED
    BY <2>2, <2>3
<1>10. AtMost(l, all \o Chosen(l, e)) = Taken(l, AtMost(l, all), e)
  BY <1>6, <1>9, TakenIs
<1>11. WhatIsListed(l, q) = AtMost(l, FlattenSeq(Pieces(m, q))) /\ WhatIsListed(l, p) = AtMost(l, all)
  BY <1>3, <1>4, <1>5 DEF all
<1> QED
  BY <1>8, <1>10, <1>11, <1>12 DEF p, q, e

\* Nothing is listed of nothing.
LEMMA NothingSaid ==
    ASSUME NEW l, l.max \in Nat
    PROVE  WhatIsListed(l, ListLines(<<>>)) = <<>>
<1>1. ListLines(<<>>) = <<>>
  <2>1. Split(<<>>, {"LF"}) = <<<<>>>>
    BY SplitIs
  <2>2. SubSeq(<<<<>>>>, 1, 0) = <<>>
    OBVIOUS
  <2>3. Len(<<<<>>>>) - 1 = 0
    OBVIOUS
  <2>4. ListLines(<<>>) = SubSeq(<<<<>>>>, 1, Len(<<<<>>>>) - 1)
    BY <2>1 DEF ListLines, Front
  <2> QED
    BY <2>2, <2>3, <2>4
<1>2. [k \in DOMAIN <<>> |-> Chosen(l, EntriesOf(l, <<>>[k]))] = <<>>
  OBVIOUS
<1>3. FlattenSeq([k \in DOMAIN <<>> |-> Chosen(l, EntriesOf(l, <<>>[k]))]) = <<>>
  BY <1>2, FlattenIs
<1> DEFINE all == FlattenSeq([k \in DOMAIN <<>> |-> Chosen(l, EntriesOf(l, <<>>[k]))])
<1>4. WhatIsListed(l, <<>>)
      = IF l.how \notin {"over", "hdr"} \/ Len(all) < l.max THEN all ELSE SubSeq(all, 1, l.max)
  BY DEF WhatIsListed
<1>5. SubSeq(<<>>, 1, 0) = <<>> /\ Len(<<>>) = 0
  OBVIOUS
<1>6. all = <<>>
  BY <1>3
<1> HIDE DEF all
<1>7. l.max = 0 \/ 0 < l.max
  OBVIOUS
<1> QED
  BY <1>1, <1>4, <1>5, <1>6, <1>7

LEMMA MinIs ==
    ASSUME NEW S, S \subseteq Nat, S # {}
    PROVE  Min(S) \in S /\ \A y \in S : Min(S) <= y
<1>1. \E x \in S : \A y \in S : x <= y
  BY HasLeast
<1> QED
  BY <1>1 DEF Min

LEMMA CatIs ==
    ASSUME NEW A, NEW x, x \in Seq(A), NEW y, y \in Seq(A)
    PROVE  /\ x \o y \in Seq(A) /\ Len(x \o y) = Len(x) + Len(y)
           /\ \A i \in 1 .. Len(x) + Len(y) : (x \o y)[i] = IF i <= Len(x) THEN x[i] ELSE y[i - Len(x)]
OBVIOUS

\* A beginning of a text, and what is between two places of it.
LEMMA PrefixUp ==
    ASSUME NEW A, NEW T, T \in Seq(A), NEW a \in Nat, NEW b \in Nat, a <= b, b <= Len(T)
    PROVE  /\ SubSeq(T, 1, b) = SubSeq(T, 1, a) \o SubSeq(T, a + 1, b)
           /\ SubSeq(T, 1, a) \in Seq(A) /\ SubSeq(T, a + 1, b) \in Seq(A)
           /\ Len(SubSeq(T, a + 1, b)) = b - a
           /\ \A i \in 1 .. b - a : SubSeq(T, a + 1, b)[i] = T[a + i]
<1> DEFINE x == SubSeq(T, 1, a)
           y == SubSeq(T, a + 1, b)
           z == SubSeq(T, 1, b)
           c == x \o y
<1>1. x \in Seq(A) /\ Len(x) = a /\ \A i \in 1 .. a : x[i] = T[i]
  OBVIOUS
<1>2. y \in Seq(A) /\ Len(y) = b - a /\ \A i \in 1 .. b - a : y[i] = T[a + i]
  OBVIOUS
<1>3. z \in Seq(A) /\ Len(z) = b /\ \A i \in 1 .. b : z[i] = T[i]
  OBVIOUS
<1> HIDE DEF x, y, z
<1>4. c \in Seq(A) /\ Len(c) = b /\ \A i \in 1 .. b : c[i] = IF i <= a THEN x[i] ELSE y[i - a]
  <2>1. c \in Seq(A) /\ Len(c) = Len(x) + Len(y)
        /\ \A i \in 1 .. Len(x) + Len(y) : c[i] = IF i <= Len(x) THEN x[i] ELSE y[i - Len(x)]
    <3>1. x \in Seq(A) /\ y \in Seq(A)
      BY <1>1, <1>2
    <3> QED
      BY ONLY <3>1, CatIs
  <2>2. Len(x) + Len(y) = b
    BY <1>1, <1>2
  <2> QED
    BY <1>1, <2>1, <2>2
<1> HIDE DEF c
<1>5. ASSUME NEW i \in 1 .. b PROVE c[i] = z[i]
  <2>1. CASE i <= a
    BY <1>1, <1>3, <1>4, <2>1
  <2>2. CASE i > a
    <3>1. i - a \in 1 .. b - a /\ a + (i - a) = i
      BY <2>2
    <3> QED
      BY <1>2, <1>3, <1>4, <2>2, <3>1
  <2> QED
    BY <2>1, <2>2
<1>6. c = z
  BY <1>3, <1>4, <1>5
<1> QED
  BY <1>1, <1>2, <1>6 DEF x, y, z, c

LEMMA OnePlace ==
    ASSUME NEW A, NEW T, T \in Seq(A), NEW e \in Nat, 1 <= e, e <= Len(T)
    PROVE  SubSeq(T, 1, e) = SubSeq(T, 1, e - 1) \o <<T[e]>> /\ T[e] \in A
<1> DEFINE a == e - 1
           y == SubSeq(T, a + 1, e)
<1>1. a \in Nat /\ a <= e /\ a + 1 = e /\ e - a = 1 /\ e \in 1 .. Len(T)
  OBVIOUS
<1> HIDE DEF a
<1>2. SubSeq(T, 1, e) = SubSeq(T, 1, a) \o y /\ y \in Seq(A) /\ Len(y) = 1 /\ \A i \in 1 .. 1 : y[i] = T[a + i]
  BY <1>1, PrefixUp
<1> HIDE DEF y
<1>3. y[1] = T[e]
  BY <1>1, <1>2
<1>4. y = <<y[1]>>
  BY <1>2
<1>5. SubSeq(T, 1, e) = SubSeq(T, 1, a) \o <<T[e]>>
  BY <1>2, <1>3, <1>4
<1>6. T[e] \in A
  BY <1>1
<1> QED
  BY <1>5, <1>6 DEF a

-----------------------------------------------------------------------------
(***************************************************************************)
(* What a read gives: w and the member of S behind it, more than there is  *)
(* room for, or what is left.                                              *)
(***************************************************************************)

Done == SubSeq(Text, 1, pos)

GotOne(A, S, room, brought) ==
    /\ brought.err = "nil" /\ brought.pos \in 1 .. Len(Text)
    /\ brought.s \in Seq(A) /\ NoneOf(brought.s, S) /\ Len(brought.s) <= room
    /\ Text[brought.pos] \in S /\ Text[brought.pos] \in A
    /\ SubSeq(Text, 1, brought.pos) = (Done \o brought.s) \o <<Text[brought.pos]>>

GotLarge(A, S, room, brought) ==
    /\ brought.err = "too large" /\ brought.s = <<>> /\ brought.pos \in 1 .. Len(Text)
    /\ \E w \in Seq(A) : NoneOf(w, S) /\ Len(w) = room + 1 /\ SubSeq(Text, 1, brought.pos) = Done \o w

GotEnd(A, S, brought) ==
    /\ brought.err = AtTextEnd /\ brought.s = <<>> /\ brought.pos = Len(Text)
    /\ \E w \in Seq(A) : NoneOf(w, S) /\ Text = Done \o w

TextOK(A) == Text \in Seq(A) /\ pos \in 0 .. Len(Text)

LEMMA NextIs ==
    ASSUME NEW A, TextOK(A), NEW S
    PROVE  \/ NextOf(S) = 0 /\ \A i \in pos + 1 .. Len(Text) : Text[i] \notin S
           \/ /\ NextOf(S) \in pos + 1 .. Len(Text) /\ Text[NextOf(S)] \in S
              /\ \A i \in pos + 1 .. NextOf(S) - 1 : Text[i] \notin S
<1> DEFINE at == {i \in pos + 1 .. Len(Text) : Text[i] \in S}
<1>1. NextOf(S) = IF at = {} THEN 0 ELSE Min(at)
  BY DEF NextOf
<1>2. pos \in Nat /\ Len(Text) \in Nat
  BY DEF TextOK
<1>3. CASE at = {}
  <2>1. NextOf(S) = 0
    BY <1>1, <1>3
  <2> QED
    BY <1>3, <2>1
<1>4. CASE at # {}
  <2>1. NextOf(S) = Min(at)
    BY <1>1, <1>4
  <2>2. at \subseteq Nat
    BY <1>2
  <2>3. Min(at) \in at /\ \A y \in at : Min(at) <= y
    <3> HIDE DEF at
    <3> QED
      BY <1>4, <2>2, MinIs
  <2> DEFINE e == NextOf(S)
  <2>4. e \in at /\ \A y \in at : e <= y
    BY <2>1, <2>3
  <2> HIDE DEF e
  <2>5. \A i \in pos + 1 .. e - 1 : Text[i] \notin S
    <3>1. SUFFICES ASSUME NEW i \in pos + 1 .. e - 1, Text[i] \in S PROVE FALSE
      OBVIOUS
    <3>2. e \in Nat /\ e <= Len(Text)
      BY <1>2, <2>4
    <3>3. i \in at
      BY <1>2, <3>1, <3>2
    <3> QED
      BY <1>2, <2>4, <3>2, <3>3
  <2> QED
    BY <2>4, <2>5 DEF e
<1> QED
  BY <1>3, <1>4

\* What is between the place where one reads and another has no member of S.
LEMMA NoneBetween ==
    ASSUME NEW A, NEW S, NEW T, T \in Seq(A), NEW a \in Nat, NEW b \in Nat, a <= b, b <= Len(T),
           \A i \in a + 1 .. b : T[i] \notin S
    PROVE  NoneOf(SubSeq(T, a + 1, b), S)
<1> DEFINE y == SubSeq(T, a + 1, b)
<1>1. Len(y) = b - a /\ \A i \in 1 .. b - a : y[i] = T[a + i]
  BY PrefixUp
<1> HIDE DEF y
<1>2. \A i \in 1 .. b - a : a + i \in a + 1 .. b
  OBVIOUS
<1> QED
  BY <1>1, <1>2 DEF NoneOf, y

LEMMA ReadIs ==
    ASSUME NEW A, TextOK(A), NEW S, NEW room \in Nat, NEW brought, brought = ReadTo(S, room)
    PROVE  GotOne(A, S, room, brought) \/ GotLarge(A, S, room, brought) \/ GotEnd(A, S, brought)
<1> DEFINE e == NextOf(S)
           b == IF e = 0 THEN Len(Text) ELSE e - 1
           s == SubSeq(Text, pos + 1, b)
           T == Text
<1>1. T \in Seq(A) /\ pos \in Nat /\ Len(T) \in Nat /\ pos <= Len(T)
  BY DEF TextOK
<1>2. brought = IF Len(s) > room THEN [err |-> "too large", s |-> <<>>, pos |-> pos + room + 1]
            ELSE IF e = 0 THEN [err |-> AtTextEnd, s |-> <<>>, pos |-> Len(T)]
            ELSE [err |-> "nil", s |-> s, pos |-> e]
  BY DEF ReadTo
<1>3. \/ e = 0 /\ \A i \in pos + 1 .. Len(T) : T[i] \notin S
      \/ e \in pos + 1 .. Len(T) /\ T[e] \in S /\ \A i \in pos + 1 .. e - 1 : T[i] \notin S
  BY NextIs
<1>4. b \in Nat /\ pos <= b /\ b <= Len(T) /\ \A i \in pos + 1 .. b : T[i] \notin S
  <2> HIDE DEF e
  <2>1. CASE e = 0
    <3>1. b = Len(T)
      BY <2>1
    <3> HIDE DEF b, T
    <3> QED
      BY <1>1, <1>3, <2>1, <3>1
  <2>2. CASE e # 0
    <3>1. b = e - 1
      BY <2>2
    <3> HIDE DEF b, T
    <3> QED
      BY <1>1, <1>3, <2>2, <3>1
  <2> QED
    BY <2>1, <2>2
<1> HIDE DEF T, e
<1> DEFINE d == SubSeq(T, 1, pos)
<1>5. d = Done
  BY DEF T, Done
<1>6. s = SubSeq(T, pos + 1, b)
  BY DEF T
<1>7. b = Len(T) \/ (e # 0 /\ b = e - 1)
  BY DEF T
<1> HIDE DEF b, s
<1>8. /\ SubSeq(T, 1, b) = d \o s /\ d \in Seq(A) /\ s \in Seq(A) /\ Len(s) = b - pos
  BY <1>1, <1>4, <1>6, PrefixUp
<1>9. NoneOf(s, S)
  BY <1>1, <1>4, <1>6, NoneBetween
<1>10. CASE Len(s) > room
  <2> DEFINE c == pos + room + 1
             w == SubSeq(T, pos + 1, c)
  <2>1. c \in Nat /\ pos <= c /\ c <= b /\ c <= Len(T) /\ c - pos = room + 1 /\ 1 <= c
    BY <1>1, <1>4, <1>8, <1>10
  <2>2. brought.err = "too large" /\ brought.s = <<>> /\ brought.pos = c
    <3>1. brought = [err |-> "too large", s |-> <<>>, pos |-> c]
      BY <1>2, <1>10
    <3> HIDE DEF c
    <3> QED
      BY ONLY <3>1
  <2> HIDE DEF c
  <2>3. SubSeq(T, 1, c) = d \o w /\ w \in Seq(A) /\ Len(w) = room + 1
    <3>1. T \in Seq(A) /\ pos \in Nat /\ c \in Nat /\ pos <= c /\ c <= Len(T)
      BY <1>1, <2>1
    <3>2. /\ SubSeq(T, 1, c) = SubSeq(T, 1, pos) \o SubSeq(T, pos + 1, c)
          /\ SubSeq(T, pos + 1, c) \in Seq(A) /\ Len(SubSeq(T, pos + 1, c)) = c - pos
      BY ONLY <3>1, PrefixUp
    <3> QED
      BY <2>1, <3>2 DEF d, w
  <2>4. \A i \in pos + 1 .. c : T[i] \notin S
    BY <1>1, <1>4, <2>1
  <2>5. NoneOf(w, S)
    BY <1>1, <2>1, <2>4, NoneBetween
  <2>6. c \in 1 .. Len(T)
    BY <1>1, <2>1
  <2> HIDE DEF w
  <2>7. \E x \in Seq(A) : NoneOf(x, S) /\ Len(x) = room + 1 /\ SubSeq(T, 1, c) = d \o x
    BY <2>3, <2>5
  <2> QED
    BY <1>5, <2>2, <2>6, <2>7 DEF GotLarge, T
<1>11. CASE ~(Len(s) > room) /\ e = 0
  <2>1. brought.err = AtTextEnd /\ brought.s = <<>> /\ brought.pos = Len(T)
    BY <1>2, <1>11
  <2>2. b = Len(T) /\ SubSeq(T, 1, Len(T)) = T
    BY <1>1, <1>7, <1>11
  <2>3. T = d \o s
    BY <1>8, <2>2
  <2> HIDE DEF d
  <2> QED
    BY <1>5, <1>8, <1>9, <2>1, <2>3 DEF GotEnd, T
<1>12. CASE ~(Len(s) > room) /\ e # 0
  <2>1. brought.err = "nil" /\ brought.s = s /\ brought.pos = e
    BY <1>2, <1>12
  <2>2. e \in Nat /\ 1 <= e /\ e <= Len(T) /\ e \in 1 .. Len(T) /\ T[e] \in S
    BY <1>1, <1>3, <1>12
  <2>3. b = e - 1
    BY <1>3, <1>12 DEF b
  <2>4. SubSeq(T, 1, e) = SubSeq(T, 1, e - 1) \o <<T[e]>> /\ T[e] \in A
    BY <1>1, <2>2, OnePlace
  <2>5. SubSeq(T, 1, e) = (d \o s) \o <<T[e]>>
    BY <1>8, <2>3, <2>4
  <2>6. Len(s) <= room
    <3>1. Len(s) \in Nat
      BY <1>8
    <3> QED
      BY <1>12, <3>1
  <2> HIDE DEF d
  <2> QED
    BY <1>5, <1>8, <1>9, <2>1, <2>2, <2>4, <2>5, <2>6 DEF GotOne, T
<1> QED
  BY <1>10, <1>11, <1>12

Fields(s) == Split(s, {"TAB"})

\* A beginning of a line of which n fields have been read.
MidLine(part, n) == NoneOf(part, {"LF"}) /\ Read(Fields(part), n)

LEMMA NoneCat ==
    ASSUME NEW A, NEW S, NEW x, x \in Seq(A), NoneOf(x, S), NEW y, y \in Seq(A), NoneOf(y, S)
    PROVE  NoneOf(x \o y, S) /\ x \o y \in Seq(A)
<1> DEFINE z == x \o y
<1>1. z \in Seq(A) /\ Len(z) = Len(x) + Len(y)
      /\ \A i \in 1 .. Len(x) + Len(y) : z[i] = IF i <= Len(x) THEN x[i] ELSE y[i - Len(x)]
  BY ONLY x \in Seq(A), y \in Seq(A), CatIs
<1> HIDE DEF z
<1>2. ASSUME NEW i \in 1 .. Len(z) PROVE z[i] \notin S
  <2>1. Len(x) \in Nat /\ Len(y) \in Nat
    OBVIOUS
  <2>2. CASE i <= Len(x)
    <3>1. i \in 1 .. Len(x)
      BY <1>1, <2>1, <2>2
    <3> QED
      BY <1>1, <2>1, <2>2, <3>1 DEF NoneOf
  <2>3. CASE ~(i <= Len(x))
    <3>1. i - Len(x) \in 1 .. Len(y)
      BY <1>1, <2>1, <2>3
    <3> QED
      BY <1>1, <2>1, <2>3, <3>1 DEF NoneOf
  <2> QED
    BY <2>2, <2>3
<1> QED
  BY <1>1, <1>2 DEF NoneOf, z

LEMMA NoneLess ==
    ASSUME NEW w, NoneOf(w, {"TAB", "LF"})
    PROVE  NoneOf(w, {"TAB"}) /\ NoneOf(w, {"LF"})
BY DEF NoneOf

Bytes(A) == "LF" \in A /\ "TAB" \in A

LEMMA TookTab ==
    ASSUME NEW A, Bytes(A), NEW part, part \in Seq(A), NEW n, n \in Nat, MidLine(part, n),
           NEW w, w \in Seq(A), NoneOf(w, {"TAB", "LF"})
    PROVE  /\ (part \o w) \o <<"TAB">> \in Seq(A) /\ MidLine((part \o w) \o <<"TAB">>, n + 1)
           /\ Fields((part \o w) \o <<"TAB">>)[n + 1] = w
           /\ SameTo(n, Fields(part), Fields((part \o w) \o <<"TAB">>))
<1> DEFINE v == part \o w
           t == <<"TAB">>
           z == v \o t
<1>1. NoneOf(w, {"TAB"}) /\ NoneOf(w, {"LF"})
  BY NoneLess
<1>2. NoneOf(v, {"LF"}) /\ v \in Seq(A)
  BY <1>1, NoneCat DEF MidLine
<1>3. t \in Seq(A) /\ NoneOf(t, {"LF"})
  BY DEF Bytes, NoneOf
<1>4. NoneOf(z, {"LF"}) /\ z \in Seq(A)
  <2> HIDE DEF v, t
  <2> QED
    BY <1>2, <1>3, NoneCat
<1>5. /\ Read(Split(z, {"TAB"}), n + 1) /\ Split(z, {"TAB"})[n + 1] = w
      /\ SameTo(n, Split(part, {"TAB"}), Split(z, {"TAB"}))
  <2> DEFINE S == {"TAB"}
             c == "TAB"
  <2>1. c \in A /\ c \in S /\ NoneOf(w, S) /\ Read(Split(part, S), n) /\ z = (part \o w) \o <<c>>
    BY <1>1 DEF Bytes, MidLine, Fields
  <2> HIDE DEF S, c, z
  <2>2. /\ Read(Split((part \o w) \o <<c>>, S), n + 1) /\ Split((part \o w) \o <<c>>, S)[n + 1] = w
        /\ SameTo(n, Split(part, S), Split((part \o w) \o <<c>>, S))
    BY <2>1, PieceUp
  <2> QED
    BY <2>1, <2>2 DEF S
<1> HIDE DEF z
<1>6. /\ z \in Seq(A) /\ MidLine(z, n + 1) /\ Fields(z)[n + 1] = w
      /\ SameTo(n, Fields(part), Fields(z))
  BY <1>4, <1>5 DEF MidLine, Fields
<1> QED
  BY <1>6 DEF z

LEMMA TookLine ==
    ASSUME NEW A, Bytes(A), NEW part, part \in Seq(A), NEW n, n \in Nat, MidLine(part, n),
           NEW w, w \in Seq(A), NoneOf(w, {"TAB", "LF"})
    PROVE  /\ part \o w \in Seq(A) /\ NoneOf(part \o w, {"LF"})
           /\ Len(Fields(part \o w)) = n + 1 /\ Fields(part \o w)[n + 1] = w
           /\ SameTo(n, Fields(part), Fields(part \o w))
<1> DEFINE S == {"TAB"}
<1>1. NoneOf(w, S) /\ NoneOf(w, {"LF"})
  BY NoneLess
<1>2. NoneOf(part \o w, {"LF"}) /\ part \o w \in Seq(A)
  BY <1>1, NoneCat DEF MidLine
<1>3. Read(Split(part, S), n)
  BY DEF MidLine, Fields
<1> HIDE DEF S
<1>4. /\ Len(Split(part \o w, S)) = n + 1 /\ Split(part \o w, S)[n + 1] = w
      /\ SameTo(n, Split(part, S), Split(part \o w, S))
  BY <1>1, <1>3, PieceLast
<1> QED
  BY <1>2, <1>4 DEF S, Fields

LEMMA TookMuch ==
    ASSUME NEW A, Bytes(A), NEW part, part \in Seq(A), NEW n, n \in Nat, MidLine(part, n),
           NEW w, w \in Seq(A), NoneOf(w, {"TAB", "LF"}), NEW v, v \in Seq(A)
    PROVE  /\ Len(Fields((part \o w) \o v)) >= n + 1 /\ Len(Fields((part \o w) \o v)[n + 1]) >= Len(w)
           /\ SameTo(n, Fields(part), Fields((part \o w) \o v))
<1> DEFINE S == {"TAB"}
<1>1. NoneOf(w, S)
  BY NoneLess
<1>2. Read(Split(part, S), n)
  BY DEF MidLine, Fields
<1> HIDE DEF S
<1>3. /\ Len(Split((part \o w) \o v, S)) >= n + 1 /\ Len(Split((part \o w) \o v, S)[n + 1]) >= Len(w)
      /\ SameTo(n, Split(part, S), Split((part \o w) \o v, S))
  BY <1>1, <1>2, PieceLong
<1> QED
  BY <1>3 DEF S, Fields

LEMMA TookStays ==
    ASSUME NEW A, NEW part, part \in Seq(A), NEW n, n \in Nat, MidLine(part, n), NEW v, v \in Seq(A)
    PROVE  Len(Fields(part \o v)) >= n + 1 /\ SameTo(n, Fields(part), Fields(part \o v))
<1> DEFINE S == {"TAB"}
<1>1. Read(Split(part, S), n)
  BY DEF MidLine, Fields
<1> HIDE DEF S
<1>2. Len(Split(part \o v, S)) >= n + 1 /\ SameTo(n, Split(part, S), Split(part \o v, S))
  BY <1>1, PieceKept
<1> QED
  BY <1>2 DEF S, Fields

\* The same, of one text behind another.
Cat(a, b) == a \o b

Tabbed(x) == x \o <<"TAB">>

LEMMA Assoc ==
    ASSUME NEW A, NEW a, a \in Seq(A), NEW b, b \in Seq(A), NEW c, c \in Seq(A)
    PROVE  Cat(Cat(a, b), c) = Cat(a, Cat(b, c)) /\ Cat(b, c) \in Seq(A) /\ Cat(a, b) \in Seq(A)
BY ConcatAssociative DEF Cat

LEMMA ReadTab ==
    ASSUME NEW A, Bytes(A), NEW part, part \in Seq(A), NEW n, n \in Nat, MidLine(part, n),
           NEW w, w \in Seq(A), NoneOf(w, {"TAB", "LF"}), NEW z, z = Tabbed(Cat(part, w))
    PROVE  z \in Seq(A) /\ MidLine(z, n + 1) /\ Fields(z)[n + 1] = w /\ SameTo(n, Fields(part), Fields(z))
<1> DEFINE y == (part \o w) \o <<"TAB">>
<1>1. y \in Seq(A) /\ MidLine(y, n + 1) /\ Fields(y)[n + 1] = w /\ SameTo(n, Fields(part), Fields(y))
  BY TookTab
<1>2. z = y
  BY DEF Cat, Tabbed
<1> HIDE DEF y
<1> QED
  BY <1>1, <1>2

LEMMA ReadLine ==
    ASSUME NEW A, Bytes(A), NEW part, part \in Seq(A), NEW n, n \in Nat, MidLine(part, n),
           NEW w, w \in Seq(A), NoneOf(w, {"TAB", "LF"}), NEW z, z = Cat(part, w)
    PROVE  /\ z \in Seq(A) /\ NoneOf(z, {"LF"}) /\ Len(Fields(z)) = n + 1 /\ Fields(z)[n + 1] = w
           /\ SameTo(n, Fields(part), Fields(z))
<1> DEFINE y == part \o w
<1>1. /\ y \in Seq(A) /\ NoneOf(y, {"LF"}) /\ Len(Fields(y)) = n + 1 /\ Fields(y)[n + 1] = w
      /\ SameTo(n, Fields(part), Fields(y))
  BY TookLine
<1>2. z = y
  BY DEF Cat
<1> HIDE DEF y
<1> QED
  BY <1>1, <1>2

LEMMA ReadMuch ==
    ASSUME NEW A, Bytes(A), NEW part, part \in Seq(A), NEW n, n \in Nat, MidLine(part, n),
           NEW w, w \in Seq(A), NoneOf(w, {"TAB", "LF"}), NEW v, v \in Seq(A),
           NEW z, z = Cat(Cat(part, w), v)
    PROVE  /\ Len(Fields(z)) >= n + 1 /\ Len(Fields(z)[n + 1]) >= Len(w)
           /\ SameTo(n, Fields(part), Fields(z))
BY TookMuch DEF Cat

LEMMA ReadStays ==
    ASSUME NEW A, NEW part, part \in Seq(A), NEW n, n \in Nat, MidLine(part, n), NEW v, v \in Seq(A),
           NEW z, z = Cat(part, v)
    PROVE  Len(Fields(z)) >= n + 1 /\ SameTo(n, Fields(part), Fields(z))
BY TookStays DEF Cat

LEMMA NothingRead == MidLine(<<>>, 0)
<1>1. Split(<<>>, {"TAB"}) = <<<<>>>>
  BY SplitIs
<1> QED
  BY <1>1 DEF MidLine, Fields, Read, NoneOf

-----------------------------------------------------------------------------
(***************************************************************************)
(* Overviews.                                                              *)
(***************************************************************************)

\* Why a line is none.
NotOne(f) ==
    \/ Len(f) < 5 \/ ~IsNumber(Trimmed(f[1])) \/ ~IsId(Trimmed(f[5]))
    \/ Len(f[1]) > InbufLen \/ Len(f[1]) + Len(f[5]) > InbufLen
    \/ Len(f) > 5 /\ Len(f[1]) + Len(f[5]) + Len(f[6]) > InbufLen

\* The sixth field, if there is one.
Sixth(f) == IF Len(f) > 5 THEN f[6] ELSE <<>>

LEMMA FieldLengths ==
    ASSUME NEW A, NEW s, s \in Seq(A)
    PROVE  /\ Len(Fields(s)) \in Nat \ {0} /\ InbufLen \in Nat
           /\ \A k \in 1 .. Len(Fields(s)) : Fields(s)[k] \in Seq(A) /\ Len(Fields(s)[k]) \in Nat
<1> DEFINE f == Split(s, {"TAB"})
<1>1. Len(f) \in Nat \ {0} /\ \A k \in 1 .. Len(f) : f[k] \in Seq(A)
  BY PieceTypes
<1> HIDE DEF f
<1>2. \A k \in 1 .. Len(f) : f[k] \in Seq(A) /\ Len(f[k]) \in Nat
  <2>1. TAKE k \in 1 .. Len(f)
  <2> DEFINE x == f[k]
  <2>2. x \in Seq(A)
    BY <1>1
  <2> HIDE DEF x
  <2>3. Len(x) \in Nat
    BY <2>2
  <2> QED
    BY <2>2, <2>3 DEF x
<1> QED
  BY <1>1, <1>2, InbufAssumption DEF f, Fields, InbufAssumption

LEMMA NoOverview ==
    ASSUME NEW A, NEW s, s \in Seq(A), NotOne(Fields(s))
    PROVE  OverviewOf(s).entries = <<>>
<1> DEFINE f == Fields(s)
           refs == IF Len(f) > 5 THEN f[6] ELSE <<>>
           fits == /\ Len(f) > 4 /\ IsNumber(Trimmed(f[1])) /\ IsId(Trimmed(f[5]))
                   /\ Len(f[1]) + Len(f[5]) + Len(refs) <= InbufLen
<1>1. Malformed.entries = <<>>
  BY DEF Malformed
<1>2. ~fits => OverviewOf(s) = Malformed
  BY DEF OverviewOf, Fields
<1>3. ~fits
  <2>1. SUFFICES ASSUME fits PROVE FALSE
    OBVIOUS
  <2>2. /\ Len(f) \in Nat \ {0} /\ InbufLen \in Nat
        /\ \A k \in 1 .. Len(f) : Len(f[k]) \in Nat
    BY FieldLengths
  <2>6. NotOne(f)
    OBVIOUS
  <2> HIDE DEF f
  <2>3. Len(f[1]) \in Nat /\ Len(f[5]) \in Nat
    BY <2>1, <2>2
  <2> DEFINE a == Len(f[1])
             b == Len(f[5])
             c == Len(refs)
  <2>4. c \in Nat /\ (Len(f) > 5 => c = Len(f[6]))
    <3>1. CASE Len(f) > 5
      BY <2>2, <3>1
    <3>2. CASE ~(Len(f) > 5)
      BY <3>2
    <3> QED
      BY <3>1, <3>2
  <2>5. Len(f) > 4 /\ IsNumber(Trimmed(f[1])) /\ IsId(Trimmed(f[5])) /\ a + b + c <= InbufLen
    BY <2>1
  <2>7. \/ Len(f) < 5 \/ ~IsNumber(Trimmed(f[1])) \/ ~IsId(Trimmed(f[5]))
        \/ a > InbufLen \/ a + b > InbufLen \/ (Len(f) > 5 /\ a + b + c > InbufLen)
    BY <2>4, <2>6 DEF NotOne
  <2>8. a \in Nat /\ b \in Nat
    BY <2>3
  <2> HIDE DEF a, b, c
  <2> QED
    BY <2>2, <2>4, <2>5, <2>7, <2>8
<1> HIDE DEF fits
<1> QED
  BY <1>1, <1>2, <1>3

LEMMA AnOverview ==
    ASSUME NEW A, NEW s, s \in Seq(A), NEW f, f = Fields(s), Len(f) > 4, IsNumber(Trimmed(f[1])), IsId(Trimmed(f[5])),
           Len(f[1]) + Len(f[5]) + Len(Sixth(f)) <= InbufLen
    PROVE  OverviewOf(s).entries = <<[id |-> Number(Trimmed(f[1])), msgid |-> Trimmed(f[5]),
                                      ref |-> FirstReference(Sixth(f))]>>
<1>1. OverviewOf(s) = Yields(<<[id |-> Number(Trimmed(f[1])), msgid |-> Trimmed(f[5]),
                                      ref |-> FirstReference(Sixth(f))]>>)
  BY DEF OverviewOf, Fields, Sixth
<1> QED
  BY <1>1 DEF Yields

\* There is no reference in nothing.
LEMMA NoReference == FirstReference(<<>>) = <<>>
<1> DEFINE p == <<<<>>>>
<1>1. Split(<<>>, Blanks) = p
  BY SplitIs
<1>2. DOMAIN p = 1 .. 1 /\ p[1] = <<>>
  OBVIOUS
<1>3. [k \in DOMAIN p |-> IF p[k] = <<>> THEN <<>> ELSE <<p[k]>>] = p
  <2> DEFINE q == [k \in DOMAIN p |-> IF p[k] = <<>> THEN <<>> ELSE <<p[k]>>]
  <2>1. DOMAIN q = 1 .. 1 /\ q[1] = <<>>
    BY <1>2
  <2>2. p = [k \in 1 .. 1 |-> p[k]] /\ q = [k \in 1 .. 1 |-> q[k]]
    BY <1>2
  <2> HIDE DEF q, p
  <2>3. \A k \in 1 .. 1 : p[k] = q[k]
    BY <1>2, <2>1
  <2> QED
    BY <2>2, <2>3 DEF q
<1>4. FlattenSeq(p) = <<>>
  <2> DEFINE e == <<>>
  <2>1. <<>> \in Seq(Seq({})) /\ <<>> \in Seq({}) /\ Append(<<>>, <<>>) = p
    OBVIOUS
  <2>2. FlattenSeq(Append(<<>>, <<>>)) = FlattenSeq(<<>>) \o <<>> /\ FlattenSeq(<<>>) = <<>>
    BY <2>1, FlattenIs
  <2>3. <<>> \o <<>> = <<>>
    OBVIOUS
  <2> HIDE DEF p
  <2> QED
    BY <2>1, <2>2, <2>3
<1> HIDE DEF p
<1>5. Words(<<>>) = <<>>
  BY <1>1, <1>3, <1>4 DEF Words, OtherThan
<1>6. {i \in DOMAIN <<>> : IsId(<<>>[i])} = {}
  OBVIOUS
<1> QED
  BY <1>5, <1>6 DEF FirstReference

LineWith(field, fill, nomore, err, id, msgid, ref) ==
    [field |-> field, fill |-> fill, nomore |-> nomore, err |-> err, id |-> id, msgid |-> msgid, ref |-> ref]

No == FALSE

Yes == TRUE

LEMMA SetFill ==
    ASSUME NEW l, NEW f, NEW u, NEW n, NEW e, NEW i, NEW m, NEW r, NEW x, l = LineWith(f, u, n, e, i, m, r)
    PROVE  [l EXCEPT !.fill = x] = LineWith(f, x, n, e, i, m, r)
BY DEF LineWith

LEMMA SetNomore ==
    ASSUME NEW l, NEW f, NEW u, NEW n, NEW e, NEW i, NEW m, NEW r, NEW x, l = LineWith(f, u, n, e, i, m, r)
    PROVE  [l EXCEPT !.nomore = x] = LineWith(f, u, x, e, i, m, r)
BY DEF LineWith

LEMMA SetErr ==
    ASSUME NEW l, NEW f, NEW u, NEW n, NEW e, NEW i, NEW m, NEW r, NEW x, l = LineWith(f, u, n, e, i, m, r)
    PROVE  [l EXCEPT !.err = x] = LineWith(f, u, n, x, i, m, r)
BY DEF LineWith

LEMMA AteIs ==
    ASSUME NEW f, NEW u, NEW n, NEW e, NEW i, NEW m, NEW r, line = LineWith(f, u, n, e, i, m, r),
           NEW brought, NEW x, x = u + Len(brought.s), NEW y, y = brought.err, NEW c,
           c = (brought.err = "nil" /\ Text[brought.pos] = "LF"), NEW l, l = Ate(brought)
    PROVE  l = LineWith(f, x, c, y, i, m, r)
<1> DEFINE l1 == [line EXCEPT !.fill = x]
           l2 == [l1 EXCEPT !.err = y]
           l3 == [l2 EXCEPT !.nomore = c]
<1>1. l = [line EXCEPT !.fill = x, !.err = y, !.nomore = c]
  <2>1. line.fill = u
    BY DEF LineWith
  <2> QED
    BY <2>1 DEF Ate
<1>2. [line EXCEPT !.fill = x, !.err = y, !.nomore = c] = l3
  BY ONLY TRUE
<1>3. l1 = LineWith(f, x, n, e, i, m, r)
  BY SetFill
<1> HIDE DEF l1
<1>4. l2 = LineWith(f, x, n, y, i, m, r)
  BY <1>3, SetErr
<1> HIDE DEF l2
<1>5. l3 = LineWith(f, x, c, y, i, m, r)
  BY <1>4, SetNomore
<1> QED
  BY <1>1, <1>2, <1>5

LEMMA AteTab ==
    ASSUME NEW f, NEW u, NEW n, NEW e, NEW i, NEW m, NEW r, line = LineWith(f, u, n, e, i, m, r),
           NEW brought, NEW x, x = u + Len(brought.s), NEW l, l = Ate(brought), brought.err = "nil", Text[brought.pos] = "TAB"
    PROVE  l = LineWith(f, x, No, "nil", i, m, r)
<1> DEFINE c == No
           y == "nil"
<1>1. c = (brought.err = "nil" /\ Text[brought.pos] = "LF") /\ y = brought.err
  BY DEF No, Yes
<1> HIDE DEF c, y
<1>2. l = LineWith(f, x, c, y, i, m, r)
  BY <1>1, AteIs
<1> QED
  BY <1>2 DEF c, y

LEMMA AteLF ==
    ASSUME NEW f, NEW u, NEW n, NEW e, NEW i, NEW m, NEW r, line = LineWith(f, u, n, e, i, m, r),
           NEW brought, NEW x, x = u + Len(brought.s), NEW l, l = Ate(brought), brought.err = "nil", Text[brought.pos] = "LF"
    PROVE  l = LineWith(f, x, Yes, "nil", i, m, r)
<1> DEFINE c == Yes
           y == "nil"
<1>1. c = (brought.err = "nil" /\ Text[brought.pos] = "LF") /\ y = brought.err
  BY DEF No, Yes
<1> HIDE DEF c, y
<1>2. l = LineWith(f, x, c, y, i, m, r)
  BY <1>1, AteIs
<1> QED
  BY <1>2 DEF c, y

LEMMA AteNone ==
    ASSUME NEW f, NEW u, NEW n, NEW e, NEW i, NEW m, NEW r, line = LineWith(f, u, n, e, i, m, r),
           NEW brought, NEW x, x = u + Len(brought.s), NEW l, l = Ate(brought), NEW y, y = brought.err, y # "nil"
    PROVE  l = LineWith(f, x, No, y, i, m, r)
<1> DEFINE c == No
<1>1. c = (brought.err = "nil" /\ Text[brought.pos] = "LF")
  BY DEF No, Yes
<1> HIDE DEF c
<1>2. l = LineWith(f, x, c, y, i, m, r)
  BY <1>1, AteIs
<1> QED
  BY <1>2 DEF c

-----------------------------------------------------------------------------
(***************************************************************************)
(* What becomes of a line when a field of it is read.                      *)
(***************************************************************************)

ListOK(A, li) ==
    /\ Bytes(A) /\ li.how \in Hows /\ li.max \in Nat /\ li.cut \in BOOLEAN
    /\ ~li.cut => EndsLine(li.text)

\* All that has been consumed, with part more.
Consumed(before, part, p) == SubSeq(Text, 1, p) = Cat(before, part)

EatTab(A, before, part, n, room, brought) ==
    LET q == Tabbed(Cat(part, brought.s)) IN
    /\ brought.err = "nil" /\ Text[brought.pos] = "TAB" /\ q \in Seq(A) /\ Consumed(before, q, brought.pos)
    /\ Len(brought.s) <= room /\ Len(brought.s) \in Nat
    /\ MidLine(q, n + 1) /\ Fields(q)[n + 1] = brought.s /\ SameTo(n, Fields(part), Fields(q))

EatLF(A, before, part, n, room, brought) ==
    LET x == Cat(part, brought.s) IN
    /\ brought.err = "nil" /\ Text[brought.pos] = "LF" /\ x \in Seq(A) /\ Consumed(before, LFd(x), brought.pos)
    /\ Len(brought.s) <= room /\ Len(brought.s) \in Nat /\ NoneOf(x, {"LF"})
    /\ Len(Fields(x)) = n + 1 /\ Fields(x)[n + 1] = brought.s /\ SameTo(n, Fields(part), Fields(x))

EatLarge(A, before, part, n, room, brought) ==
    /\ brought.err = "too large" /\ brought.s = <<>>
    /\ \E q \in Seq(A) :
          /\ Consumed(before, q, brought.pos) /\ q # <<>> /\ NoneOf(q, {"LF"})
          /\ \A v \in Seq(A) :
                /\ Len(Fields(Cat(q, v))) >= n + 1 /\ Len(Fields(Cat(q, v))[n + 1]) > room
                /\ SameTo(n, Fields(part), Fields(Cat(q, v)))

EatBroken(A, before, brought) ==
    /\ brought.err = "broken" /\ brought.s = <<>> /\ list.cut
    /\ \E q \in Seq(A) : Consumed(before, q, brought.pos)

EatEOF(before, part, brought) ==
    /\ brought.err = "EOF" /\ brought.s = <<>> /\ ~list.cut /\ brought.pos = Len(Text)
    /\ part = <<>> /\ Consumed(before, <<>>, brought.pos)

\* A text that ends after a line does not end within one.
LEMMA EndsNone ==
    ASSUME NEW A, NEW b, b \in Seq(A), NEW v, v \in Seq(A), NoneOf(v, {"LF"}), EndsLine(b \o v)
    PROVE  v = <<>>
<1>1. SUFFICES ASSUME v # <<>> PROVE FALSE
  OBVIOUS
<1> DEFINE z == b \o v
<1>2. Len(b) \in Nat /\ Len(v) \in Nat \ {0}
  BY <1>1
<1>3. Len(z) = Len(b) + Len(v) /\ \A i \in 1 .. Len(b) + Len(v) : z[i] = IF i <= Len(b) THEN b[i] ELSE v[i - Len(b)]
  BY ONLY b \in Seq(A), v \in Seq(A), CatIs
<1>4. EndsLine(z)
  OBVIOUS
<1> HIDE DEF z
<1>5. z[Len(z)] = v[Len(v)]
  BY <1>2, <1>3
<1>6. z # <<>>
  BY <1>2, <1>3
<1>7. v[Len(v)] = "LF"
  BY <1>4, <1>5, <1>6 DEF EndsLine
<1>8. Len(v) \in 1 .. Len(v)
  BY <1>2
<1> QED
  BY <1>7, <1>8 DEF NoneOf

LEMMA EatField ==
    ASSUME NEW A, ListOK(A, list), TextOK(A), NEW before, before \in Seq(A), NEW part, part \in Seq(A),
           Consumed(before, part, pos), NEW n, n \in Nat, MidLine(part, n), NEW room \in Nat,
           NEW brought, brought = ReadTo({"TAB", "LF"}, room)
    PROVE  /\ brought.pos \in 0 .. Len(Text)
           /\ \/ EatTab(A, before, part, n, room, brought) \/ EatLF(A, before, part, n, room, brought)
              \/ EatLarge(A, before, part, n, room, brought) \/ EatBroken(A, before, brought)
              \/ EatEOF(before, part, brought)
<1> DEFINE S == {"TAB", "LF"}
           w == brought.s
<1>1. GotOne(A, S, room, brought) \/ GotLarge(A, S, room, brought) \/ GotEnd(A, S, brought)
  BY ReadIs
<1>2. Bytes(A) /\ "LF" \in A /\ "TAB" \in A
  BY DEF ListOK, Bytes
<1>3. Done = Cat(before, part) /\ Done \in Seq(A)
  <2>1. Done = Cat(before, part)
    BY DEF Done, Consumed
  <2> QED
    BY <2>1, Assoc
<1>4. Text \in Seq(A) /\ Len(Text) \in Nat /\ pos \in Nat
  BY DEF TextOK
<1> HIDE DEF w
<1>5. CASE GotOne(A, S, room, brought)
  <2> DEFINE c == Text[brought.pos]
             t == <<c>>
             v == Cat(part, w)
  <2>1. /\ brought.err = "nil" /\ brought.pos \in 1 .. Len(Text) /\ w \in Seq(A) /\ NoneOf(w, S) /\ Len(w) <= room
        /\ c \in S /\ c \in A /\ SubSeq(Text, 1, brought.pos) = Cat(Cat(Done, w), t)
    BY <1>5 DEF GotOne, w, Cat
  <2>2. brought.pos \in 0 .. Len(Text) /\ (c = "TAB" \/ c = "LF")
    BY <1>4, <2>1
  <2> HIDE DEF c
  <2>3. /\ v \in Seq(A) /\ NoneOf(v, {"LF"}) /\ Len(Fields(v)) = n + 1 /\ Fields(v)[n + 1] = w
        /\ SameTo(n, Fields(part), Fields(v))
    BY <1>2, <2>1, ReadLine
  <2>4. Len(w) \in Nat /\ t \in Seq(A)
    BY <2>1
  <2> HIDE DEF t
  <2>5. SubSeq(Text, 1, brought.pos) = Cat(before, Cat(v, t))
    <3>1. Cat(Cat(before, part), w) = Cat(before, v)
      BY <2>1, Assoc
    <3> HIDE DEF v
    <3>2. Cat(Cat(before, v), t) = Cat(before, Cat(v, t))
      BY <2>3, <2>4, Assoc
    <3> QED
      BY <1>3, <2>1, <3>1, <3>2
  <2>6. CASE c = "LF"
    <3>1. Text[brought.pos] = "LF" /\ Consumed(before, LFd(v), brought.pos)
      BY <2>5, <2>6 DEF c, t, Consumed, LFd, Cat
    <3>2. EatLF(A, before, part, n, room, brought)
      BY <2>1, <2>3, <2>4, <3>1 DEF EatLF, w
    <3> QED
      BY <2>2, <3>2
  <2>7. CASE c = "TAB"
    <3> DEFINE q == Tabbed(v)
    <3>1. Text[brought.pos] = "TAB"
      BY <2>7 DEF c
    <3>2. q \in Seq(A) /\ MidLine(q, n + 1) /\ Fields(q)[n + 1] = w /\ SameTo(n, Fields(part), Fields(q))
      BY <1>2, <2>1, ReadTab
    <3>3. Consumed(before, q, brought.pos)
      <4>1. q = Cat(v, t)
        BY <2>7 DEF t, Tabbed, Cat
      <4> HIDE DEF q, v
      <4> QED
        BY <2>5, <4>1 DEF Consumed
    <3>4. EatTab(A, before, part, n, room, brought)
      BY <2>1, <2>4, <3>1, <3>2, <3>3 DEF EatTab, w
    <3> QED
      BY <2>2, <3>4
  <2> QED
    BY <2>2, <2>6, <2>7
<1>6. CASE GotLarge(A, S, room, brought)
  <2>1. PICK u \in Seq(A) : NoneOf(u, S) /\ Len(u) = room + 1 /\ SubSeq(Text, 1, brought.pos) = Cat(Done, u)
    BY <1>6 DEF GotLarge, Cat
  <2>2. brought.err = "too large" /\ brought.s = <<>> /\ brought.pos \in 1 .. Len(Text)
    BY <1>6 DEF GotLarge
  <2>3. brought.pos \in 0 .. Len(Text)
    <3> DEFINE N == Len(Text)
               p == brought.pos
    <3>1. N \in Nat /\ p \in 1 .. N
      BY <1>4, <2>2
    <3> HIDE DEF N, p
    <3>2. p \in 0 .. N
      BY <3>1
    <3> QED
      BY <3>2 DEF N, p
  <2> DEFINE q == Cat(part, u)
  <2>4. q \in Seq(A) /\ NoneOf(q, {"LF"})
    BY <1>2, <2>1, ReadLine
  <2>5. Consumed(before, q, brought.pos)
    <3>1. Cat(Cat(before, part), u) = Cat(before, q)
      BY Assoc
    <3> HIDE DEF q
    <3> QED
      BY <1>3, <2>1, <3>1 DEF Consumed
  <2>6. q # <<>>
    <3>1. Len(q) = Len(part) + Len(u) /\ Len(part) \in Nat
      BY DEF Cat
    <3> HIDE DEF q
    <3>2. Len(q) # 0
      BY <2>1, <3>1
    <3> QED
      BY <3>2
  <2>7. ASSUME NEW v \in Seq(A)
        PROVE  /\ Len(Fields(Cat(q, v))) >= n + 1 /\ Len(Fields(Cat(q, v))[n + 1]) > room
               /\ SameTo(n, Fields(part), Fields(Cat(q, v)))
    <3> DEFINE f == Fields(Cat(q, v))
    <3>1. Len(f) >= n + 1 /\ Len(f[n + 1]) >= Len(u) /\ SameTo(n, Fields(part), f)
      BY <1>2, <2>1, ReadMuch
    <3> HIDE DEF q
    <3>2. Cat(q, v) \in Seq(A)
      BY <2>4, Assoc
    <3>3. Len(f) \in Nat /\ \A k \in 1 .. Len(f) : Len(f[k]) \in Nat
      BY <3>2, FieldLengths
    <3> HIDE DEF f
    <3>4. n + 1 \in 1 .. Len(f)
      BY <3>1, <3>3
    <3>5. Len(f[n + 1]) \in Nat
      BY <3>3, <3>4
    <3>6. Len(f[n + 1]) > room
      BY <2>1, <3>1, <3>5
    <3> QED
      BY <3>1, <3>6 DEF f
  <2> HIDE DEF q
  <2>8. EatLarge(A, before, part, n, room, brought)
    BY <2>2, <2>4, <2>5, <2>6, <2>7 DEF EatLarge
  <2> QED
    BY <2>3, <2>8
<1>7. CASE GotEnd(A, S, brought)
  <2>1. PICK u \in Seq(A) : NoneOf(u, S) /\ Text = Cat(Done, u)
    BY <1>7 DEF GotEnd, Cat
  <2>2. brought.err = AtTextEnd /\ brought.s = <<>> /\ brought.pos = Len(Text) /\ brought.pos \in 0 .. Len(Text)
    BY <1>4, <1>7 DEF GotEnd
  <2> DEFINE q == Cat(part, u)
             T == Text
  <2>3. q \in Seq(A) /\ NoneOf(q, {"LF"})
    BY <1>2, <2>1, ReadLine
  <2>4. T = Cat(before, q) /\ SubSeq(T, 1, Len(T)) = T
    <3>1. Cat(Cat(before, part), u) = Cat(before, q)
      BY Assoc
    <3>2. SubSeq(T, 1, Len(T)) = T
      BY <1>4
    <3> HIDE DEF q
    <3> QED
      BY <1>3, <2>1, <3>1, <3>2
  <2>5. Consumed(before, q, brought.pos)
    BY <2>2, <2>4 DEF Consumed
  <2>6. CASE list.cut
    <3>1. brought.err = "broken"
      BY <2>2, <2>6 DEF AtTextEnd
    <3> HIDE DEF q
    <3>2. EatBroken(A, before, brought)
      BY <2>2, <2>3, <2>5, <2>6, <3>1 DEF EatBroken
    <3> QED
      BY <2>2, <3>2
  <2>7. CASE ~list.cut
    <3>1. brought.err = "EOF"
      BY <2>2, <2>7 DEF AtTextEnd
    <3>2. q = <<>>
      <4>1. EndsLine(Text)
        BY <2>7 DEF ListOK, Text
      <4>2. EndsLine(before \o q)
        BY <2>4, <4>1 DEF Cat
      <4> HIDE DEF q
      <4> QED
        BY <2>3, <4>2, EndsNone
    <3>3. part = <<>>
      <4>1. Len(q) = Len(part) + Len(u) /\ Len(part) \in Nat /\ Len(u) \in Nat
        BY DEF Cat
      <4>2. Len(q) = 0
        BY <3>2
      <4> DEFINE a == Len(part)
                 b == Len(u)
      <4>3. a + b = 0 /\ a \in Nat /\ b \in Nat
        BY <4>1, <4>2
      <4> HIDE DEF a, b, q
      <4>4. a = 0
        BY <4>3
      <4> QED
        BY <4>4 DEF a
    <3>4. Consumed(before, <<>>, brought.pos)
      BY <2>5, <3>2
    <3>5. EatEOF(before, part, brought)
      BY <2>2, <2>7, <3>1, <3>3, <3>4 DEF EatEOF
    <3> QED
      BY <2>2, <3>5
  <2> QED
    BY <2>6, <2>7
<1> QED
  BY <1>1, <1>5, <1>6, <1>7

-----------------------------------------------------------------------------
(***************************************************************************)
(* Where a line of an overview is, and what is known of it.                *)
(***************************************************************************)

FieldOf(n) ==
    CASE n = 1 -> "subject" [] n = 2 -> "author" [] n = 3 -> "date" [] n = 4 -> "message-id"

HasNumber(f) == IsNumber(Trimmed(f[1])) /\ Len(f[1]) <= InbufLen

Identified(f) == HasNumber(f) /\ IsId(Trimmed(f[5])) /\ Len(f[1]) + Len(f[5]) <= InbufLen

AtField(n, part, l) ==
    LET f == Fields(part) IN
    /\ MidLine(part, n) /\ HasNumber(f)
    /\ l = LineWith(FieldOf(n), Len(f[1]), No, "nil", Number(Trimmed(f[1])), <<>>, <<>>)

\* The line with n fields, of which the number and the message-id are known.
WithId(x, l, nomore) ==
    LET f == Fields(x) IN
    /\ NoneOf(x, {"LF"}) /\ Identified(f)
    /\ l = LineWith("references", Len(f[1]) + Len(f[5]), nomore, "nil",
                    Number(Trimmed(f[1])), Trimmed(f[5]), <<>>)

EntryOf(l) == [id |-> l.id, msgid |-> l.msgid, ref |-> l.ref]

\* What has been read of x is what it has.
Tells(l, x) ==
    \/ l.err = "nil" /\ OverviewOf(x).entries = <<EntryOf(l)>>
    \/ (l.err = "nil" => l.id = 0) /\ OverviewOf(x).entries = <<>>

WholeLine(A, before, p, x) == x \in Seq(A) /\ NoneOf(x, {"LF"}) /\ Consumed(before, LFd(x), p)

PartLine(A, before, p, q) == q \in Seq(A) /\ NoneOf(q, {"LF"}) /\ Consumed(before, q, p)

InField(A, before, l, p) ==
    \E n \in 1 .. 4 : \E part \in Seq(A) : Consumed(before, part, p) /\ AtField(n, part, l)

InRefs(A, before, l, p) ==
    \E part \in Seq(A) : Consumed(before, part, p) /\ MidLine(part, 5) /\ WithId(part, l, No)

LastRefs(A, before, l, p) ==
    \E x : WholeLine(A, before, p, x) /\ Len(Fields(x)) = 5 /\ WithId(x, l, Yes)

EndWhole(A, before, l, p) ==
    /\ l.field = "end" /\ l.nomore /\ l.err \notin {"broken", "EOF"}
    /\ \E x : WholeLine(A, before, p, x) /\ Tells(l, x)

EndWithin(A, before, l, p) ==
    /\ l.field = "end" /\ ~l.nomore /\ l.err \notin {"broken", "EOF"}
    /\ \E q : /\ PartLine(A, before, p, q) /\ q # <<>>
              /\ \A v \in Seq(A) : Tells(l, Cat(q, v))

EndBroken(l) == l.field = "end" /\ l.err = "broken" /\ list.cut

EndAll(before, l, p) ==
    l.field = "end" /\ ~l.nomore /\ l.err = "EOF" /\ ~list.cut /\ p = Len(Text) /\ Consumed(before, <<>>, p)

OverOK(A, before, l, p) ==
    \/ l = NewLine /\ Consumed(before, <<>>, p)
    \/ InField(A, before, l, p) \/ InRefs(A, before, l, p) \/ LastRefs(A, before, l, p)
    \/ EndWhole(A, before, l, p) \/ EndWithin(A, before, l, p) \/ EndBroken(l) \/ EndAll(before, l, p)

LEMMA NewLineIs == NewLine = LineWith("number", 0, No, "nil", 0, <<>>, <<>>)
BY DEF NewLine, LineWith, No

LEMMA LineFields ==
    ASSUME NEW f, NEW u, NEW n, NEW e, NEW i, NEW m, NEW r, NEW l, l = LineWith(f, u, n, e, i, m, r)
    PROVE  /\ l.field = f /\ l.fill = u /\ l.nomore = n /\ l.err = e
           /\ l.id = i /\ l.msgid = m /\ l.ref = r
BY DEF LineWith

LEMMA NotSaid ==
    ASSUME NEW A, NEW x, x \in Seq(A), NotOne(Fields(x)), NEW l, l.err = "nil" => l.id = 0
    PROVE  Tells(l, x)
BY NoOverview DEF Tells

LEMMA Said ==
    ASSUME NEW A, NEW x, x \in Seq(A), NEW f, f = Fields(x), Len(f) > 4, Identified(f),
           Len(f[1]) + Len(f[5]) + Len(Sixth(f)) <= InbufLen,
           NEW l, l.err = "nil", l.id = Number(Trimmed(f[1])), l.msgid = Trimmed(f[5]),
           l.ref = FirstReference(Sixth(f))
    PROVE  Tells(l, x)
<1>1. OverviewOf(x).entries = <<[id |-> l.id, msgid |-> l.msgid, ref |-> l.ref]>>
  BY AnOverview DEF Identified, HasNumber
<1> QED
  BY <1>1 DEF Tells, EntryOf

\* What becomes of a line when its end is where a field should be, or nothing.
LEMMA TooLargeIs ==
    ASSUME NEW A, NEW before, NEW part, NEW n, NEW room, NEW brought, EatLarge(A, before, part, n, room, brought),
           n \in Nat,
           NEW l, l.field = "end", ~l.nomore, l.err = "too large",
           \A f : /\ Len(f) >= n + 1 /\ Len(f[n + 1]) > room /\ SameTo(n, Fields(part), f)
                  /\ Len(f) \in Nat /\ \A k \in 1 .. Len(f) : Len(f[k]) \in Nat
                  => NotOne(f)
    PROVE  EndWithin(A, before, l, brought.pos)
<1>1. PICK q \in Seq(A) :
        /\ Consumed(before, q, brought.pos) /\ q # <<>> /\ NoneOf(q, {"LF"})
        /\ \A v \in Seq(A) :
              /\ Len(Fields(Cat(q, v))) >= n + 1 /\ Len(Fields(Cat(q, v))[n + 1]) > room
              /\ SameTo(n, Fields(part), Fields(Cat(q, v)))
  BY DEF EatLarge
<1>2. ASSUME NEW v \in Seq(A) PROVE Tells(l, Cat(q, v))
  <2> DEFINE x == Cat(q, v)
             f == Fields(x)
  <2>1. x \in Seq(A)
    BY Assoc
  <2>2. Len(f) >= n + 1 /\ Len(f[n + 1]) > room /\ SameTo(n, Fields(part), f)
    BY <1>1
  <2> HIDE DEF x
  <2>3. Len(f) \in Nat /\ \A k \in 1 .. Len(f) : Len(f[k]) \in Nat
    BY <2>1, FieldLengths
  <2> HIDE DEF f
  <2>4. NotOne(f)
    BY <2>2, <2>3
  <2>5. Tells(l, x)
    BY <2>1, <2>4, NotSaid DEF f
  <2> QED
    BY <2>5 DEF x
<1>3. l.err \notin {"broken", "EOF"}
  OBVIOUS
<1>4. PartLine(A, before, brought.pos, q)
  BY <1>1 DEF PartLine
<1> QED
  BY <1>1, <1>2, <1>3, <1>4 DEF EndWithin

LEMMA NeverLarge ==
    ASSUME NEW A, TextOK(A), NEW S, NEW brought, brought = ReadTo(S, Len(Text))
    PROVE  GotOne(A, S, Len(Text), brought) \/ GotEnd(A, S, brought)
<1> DEFINE N == Len(Text)
<1>1. N \in Nat
  BY DEF TextOK
<1>2. CASE GotLarge(A, S, N, brought)
  <2>1. PICK w \in Seq(A) : Len(w) = N + 1 /\ SubSeq(Text, 1, brought.pos) = Done \o w /\ brought.pos \in 1 .. N
    BY <1>2 DEF GotLarge
  <2>2. Text \in Seq(A) /\ pos \in Nat /\ pos <= N
    BY <1>1 DEF TextOK
  <2>3. Done \in Seq(A)
    BY <1>1, <2>2 DEF Done
  <2>4. Len(Done \o w) = Len(Done) + Len(w) /\ Len(Done) \in Nat
    BY <2>3
  <2>5. Len(SubSeq(Text, 1, brought.pos)) = brought.pos
    BY <1>1, <2>1, <2>2
  <2>6. brought.pos = Len(Done) + (N + 1)
    BY <2>1, <2>4, <2>5
  <2> DEFINE p == brought.pos
             d == Len(Done)
  <2>7. p = d + (N + 1) /\ d \in Nat /\ p \in 1 .. N
    BY <2>1, <2>4, <2>6
  <2> HIDE DEF N, p, d
  <2> QED
    BY <1>1, <2>7
<1> QED
  BY <1>1, <1>2, ReadIs

Reading(A, before) == ListOK(A, list) /\ TextOK(A) /\ before \in Seq(A)

\* A line whose end, or the end of everything, is read.
LEMMA LineEnds ==
    ASSUME NEW A, NEW before, NEW part, NEW brought, EatBroken(A, before, brought) \/ EatEOF(before, part, brought),
           NEW l, l.field = "end", l.err = brought.err, ~l.nomore
    PROVE  OverOK(A, before, l, brought.pos)
<1>1. CASE EatBroken(A, before, brought)
  BY <1>1 DEF EatBroken, OverOK, EndBroken
<1>2. CASE EatEOF(before, part, brought)
  BY <1>2 DEF EatEOF, OverOK, EndAll
<1> QED
  BY <1>1, <1>2

LEMMA NotNil ==
    ASSUME NEW A, NEW before, NEW part, NEW n, NEW room, NEW brought,
           \/ EatLarge(A, before, part, n, room, brought) \/ EatBroken(A, before, brought)
           \/ EatEOF(before, part, brought)
    PROVE  brought.err # "nil" /\ brought.s = <<>>
BY DEF EatLarge, EatBroken, EatEOF

\* A line that ends where its first fields show that it is no overview.
LEMMA BadEnd ==
    ASSUME NEW A, Bytes(A), NEW before, NEW p, NEW q, q \in Seq(A), Consumed(before, q, p),
           NEW n, n \in Nat, MidLine(q, n), q # <<>>,
           \A f : SameTo(n, Fields(q), f) => NotOne(f),
           NEW l, l.field = "end", ~l.nomore, l.err \notin {"nil", "broken", "EOF"}
    PROVE  OverOK(A, before, l, p)
<1>1. ASSUME NEW v \in Seq(A) PROVE Tells(l, Cat(q, v))
  <2> DEFINE z == Cat(q, v)
  <2>1. z \in Seq(A)
    BY Assoc
  <2>2. SameTo(n, Fields(q), Fields(z))
    BY ReadStays
  <2> HIDE DEF z
  <2>3. NotOne(Fields(z))
    BY <2>2
  <2>4. Tells(l, z)
    BY <2>1, <2>3, NotSaid
  <2> QED
    BY <2>4 DEF z
<1>2. EndWithin(A, before, l, p)
  BY <1>1 DEF EndWithin, PartLine, MidLine
<1> QED
  BY <1>2 DEF OverOK

LEMMA BadLine ==
    ASSUME NEW A, NEW before, NEW part, NEW n, NEW room, NEW brought, EatLF(A, before, part, n, room, brought),
           NotOne(Fields(Cat(part, brought.s))),
           NEW l, l.field = "end", l.nomore, l.err \notin {"broken", "EOF"}, l.err = "nil" => l.id = 0
    PROVE  OverOK(A, before, l, brought.pos)
<1> DEFINE x == Cat(part, brought.s)
<1>1. x \in Seq(A) /\ Consumed(before, LFd(x), brought.pos) /\ NoneOf(x, {"LF"})
  BY DEF EatLF
<1>2. NotOne(Fields(x))
  OBVIOUS
<1> HIDE DEF x
<1>3. Tells(l, x)
  BY <1>1, <1>2, NotSaid
<1>4. EndWhole(A, before, l, brought.pos)
  BY <1>1, <1>3 DEF EndWhole, WholeLine
<1> QED
  BY <1>4 DEF OverOK

LEMMA NumberRead ==
    ASSUME NEW A, NEW before, Reading(A, before), Consumed(before, <<>>, pos), line = NewLine, OverNumber
    PROVE  pos' \in 0 .. Len(Text) /\ OverOK(A, before, line', pos')
<1> DEFINE brought == ReadTo({"TAB", "LF"}, InbufLen)
           w == Trimmed(brought.s)
           l == Ate(brought)
           m == line'
           u == 0 + Len(brought.s)
           k == [l EXCEPT !.field = "end"]
<1>1. /\ pos' = brought.pos
      /\ m = IF l.err # "nil" \/ l.nomore THEN k
             ELSE IF IsNumber(w) THEN [l EXCEPT !.field = "subject", !.id = Number(w)]
             ELSE [l EXCEPT !.field = "end", !.err = "bad id"]
  BY DEF OverNumber
<1>2. /\ brought.pos \in 0 .. Len(Text)
      /\ \/ EatTab(A, before, <<>>, 0, InbufLen, brought) \/ EatLF(A, before, <<>>, 0, InbufLen, brought)
         \/ EatLarge(A, before, <<>>, 0, InbufLen, brought) \/ EatBroken(A, before, brought)
         \/ EatEOF(before, <<>>, brought)
  <2>1. <<>> \in Seq(A) /\ InbufLen \in Nat
    BY InbufAssumption
  <2> QED
    BY <2>1, NothingRead, EatField DEF Reading
<1>3. SUFFICES OverOK(A, before, m, brought.pos)
  BY <1>1, <1>2
<1>a. l = Ate(brought) /\ u = 0 + Len(brought.s) /\ line = LineWith("number", 0, No, "nil", 0, <<>>, <<>>)
  BY NewLineIs
<1> HIDE DEF brought, l, m, u, k
<1>4. CASE EatLF(A, before, <<>>, 0, InbufLen, brought)
  <2>1. brought.err = "nil" /\ Text[brought.pos] = "LF" /\ Len(Fields(Cat(<<>>, brought.s))) = 0 + 1
    BY <1>4 DEF EatLF
  <2>2. l = LineWith("number", u, Yes, "nil", 0, <<>>, <<>>)
    BY ONLY <2>1, AteLF, <1>a, Zenon
  <2>3. k = LineWith("end", u, Yes, "nil", 0, <<>>, <<>>)
    BY <2>2 DEF k, LineWith
  <2>4. l.nomore
    BY <2>2 DEF LineWith, No, Yes
  <2>5. m.field = "end" /\ m.err = "nil" /\ m.nomore /\ m.id = 0
    BY <1>1, <2>3, <2>4 DEF LineWith, No, Yes
  <2>6. NotOne(Fields(Cat(<<>>, brought.s)))
    <3> DEFINE f == Fields(Cat(<<>>, brought.s))
    <3>1. Len(f) = 1
      BY <2>1
    <3> HIDE DEF f
    <3>2. NotOne(f)
      BY <3>1 DEF NotOne
    <3> QED
      BY <3>2 DEF f
  <2> QED
    BY <1>4, <2>5, <2>6, BadLine
<1>5. CASE EatTab(A, before, <<>>, 0, InbufLen, brought)
  <2> DEFINE x == Cat(<<>>, brought.s)
             q == Tabbed(x)
             f == Fields(q)
  <2>1. /\ brought.err = "nil" /\ Text[brought.pos] = "TAB" /\ q \in Seq(A) /\ Consumed(before, q, brought.pos)
        /\ Len(brought.s) <= InbufLen /\ Len(brought.s) \in Nat /\ MidLine(q, 0 + 1) /\ f[0 + 1] = brought.s
    BY <1>5 DEF EatTab
  <2>2. l = LineWith("number", u, No, "nil", 0, <<>>, <<>>)
    BY ONLY <2>1, AteTab, <1>a, Zenon
  <2>3. l.err = "nil" /\ ~l.nomore
    BY <2>2 DEF LineWith, No, Yes
  <2>4. MidLine(q, 1) /\ f[1] = brought.s
    BY <2>1
  <2>5. u = Len(f[1])
    BY <2>1, <2>4 DEF u
  <2>6. q # <<>>
    BY DEF Tabbed
  <2> HIDE DEF q
  <2>7. CASE IsNumber(w)
    <3>1. m = LineWith("subject", u, No, "nil", Number(w), <<>>, <<>>)
      <4> DEFINE y == Number(w)
                 e == <<>>
                 b == No
      <4>1. m = [l EXCEPT !.field = "subject", !.id = y]
        BY <1>1, <2>3, <2>7
      <4>2. l = LineWith("number", u, b, "nil", 0, e, e)
        BY <2>2
      <4> HIDE DEF y, e, b
      <4> DEFINE k1 == [l EXCEPT !.field = "subject"]
      <4>3. [l EXCEPT !.field = "subject", !.id = y] = [k1 EXCEPT !.id = y]
        BY ONLY TRUE
      <4>4. k1 = LineWith("subject", u, b, "nil", 0, e, e)
        BY <4>2 DEF LineWith
      <4> HIDE DEF k1
      <4>5. [k1 EXCEPT !.id = y] = LineWith("subject", u, b, "nil", y, e, e)
        BY <4>4 DEF LineWith
      <4> QED
        BY <4>1, <4>3, <4>5 DEF y, e, b
    <3>2. AtField(1, q, m)
      BY <2>1, <2>4, <2>5, <2>7, <3>1 DEF AtField, HasNumber, FieldOf
    <3>3. InField(A, before, m, brought.pos)
      BY <2>1, <3>2 DEF InField
    <3> QED
      BY <3>3 DEF OverOK
  <2>8. CASE ~IsNumber(w)
    <3>1. m = [l EXCEPT !.field = "end", !.err = "bad id"]
      BY <1>1, <2>3, <2>8
    <3>2. [l EXCEPT !.field = "end", !.err = "bad id"] = LineWith("end", u, No, "bad id", 0, <<>>, <<>>)
      <4> DEFINE k1 == [l EXCEPT !.field = "end"]
                 bad == "bad id"
                 e == <<>>
      <4>1. [l EXCEPT !.field = "end", !.err = bad] = [k1 EXCEPT !.err = bad]
        BY ONLY TRUE
      <4>2. k1 = LineWith("end", u, No, "nil", 0, e, e)
        BY <2>2 DEF LineWith
      <4> HIDE DEF k1, bad, e
      <4>3. [k1 EXCEPT !.err = bad] = LineWith("end", u, No, bad, 0, e, e)
        BY <4>2 DEF LineWith
      <4> QED
        BY <4>1, <4>3 DEF bad, e
    <3>3. m.field = "end" /\ ~m.nomore /\ m.err = "bad id"
      BY <3>1, <3>2 DEF LineWith, No, Yes
    <3>4. ASSUME NEW g, SameTo(1, f, g) PROVE NotOne(g)
      <4>1. g[1] = brought.s
        BY <2>4, <3>4 DEF SameTo
      <4> QED
        BY <2>8, <4>1 DEF NotOne
    <3> QED
      BY <2>1, <2>4, <2>6, <3>3, <3>4, BadEnd DEF Reading, ListOK
  <2> QED
    BY <2>7, <2>8
<1>6. CASE \/ EatLarge(A, before, <<>>, 0, InbufLen, brought) \/ EatBroken(A, before, brought)
           \/ EatEOF(before, <<>>, brought)
  <2> DEFINE e == brought.err
  <2>0. e = brought.err
    OBVIOUS
  <2>1. e # "nil"
    BY <1>6, NotNil
  <2> HIDE DEF e
  <2>2. l = LineWith("number", u, No, e, 0, <<>>, <<>>)
    BY ONLY <2>1, AteNone, <1>a, <2>0
  <2>3. k = LineWith("end", u, No, e, 0, <<>>, <<>>)
    BY <2>2 DEF k, LineWith
  <2>4. l.err = e
    BY <2>2 DEF LineWith, No, Yes
  <2>5. m.field = "end" /\ m.err = e /\ ~m.nomore
    BY <1>1, <2>1, <2>3, <2>4 DEF LineWith, No, Yes
  <2>6. m.err = brought.err
    BY <2>5 DEF e
  <2>7. CASE EatLarge(A, before, <<>>, 0, InbufLen, brought)
    <3>1. brought.err = "too large"
      BY <2>7 DEF EatLarge
    <3>2. ASSUME NEW f, Len(f) >= 0 + 1, Len(f[0 + 1]) > InbufLen
          PROVE  NotOne(f)
      <4>1. Len(f[1]) > InbufLen
        BY <3>2
      <4> QED
        BY <4>1 DEF NotOne
    <3>3. EndWithin(A, before, m, brought.pos)
      BY <2>5, <2>6, <2>7, <3>1, <3>2, TooLargeIs
    <3> QED
      BY <3>3 DEF OverOK
  <2> QED
    BY <1>6, <2>5, <2>6, <2>7, LineEnds
<1> QED
  BY <1>2, <1>4, <1>5, <1>6

LEMMA FieldsAfter ==
    ASSUME NEW n \in 1 .. 3
    PROVE  FieldAfter(FieldOf(n)) = FieldOf(n + 1)
<1>1. n = 1 \/ n = 2 \/ n = 3
  OBVIOUS
<1>2. CASE n = 1
  BY <1>2 DEF FieldAfter, FieldOf
<1>3. CASE n = 2
  BY <1>3 DEF FieldAfter, FieldOf
<1>4. CASE n = 3
  BY <1>4 DEF FieldAfter, FieldOf
<1> QED
  BY <1>1, <1>2, <1>3, <1>4

LEMMA IgnoredRead ==
    ASSUME NEW A, NEW before, Reading(A, before), NEW part, part \in Seq(A), Consumed(before, part, pos),
           NEW n \in 1 .. 3, AtField(n, part, line), OverIgnored
    PROVE  pos' \in 0 .. Len(Text) /\ OverOK(A, before, line', pos')
<1> DEFINE brought == ReadTo({"TAB", "LF"}, Len(Text))
           a == Ate(brought)
           u == line.fill
           l == [a EXCEPT !.fill = u]
           m == line'
           x == u + Len(brought.s)
           k == [l EXCEPT !.field = "end"]
           F == FieldOf(n)
           i == Number(Trimmed(Fields(part)[1]))
           o == <<>>
           room == Len(Text)
<1>1. /\ pos' = brought.pos
      /\ m = IF l.err # "nil" THEN k
             ELSE IF l.nomore THEN [l EXCEPT !.field = "end", !.err = "wanted more"]
             ELSE [l EXCEPT !.field = FieldAfter(@)]
  BY DEF OverIgnored
<1>2. MidLine(part, n) /\ HasNumber(Fields(part)) /\ u = Len(Fields(part)[1]) /\ line = LineWith(F, u, No, "nil", i, o, o)
  <2>1. /\ MidLine(part, n) /\ HasNumber(Fields(part))
        /\ line = LineWith(F, Len(Fields(part)[1]), No, "nil", i, o, o)
    BY DEF AtField
  <2>2. u = Len(Fields(part)[1])
    BY <2>1, LineFields
  <2> QED
    BY <2>1, <2>2
<1>3. /\ brought.pos \in 0 .. Len(Text)
      /\ \/ EatTab(A, before, part, n, room, brought) \/ EatLF(A, before, part, n, room, brought)
         \/ EatLarge(A, before, part, n, room, brought) \/ EatBroken(A, before, brought)
         \/ EatEOF(before, part, brought)
  <2>1. room \in Nat /\ n \in Nat
    BY DEF Reading, TextOK
  <2> QED
    BY <1>2, <2>1, EatField DEF Reading
<1>4. brought.err # "too large"
  <2>1. GotOne(A, {"TAB", "LF"}, room, brought) \/ GotEnd(A, {"TAB", "LF"}, brought)
    BY NeverLarge DEF Reading
  <2> HIDE DEF brought
  <2> QED
    BY <2>1 DEF GotOne, GotEnd, AtTextEnd
<1>5. SUFFICES OverOK(A, before, m, brought.pos)
  BY <1>1, <1>3
<1>6. a = Ate(brought) /\ x = u + Len(brought.s)
  OBVIOUS
<1>b. line = LineWith(F, u, No, "nil", i, o, o)
  BY <1>2
<1> HIDE DEF brought, a, u, l, m, x, k, F, i, o, room
<1>7. CASE EatLF(A, before, part, n, room, brought)
  <2>1. brought.err = "nil" /\ Text[brought.pos] = "LF" /\ Len(Fields(Cat(part, brought.s))) = n + 1
    BY <1>7 DEF EatLF
  <2>a. brought.err = "nil" /\ Text[brought.pos] = "LF"
    BY <2>1
  <2>2. a = LineWith(F, x, Yes, "nil", i, o, o)
    BY ONLY <2>a, <1>b, <1>6, AteLF, Zenon
  <2>3. l = LineWith(F, u, Yes, "nil", i, o, o)
    BY <2>2 DEF l, LineWith
  <2>4. l.err = "nil" /\ l.nomore
    BY <2>3 DEF LineWith, Yes
  <2> DEFINE k1 == [l EXCEPT !.field = "end"]
             bad == "wanted more"
  <2>5. m = [k1 EXCEPT !.err = bad]
    <3>1. m = [l EXCEPT !.field = "end", !.err = bad]
      BY <1>1, <2>4
    <3>2. [l EXCEPT !.field = "end", !.err = bad] = [k1 EXCEPT !.err = bad]
      BY ONLY TRUE
    <3> QED
      BY <3>1, <3>2
  <2>6. k1 = LineWith("end", u, Yes, "nil", i, o, o)
    BY <2>3 DEF LineWith
  <2> HIDE DEF k1, bad
  <2>7. m = LineWith("end", u, Yes, bad, i, o, o)
    BY <2>5, <2>6 DEF LineWith
  <2>8. m.field = "end" /\ m.nomore /\ m.err = "wanted more"
    BY <2>7 DEF LineWith, Yes, bad
  <2>9. NotOne(Fields(Cat(part, brought.s)))
    <3> DEFINE f == Fields(Cat(part, brought.s))
    <3>1. Len(f) < 5
      BY <2>1
    <3> HIDE DEF f
    <3>2. NotOne(f)
      BY <3>1 DEF NotOne
    <3> QED
      BY <3>2 DEF f
  <2> QED
    BY <1>7, <2>8, <2>9, BadLine
<1>8. CASE EatTab(A, before, part, n, room, brought)
  <2> DEFINE q == Tabbed(Cat(part, brought.s))
             f == Fields(q)
             g == Fields(part)
  <2>1. /\ brought.err = "nil" /\ Text[brought.pos] = "TAB" /\ q \in Seq(A) /\ Consumed(before, q, brought.pos)
        /\ MidLine(q, n + 1) /\ SameTo(n, g, f)
    BY <1>8 DEF EatTab
  <2>a. brought.err = "nil" /\ Text[brought.pos] = "TAB"
    BY <2>1
  <2>2. a = LineWith(F, x, No, "nil", i, o, o)
    BY ONLY <2>a, <1>b, <1>6, AteTab, Zenon
  <2>3. l = LineWith(F, u, No, "nil", i, o, o)
    BY <2>2 DEF l, LineWith
  <2>4. l.err = "nil" /\ ~l.nomore /\ l.field = F
    BY <2>3 DEF LineWith, No
  <2> DEFINE G == FieldOf(n + 1)
  <2>5. m = [l EXCEPT !.field = G]
    <3>1. FieldAfter(l.field) = G
      BY <2>4, FieldsAfter DEF F
    <3>2. m = [l EXCEPT !.field = FieldAfter(l.field)]
      BY <1>1, <2>4
    <3> QED
      BY <3>1, <3>2
  <2> HIDE DEF G
  <2>6. m = LineWith(G, u, No, "nil", i, o, o)
    BY <2>3, <2>5 DEF LineWith
  <2> HIDE DEF q
  <2>7. f[1] = g[1]
    BY <2>1 DEF SameTo
  <2>8. HasNumber(f) /\ u = Len(f[1]) /\ i = Number(Trimmed(f[1]))
    BY <1>2, <2>7 DEF HasNumber, i
  <2>9. AtField(n + 1, q, m)
    BY <2>1, <2>6, <2>8 DEF AtField, G, o
  <2>10. n + 1 \in 1 .. 4
    OBVIOUS
  <2>11. InField(A, before, m, brought.pos)
    BY <2>1, <2>9, <2>10 DEF InField
  <2> QED
    BY <2>11 DEF OverOK
<1>9. CASE EatLarge(A, before, part, n, room, brought)
  BY <1>4, <1>9 DEF EatLarge
<1>10. CASE EatBroken(A, before, brought) \/ EatEOF(before, part, brought)
  <2> DEFINE e == brought.err
  <2>0. e = brought.err
    OBVIOUS
  <2>1. e # "nil"
    BY <1>10, NotNil
  <2> HIDE DEF e
  <2>2. a = LineWith(F, x, No, e, i, o, o)
    BY ONLY <2>1, <1>b, <1>6, <2>0, AteNone
  <2>3. l = LineWith(F, u, No, e, i, o, o)
    BY <2>2 DEF l, LineWith
  <2>4. k = LineWith("end", u, No, e, i, o, o)
    BY <2>3 DEF k, LineWith
  <2>5. m = k
    <3>1. l.err = e
      BY <2>3 DEF LineWith
    <3> QED
      BY <1>1, <2>1, <3>1
  <2>6. m.field = "end" /\ m.err = e /\ ~m.nomore
    BY <2>4, <2>5 DEF LineWith, No
  <2>7. m.err = brought.err
    BY <2>0, <2>6
  <2> QED
    BY <1>10, <2>6, <2>7, LineEnds
<1> QED
  BY <1>3, <1>7, <1>8, <1>9, <1>10

LEMMA MsgIDRead ==
    ASSUME NEW A, NEW before, Reading(A, before), NEW part, part \in Seq(A), Consumed(before, part, pos),
           AtField(4, part, line), OverMsgID
    PROVE  pos' \in 0 .. Len(Text) /\ OverOK(A, before, line', pos')
<1> DEFINE u == line.fill
           room == InbufLen - u
           brought == ReadTo({"TAB", "LF"}, room)
           l == Ate(brought)
           m == line'
           w == Trimmed(brought.s)
           x == u + Len(brought.s)
           k == [l EXCEPT !.field = "end"]
           g == Fields(part)
           i == Number(Trimmed(g[1]))
           o == <<>>
           F == "message-id"
           R == "references"
           bad == "invalid msg-id"
<1>1. /\ pos' = brought.pos
      /\ m = IF l.err # "nil" THEN k
             ELSE IF IsId(w) THEN [l EXCEPT !.field = R, !.msgid = w]
             ELSE [l EXCEPT !.field = "end", !.err = bad]
  BY DEF OverMsgID
<1>2. MidLine(part, 4) /\ HasNumber(g) /\ u = Len(g[1]) /\ line = LineWith(F, u, No, "nil", i, o, o)
  <2>1. MidLine(part, 4) /\ HasNumber(g) /\ line = LineWith(FieldOf(4), Len(g[1]), No, "nil", i, o, o)
    BY DEF AtField
  <2>2. u = Len(g[1])
    BY <2>1, LineFields
  <2>3. FieldOf(4) = F
    BY DEF FieldOf
  <2> QED
    BY <2>1, <2>2, <2>3
<1>b. line = LineWith(F, u, No, "nil", i, o, o)
  BY <1>2
<1>c. u \in Nat /\ u <= InbufLen /\ InbufLen \in Nat /\ room \in Nat
  <2>1. Len(g) \in Nat \ {0} /\ InbufLen \in Nat /\ \A y \in 1 .. Len(g) : Len(g[y]) \in Nat
    BY FieldLengths
  <2>2. Len(g[1]) \in Nat
    BY <2>1
  <2> QED
    BY <1>2, <2>1, <2>2 DEF HasNumber
<1>3. /\ brought.pos \in 0 .. Len(Text)
      /\ \/ EatTab(A, before, part, 4, room, brought) \/ EatLF(A, before, part, 4, room, brought)
         \/ EatLarge(A, before, part, 4, room, brought) \/ EatBroken(A, before, brought)
         \/ EatEOF(before, part, brought)
  BY <1>2, <1>c, EatField DEF Reading
<1>5. SUFFICES OverOK(A, before, m, brought.pos)
  BY <1>1, <1>3
<1>6. l = Ate(brought) /\ x = u + Len(brought.s)
  OBVIOUS
<1>d. room = InbufLen - u
  OBVIOUS
<1> HIDE DEF brought, u, l, m, x, k, i, o, room, F, R, bad
<1>7. ASSUME NEW N, l = LineWith(F, x, N, "nil", i, o, o)
      PROVE  /\ IsId(w) => m = LineWith(R, x, N, "nil", i, w, o)
             /\ ~IsId(w) => m = LineWith("end", x, N, bad, i, o, o)
  <2>1. l.err = "nil"
    BY <1>7 DEF LineWith
  <2> HIDE DEF w
  <2>2. CASE IsId(w)
    <3> DEFINE k1 == [l EXCEPT !.field = R]
    <3>1. m = [l EXCEPT !.field = R, !.msgid = w]
      BY <1>1, <2>1, <2>2
    <3>2. [l EXCEPT !.field = R, !.msgid = w] = [k1 EXCEPT !.msgid = w]
      BY ONLY TRUE
    <3>3. k1 = LineWith(R, x, N, "nil", i, o, o)
      BY <1>7 DEF LineWith
    <3> HIDE DEF k1
    <3>4. [k1 EXCEPT !.msgid = w] = LineWith(R, x, N, "nil", i, w, o)
      BY <3>3 DEF LineWith
    <3> QED
      BY <2>2, <3>1, <3>2, <3>4
  <2>3. CASE ~IsId(w)
    <3> DEFINE k1 == [l EXCEPT !.field = "end"]
    <3>1. m = [l EXCEPT !.field = "end", !.err = bad]
      BY <1>1, <2>1, <2>3
    <3>2. [l EXCEPT !.field = "end", !.err = bad] = [k1 EXCEPT !.err = bad]
      BY ONLY TRUE
    <3>3. k1 = LineWith("end", x, N, "nil", i, o, o)
      BY <1>7 DEF LineWith
    <3> HIDE DEF k1
    <3>4. [k1 EXCEPT !.err = bad] = LineWith("end", x, N, bad, i, o, o)
      BY <3>3 DEF LineWith
    <3> QED
      BY <2>3, <3>1, <3>2, <3>4
  <2> QED
    BY <2>2, <2>3
<1>8. ASSUME NEW f, SameTo(4, g, f), f[5] = brought.s, Len(brought.s) \in Nat, Len(brought.s) <= room, IsId(w)
      PROVE  Identified(f) /\ x = Len(f[1]) + Len(f[5]) /\ i = Number(Trimmed(f[1])) /\ w = Trimmed(f[5])
  <2>1. f[1] = g[1]
    BY <1>8 DEF SameTo
  <2>2. Len(f[1]) = u /\ HasNumber(f) /\ i = Number(Trimmed(f[1])) /\ w = Trimmed(f[5])
    BY <1>2, <1>8, <2>1 DEF HasNumber, i
  <2>3. x = u + Len(f[5]) /\ u + Len(f[5]) <= InbufLen
    BY <1>6, <1>8, <1>c, <1>d
  <2> QED
    BY <1>8, <2>2, <2>3 DEF Identified
<1>9. CASE EatLF(A, before, part, 4, room, brought)
  <2> DEFINE z == Cat(part, brought.s)
             f == Fields(z)
  <2>1. /\ brought.err = "nil" /\ Text[brought.pos] = "LF" /\ z \in Seq(A) /\ Consumed(before, LFd(z), brought.pos)
        /\ Len(brought.s) <= room /\ Len(brought.s) \in Nat /\ NoneOf(z, {"LF"})
        /\ Len(f) = 4 + 1 /\ f[4 + 1] = brought.s /\ SameTo(4, g, f)
    BY <1>9 DEF EatLF
  <2>a. brought.err = "nil" /\ Text[brought.pos] = "LF"
    BY <2>1
  <2>2. l = LineWith(F, x, Yes, "nil", i, o, o)
    BY ONLY <2>a, <1>b, <1>6, AteLF, Zenon
  <2>3. Len(f) = 5 /\ f[5] = brought.s
    BY <2>1
  <2>4. CASE IsId(w)
    <3>1. m = LineWith(R, x, Yes, "nil", i, w, o)
      BY <1>7, <2>2, <2>4
    <3>2. Identified(f) /\ x = Len(f[1]) + Len(f[5]) /\ i = Number(Trimmed(f[1])) /\ w = Trimmed(f[5])
      BY <1>8, <2>1, <2>3, <2>4
    <3> HIDE DEF z
    <3>3. WithId(z, m, Yes)
      BY <2>1, <3>1, <3>2 DEF WithId, R, o
    <3>4. LastRefs(A, before, m, brought.pos)
      BY <2>1, <2>3, <3>3 DEF LastRefs, WholeLine
    <3> QED
      BY <3>4 DEF OverOK
  <2>5. CASE ~IsId(w)
    <3>1. m = LineWith("end", x, Yes, bad, i, o, o)
      BY <1>7, <2>2, <2>5
    <3>2. m.field = "end" /\ m.nomore /\ m.err = "invalid msg-id"
      BY <3>1 DEF LineWith, Yes, bad
    <3>3. NotOne(f)
      BY <2>3, <2>5 DEF NotOne
    <3> QED
      BY <1>9, <3>2, <3>3, BadLine
  <2> QED
    BY <2>4, <2>5
<1>10. CASE EatTab(A, before, part, 4, room, brought)
  <2> DEFINE q == Tabbed(Cat(part, brought.s))
             f == Fields(q)
  <2>1. /\ brought.err = "nil" /\ Text[brought.pos] = "TAB" /\ q \in Seq(A) /\ Consumed(before, q, brought.pos)
        /\ Len(brought.s) <= room /\ Len(brought.s) \in Nat
        /\ MidLine(q, 4 + 1) /\ f[4 + 1] = brought.s /\ SameTo(4, g, f)
    BY <1>10 DEF EatTab
  <2>a. brought.err = "nil" /\ Text[brought.pos] = "TAB"
    BY <2>1
  <2>2. l = LineWith(F, x, No, "nil", i, o, o)
    BY ONLY <2>a, <1>b, <1>6, AteTab, Zenon
  <2>3. MidLine(q, 5) /\ f[5] = brought.s
    BY <2>1
  <2>4. q # <<>>
    <3> DEFINE y == Cat(part, brought.s)
    <3> HIDE DEF y
    <3>1. Tabbed(y) # <<>>
      BY DEF Tabbed
    <3> QED
      BY <3>1 DEF y
  <2> HIDE DEF q
  <2>5. CASE IsId(w)
    <3>1. m = LineWith(R, x, No, "nil", i, w, o)
      BY <1>7, <2>2, <2>5
    <3>2. Identified(f) /\ x = Len(f[1]) + Len(f[5]) /\ i = Number(Trimmed(f[1])) /\ w = Trimmed(f[5])
      BY <1>8, <2>1, <2>3, <2>5
    <3>3. WithId(q, m, No)
      BY <2>3, <3>1, <3>2 DEF WithId, R, o, MidLine
    <3>4. InRefs(A, before, m, brought.pos)
      BY <2>1, <2>3, <3>3 DEF InRefs
    <3> QED
      BY <3>4 DEF OverOK
  <2>6. CASE ~IsId(w)
    <3>1. m = LineWith("end", x, No, bad, i, o, o)
      BY <1>7, <2>2, <2>6
    <3>2. m.field = "end" /\ ~m.nomore /\ m.err = "invalid msg-id"
      BY <3>1 DEF LineWith, No, bad
    <3>3. ASSUME NEW h, SameTo(5, f, h) PROVE NotOne(h)
      <4>1. h[5] = brought.s
        BY <2>3, <3>3 DEF SameTo
      <4> QED
        BY <2>6, <4>1 DEF NotOne
    <3> QED
      BY <2>1, <2>3, <2>4, <3>2, <3>3, BadEnd DEF Reading, ListOK
  <2> QED
    BY <2>5, <2>6
<1>11. CASE EatLarge(A, before, part, 4, room, brought) \/ EatBroken(A, before, brought) \/ EatEOF(before, part, brought)
  <2> DEFINE e == brought.err
  <2>0. e = brought.err
    OBVIOUS
  <2>1. e # "nil"
    BY <1>11, NotNil
  <2> HIDE DEF e
  <2>2. l = LineWith(F, x, No, e, i, o, o)
    BY ONLY <2>1, <1>b, <1>6, <2>0, AteNone
  <2>3. k = LineWith("end", x, No, e, i, o, o)
    BY <2>2 DEF k, LineWith
  <2>4. m = k
    <3>1. l.err = e
      BY <2>2 DEF LineWith
    <3> QED
      BY <1>1, <2>1, <3>1
  <2>5. m.field = "end" /\ m.err = e /\ ~m.nomore
    BY <2>3, <2>4 DEF LineWith, No
  <2>6. m.err = brought.err
    BY <2>0, <2>5
  <2>7. CASE EatLarge(A, before, part, 4, room, brought)
    <3>1. brought.err = "too large"
      BY <2>7 DEF EatLarge
    <3>2. ASSUME NEW f, Len(f) >= 4 + 1, Len(f[4 + 1]) > room, SameTo(4, g, f), Len(f) \in Nat,
                 \A y \in 1 .. Len(f) : Len(f[y]) \in Nat
          PROVE  NotOne(f)
      <4>1. f[1] = g[1]
        BY <3>2 DEF SameTo
      <4>2. 5 \in 1 .. Len(f) /\ 4 + 1 = 5
        BY <3>2
      <4>3. Len(f[5]) > room /\ Len(f[5]) \in Nat
        BY <3>2, <4>2
      <4>4. Len(f[1]) + Len(f[5]) > InbufLen
        <5> DEFINE a == Len(f[1])
                   b == Len(f[5])
        <5>1. a = u /\ b > InbufLen - u /\ b \in Nat
          BY <1>2, <1>d, <4>1, <4>3
        <5> HIDE DEF a, b
        <5>2. a + b > InbufLen
          BY <5>1, <1>c
        <5> QED
          BY <5>2 DEF a, b
      <4> QED
        BY <4>4 DEF NotOne
    <3>3. EndWithin(A, before, m, brought.pos)
      BY <2>5, <2>6, <2>7, <3>1, <3>2, TooLargeIs
    <3> QED
      BY <3>3 DEF OverOK
  <2> QED
    BY <1>11, <2>5, <2>6, <2>7, LineEnds
<1> QED
  BY <1>3, <1>9, <1>10, <1>11

\* What is read of a line with a message-id.
LEMMA SaidOf ==
    ASSUME NEW A, NEW z, z \in Seq(A), NEW f, f = Fields(z), Len(f) > 4, Identified(f), NEW s, s = Sixth(f),
           Len(f[1]) + Len(f[5]) + Len(s) <= InbufLen,
           NEW m, NEW F, NEW x, NEW N, NEW i, i = Number(Trimmed(f[1])), NEW w, w = Trimmed(f[5]),
           NEW r, r = FirstReference(s), m = LineWith(F, x, N, "nil", i, w, r)
    PROVE  Tells(m, z)
<1>1. m.err = "nil" /\ m.id = i /\ m.msgid = w /\ m.ref = r
  BY DEF LineWith
<1> QED
  BY <1>1, Said

LEMMA RefsRead ==
    ASSUME NEW A, NEW before, Reading(A, before), NEW part, part \in Seq(A), Consumed(before, part, pos),
           MidLine(part, 5), WithId(part, line, No), OverReferences
    PROVE  pos' \in 0 .. Len(Text) /\ OverOK(A, before, line', pos')
<1> DEFINE u == line.fill
           room == InbufLen - u
           brought == ReadTo({"TAB", "LF"}, room)
           l == Ate(brought)
           m == line'
           x == u + Len(brought.s)
           g == Fields(part)
           i == Number(Trimmed(g[1]))
           w == Trimmed(g[5])
           o == <<>>
           F == "references"
           r == FirstReference(brought.s)
<1>1. Identified(g) /\ line = LineWith(F, u, No, "nil", i, w, o) /\ u = Len(g[1]) + Len(g[5])
  <2>1. Identified(g) /\ line = LineWith(F, Len(g[1]) + Len(g[5]), No, "nil", i, w, o)
    BY DEF WithId
  <2> DEFINE y == Len(g[1]) + Len(g[5])
  <2>2. line = LineWith(F, y, No, "nil", i, w, o)
    BY <2>1
  <2> HIDE DEF y
  <2>3. u = y
    BY <2>2 DEF LineWith
  <2> QED
    BY <2>1, <2>3 DEF y
<1>2. /\ pos' = brought.pos
      /\ m = [l EXCEPT !.field = "end", !.ref = r]
  <2>1. ~line.nomore
    BY <1>1 DEF LineWith, No
  <2> QED
    BY <2>1 DEF OverReferences
<1>b. line = LineWith(F, u, No, "nil", i, w, o)
  BY <1>1
<1>c. u \in Nat /\ u <= InbufLen /\ InbufLen \in Nat /\ room \in Nat
  <2>1. Len(g) \in Nat \ {0} /\ InbufLen \in Nat /\ \A y \in 1 .. Len(g) : Len(g[y]) \in Nat
    BY FieldLengths
  <2>2. Len(g) = 6
    BY DEF MidLine, Read
  <2>3. Len(g[1]) \in Nat /\ Len(g[5]) \in Nat
    BY <2>1, <2>2
  <2> DEFINE a == Len(g[1])
             b == Len(g[5])
  <2>4. a \in Nat /\ b \in Nat /\ u = a + b /\ a + b <= InbufLen
    BY <1>1, <2>3 DEF Identified
  <2> HIDE DEF a, b, u
  <2>5. u \in Nat /\ u <= InbufLen
    BY <2>4
  <2> QED
    BY <2>1, <2>5
<1>3. /\ brought.pos \in 0 .. Len(Text)
      /\ \/ EatTab(A, before, part, 5, room, brought) \/ EatLF(A, before, part, 5, room, brought)
         \/ EatLarge(A, before, part, 5, room, brought) \/ EatBroken(A, before, brought)
         \/ EatEOF(before, part, brought)
  BY <1>c, EatField DEF Reading
<1>5. SUFFICES OverOK(A, before, m, brought.pos)
  BY <1>2, <1>3
<1>6. l = Ate(brought) /\ x = u + Len(brought.s)
  OBVIOUS
<1>d. room = InbufLen - u
  OBVIOUS
<1> HIDE DEF brought, u, l, m, x, i, w, o, room, F, r
<1>7. ASSUME NEW N, NEW e, l = LineWith(F, x, N, e, i, w, o)
      PROVE  m = LineWith("end", x, N, e, i, w, r)
  <2> DEFINE k1 == [l EXCEPT !.field = "end"]
  <2>1. [l EXCEPT !.field = "end", !.ref = r] = [k1 EXCEPT !.ref = r]
    BY ONLY TRUE
  <2>2. k1 = LineWith("end", x, N, e, i, w, o)
    BY <1>7 DEF LineWith
  <2> HIDE DEF k1
  <2>3. [k1 EXCEPT !.ref = r] = LineWith("end", x, N, e, i, w, r)
    BY <2>2 DEF LineWith
  <2> QED
    BY <1>2, <2>1, <2>3
<1>8. ASSUME NEW f, SameTo(5, g, f)
      PROVE  /\ Identified(f) /\ u = Len(f[1]) + Len(f[5]) /\ i = Number(Trimmed(f[1])) /\ w = Trimmed(f[5])
  <2>1. f[1] = g[1] /\ f[5] = g[5]
    BY <1>8 DEF SameTo
  <2> QED
    BY <1>1, <2>1 DEF Identified, HasNumber, i, w
<1>9. ASSUME NEW N, m = LineWith("end", x, N, "nil", i, w, r), NEW z, z \in Seq(A), Len(Fields(z)) >= 6,
             Fields(z)[6] = brought.s, SameTo(5, g, Fields(z)), Len(brought.s) \in Nat, Len(brought.s) <= room
      PROVE  Tells(m, z)
  <2> DEFINE f == Fields(z)
             s == brought.s
             a == Len(f[1])
             b == Len(f[5])
             c == Len(s)
  <2>0. Len(f) \in Nat
    BY <1>9, FieldLengths
  <2>1. /\ Identified(f) /\ u = Len(f[1]) + Len(f[5]) /\ i = Number(Trimmed(f[1])) /\ w = Trimmed(f[5])
    BY <1>8, <1>9
  <2> DEFINE n == Len(f)
  <2>a. n >= 6 /\ n \in Nat
    BY <1>9, <2>0
  <2> HIDE DEF n
  <2>b. n > 5 /\ n > 4
    BY <2>a
  <2>2. Len(f) > 5 /\ Len(f) > 4
    BY <2>b DEF n
  <2>3. s = Sixth(f) /\ r = FirstReference(s)
    BY <1>9, <2>2 DEF Sixth, r
  <2>4. Len(f[1]) + Len(f[5]) + Len(s) <= InbufLen
    <3>1. u = a + b /\ c \in Nat /\ c <= InbufLen - u
      BY <1>9, <2>1, <1>d
    <3> HIDE DEF a, b, c
    <3>2. (a + b) + c <= InbufLen
      BY <1>c, <3>1
    <3> QED
      BY <3>2 DEF a, b, c
  <2>5. f = Fields(z)
    OBVIOUS
  <2> HIDE DEF f, s
  <2> QED
    BY <1>9, <2>1, <2>2, <2>3, <2>4, <2>5, SaidOf
<1>10. CASE EatLF(A, before, part, 5, room, brought)
  <2> DEFINE z == Cat(part, brought.s)
             f == Fields(z)
  <2>1. /\ brought.err = "nil" /\ Text[brought.pos] = "LF" /\ z \in Seq(A) /\ Consumed(before, LFd(z), brought.pos)
        /\ Len(brought.s) <= room /\ Len(brought.s) \in Nat /\ NoneOf(z, {"LF"})
        /\ Len(f) = 5 + 1 /\ f[5 + 1] = brought.s /\ SameTo(5, g, f)
    BY <1>10 DEF EatLF
  <2>a. brought.err = "nil" /\ Text[brought.pos] = "LF"
    BY <2>1
  <2>2. l = LineWith(F, x, Yes, "nil", i, w, o)
    BY ONLY <2>a, <1>b, <1>6, AteLF, Zenon
  <2>3. Len(f) >= 6 /\ f[6] = brought.s
    BY <2>1
  <2> HIDE DEF z
  <2>4. m = LineWith("end", x, Yes, "nil", i, w, r)
    BY <1>7, <2>2
  <2>5. Tells(m, z)
    BY <1>9, <2>1, <2>3, <2>4
  <2>6. m.field = "end" /\ m.nomore /\ m.err = "nil"
    BY <2>4 DEF LineWith, Yes
  <2>7. EndWhole(A, before, m, brought.pos)
    BY <2>1, <2>5, <2>6 DEF EndWhole, WholeLine
  <2> QED
    BY <2>7 DEF OverOK
<1>11. CASE EatTab(A, before, part, 5, room, brought)
  <2> DEFINE y == Cat(part, brought.s)
             q == Tabbed(y)
             f == Fields(q)
  <2>1. /\ brought.err = "nil" /\ Text[brought.pos] = "TAB" /\ q \in Seq(A) /\ Consumed(before, q, brought.pos)
        /\ Len(brought.s) <= room /\ Len(brought.s) \in Nat
        /\ MidLine(q, 5 + 1) /\ f[5 + 1] = brought.s /\ SameTo(5, g, f)
    BY <1>11 DEF EatTab
  <2>a. brought.err = "nil" /\ Text[brought.pos] = "TAB"
    BY <2>1
  <2>2. l = LineWith(F, x, No, "nil", i, w, o)
    BY ONLY <2>a, <1>b, <1>6, AteTab, Zenon
  <2>3. MidLine(q, 6) /\ f[6] = brought.s
    BY <2>1
  <2> HIDE DEF y
  <2>4. q # <<>>
    BY DEF Tabbed
  <2> HIDE DEF q
  <2>5. m = LineWith("end", x, No, "nil", i, w, r)
    BY <1>7, <2>2
  <2>6. ASSUME NEW v \in Seq(A) PROVE Tells(m, Cat(q, v))
    <3> DEFINE z == Cat(q, v)
    <3>1. z \in Seq(A)
      BY <2>1, Assoc
    <3>2. Len(Fields(z)) >= 6 + 1 /\ SameTo(6, f, Fields(z))
      BY <2>1, <2>3, ReadStays
    <3> HIDE DEF z
    <3>3. Len(Fields(z)) \in Nat
      BY <3>1, FieldLengths
    <3> HIDE DEF f
    <3> DEFINE h == Fields(z)
    <3> HIDE DEF h
    <3>4. Len(h) >= 6 /\ h[6] = brought.s
      BY <2>3, <3>2, <3>3 DEF SameTo, h
    <3>5. SameTo(5, g, h)
      BY <2>1, <3>2 DEF SameTo, h
    <3>6. Tells(m, z)
      BY <1>9, <2>1, <2>5, <3>1, <3>4, <3>5 DEF h
    <3> QED
      BY <3>6 DEF z
  <2>7. m.field = "end" /\ ~m.nomore /\ m.err = "nil"
    BY <2>5 DEF LineWith, No
  <2>8. EndWithin(A, before, m, brought.pos)
    BY <2>1, <2>3, <2>4, <2>6, <2>7 DEF EndWithin, PartLine, MidLine
  <2> QED
    BY <2>8 DEF OverOK
<1>12. CASE EatLarge(A, before, part, 5, room, brought) \/ EatBroken(A, before, brought) \/ EatEOF(before, part, brought)
  <2> DEFINE e == brought.err
  <2>0. e = brought.err
    OBVIOUS
  <2>1. e # "nil"
    BY <1>12, NotNil
  <2> HIDE DEF e
  <2>2. l = LineWith(F, x, No, e, i, w, o)
    BY ONLY <2>1, <1>b, <1>6, <2>0, AteNone
  <2>3. m = LineWith("end", x, No, e, i, w, r)
    BY <1>7, <2>2
  <2>5. m.field = "end" /\ m.err = e /\ ~m.nomore
    BY <2>3 DEF LineWith, No
  <2>6. m.err = brought.err
    BY <2>0, <2>5
  <2>7. CASE EatLarge(A, before, part, 5, room, brought)
    <3>1. brought.err = "too large"
      BY <2>7 DEF EatLarge
    <3>2. ASSUME NEW f, Len(f) >= 5 + 1, Len(f[5 + 1]) > room, SameTo(5, g, f), Len(f) \in Nat,
                 \A y \in 1 .. Len(f) : Len(f[y]) \in Nat
          PROVE  NotOne(f)
      <4> DEFINE a == Len(f[1])
                 b == Len(f[5])
                 c == Len(f[6])
      <4>1. u = a + b
        BY <1>8, <3>2
      <4>2. 6 \in 1 .. Len(f) /\ 5 + 1 = 6 /\ Len(f) > 5
        BY <3>2
      <4>3. c > room /\ c \in Nat
        BY <3>2, <4>2
      <4>4. (a + b) + c > InbufLen
        <5> HIDE DEF a, b, c
        <5> QED
          BY <1>c, <1>d, <4>1, <4>3
      <4> QED
        BY <4>2, <4>4 DEF NotOne
    <3>3. EndWithin(A, before, m, brought.pos)
      BY <2>5, <2>6, <2>7, <3>1, <3>2, TooLargeIs
    <3> QED
      BY <3>3 DEF OverOK
  <2> QED
    BY <1>12, <2>5, <2>6, <2>7, LineEnds
<1> QED
  BY <1>3, <1>10, <1>11, <1>12

LEMMA NoRefsRead ==
    ASSUME NEW A, NEW before, Reading(A, before), LastRefs(A, before, line, pos), OverReferences
    PROVE  pos' \in 0 .. Len(Text) /\ OverOK(A, before, line', pos')
<1>1. PICK z : WholeLine(A, before, pos, z) /\ Len(Fields(z)) = 5 /\ WithId(z, line, Yes)
  BY DEF LastRefs
<1> DEFINE f == Fields(z)
           x == Len(f[1]) + Len(f[5])
           i == Number(Trimmed(f[1]))
           w == Trimmed(f[5])
           o == <<>>
           F == "references"
           m == line'
<1>2. Identified(f) /\ line = LineWith(F, x, Yes, "nil", i, w, o) /\ f = Fields(z) /\ Len(f) = 5
  BY <1>1 DEF WithId
<1>3. line.nomore
  <2> HIDE DEF x, i, w, o, F
  <2> QED
    BY <1>2 DEF LineWith, Yes
<1>4. m = [line EXCEPT !.field = "end"] /\ pos' = pos
  BY <1>3 DEF OverReferences
<1>5. o = Sixth(f) /\ o = FirstReference(o) /\ Len(o) = 0
  BY <1>2, NoReference DEF Sixth
<1>6. Len(f[1]) + Len(f[5]) + Len(o) <= InbufLen
  <2>1. \A y \in 1 .. 5 : Len(f[y]) \in Nat
    BY <1>1, <1>2, FieldLengths DEF WholeLine
  <2> DEFINE a == Len(f[1])
             b == Len(f[5])
  <2>2. a \in Nat /\ b \in Nat /\ a + b <= InbufLen
    BY <1>2, <2>1 DEF Identified
  <2> HIDE DEF a, b
  <2>3. (a + b) + 0 <= InbufLen
    BY <2>2, InbufAssumption
  <2> QED
    BY <1>5, <2>3 DEF a, b
<1>7. z \in Seq(A) /\ Len(f) > 4 /\ i = Number(Trimmed(f[1])) /\ w = Trimmed(f[5])
  BY <1>1, <1>2 DEF WholeLine
<1> HIDE DEF f, x, i, w, o, F, m
<1>8. m = LineWith("end", x, Yes, "nil", i, w, o)
  BY <1>2, <1>4 DEF LineWith
<1>9. Tells(m, z)
  <2> DEFINE r == FirstReference(o)
  <2>1. r = FirstReference(o) /\ r = o
    BY <1>5
  <2> HIDE DEF r
  <2>2. m = LineWith("end", x, Yes, "nil", i, w, r)
    BY <1>8, <2>1
  <2>3. o = Sixth(f) /\ f = Fields(z) /\ Identified(f)
    BY <1>2, <1>5
  <2> QED
    BY <1>6, <1>7, <2>1, <2>2, <2>3, SaidOf
<1>10. m.field = "end" /\ m.nomore /\ m.err = "nil"
  BY <1>8 DEF LineWith, Yes
<1>11. EndWhole(A, before, m, pos)
  BY <1>1, <1>9, <1>10 DEF EndWhole
<1>12. OverOK(A, before, m, pos)
  BY <1>11 DEF OverOK
<1> QED
  BY <1>4, <1>12 DEF m, Reading, TextOK

\* What a line of an overview leaves unread.
LEMMA DrainIs ==
    ASSUME NEW A, TextOK(A), NEW e, e = NextOf({"LF"})
    PROVE  \/ e = 0 /\ \E w \in Seq(A) : NoneOf(w, {"LF"}) /\ Text = Cat(Done, w)
           \/ e \in 1 .. Len(Text) /\ \E w \in Seq(A) : NoneOf(w, {"LF"}) /\ SubSeq(Text, 1, e) = Cat(Done, LFd(w))
<1> DEFINE S == {"LF"}
           N == Len(Text)
           brought == ReadTo(S, N)
           s == SubSeq(Text, pos + 1, IF e = 0 THEN N ELSE e - 1)
<1>1. GotOne(A, S, N, brought) \/ GotEnd(A, S, brought)
  BY NeverLarge
<1>2. brought = IF Len(s) > N THEN [err |-> "too large", s |-> <<>>, pos |-> pos + N + 1]
            ELSE IF e = 0 THEN [err |-> AtTextEnd, s |-> <<>>, pos |-> N]
            ELSE [err |-> "nil", s |-> s, pos |-> e]
  BY DEF ReadTo
<1> HIDE DEF brought, s
<1>3. AtTextEnd # "nil" /\ AtTextEnd # "too large"
  BY DEF AtTextEnd
<1>4. brought.err # "too large"
  BY <1>1, <1>3 DEF GotOne, GotEnd
<1>5. brought = IF e = 0 THEN [err |-> AtTextEnd, s |-> <<>>, pos |-> N] ELSE [err |-> "nil", s |-> s, pos |-> e]
  BY <1>2, <1>4
<1>6. CASE e = 0
  <2>1. brought.err = AtTextEnd
    BY <1>5, <1>6
  <2>2. GotEnd(A, S, brought)
    BY <1>1, <1>3, <2>1 DEF GotOne
  <2> QED
    BY <1>6, <2>2 DEF GotEnd, Cat
<1>7. CASE e # 0
  <2>1. brought.err = "nil" /\ brought.pos = e /\ brought.s = s
    BY <1>5, <1>7
  <2>2. GotOne(A, S, N, brought)
    BY <1>1, <1>3, <2>1 DEF GotEnd
  <2>3. /\ e \in 1 .. Len(Text) /\ s \in Seq(A) /\ NoneOf(s, S) /\ Text[e] = "LF" /\ "LF" \in A
        /\ SubSeq(Text, 1, e) = (Done \o s) \o <<Text[e]>>
    BY <2>1, <2>2 DEF GotOne
  <2> DEFINE t == <<"LF">>
  <2>4. Done \in Seq(A) /\ t \in Seq(A)
    <3>1. Text \in Seq(A) /\ pos \in 0 .. Len(Text)
      BY DEF TextOK
    <3> QED
      BY <2>3, <3>1 DEF Done
  <2>5. SubSeq(Text, 1, e) = Cat(Cat(Done, s), t)
    BY <2>3 DEF Cat
  <2> HIDE DEF t
  <2>6. SubSeq(Text, 1, e) = Cat(Done, Cat(s, t))
    BY <2>3, <2>4, <2>5, Assoc
  <2>7. Cat(s, t) = LFd(s)
    BY DEF LFd, Cat, t
  <2> QED
    BY <2>3, <2>6, <2>7
<1> QED
  BY <1>6, <1>7

\* What is listed when a line of an overview has been read.
LEMMA OverTaken ==
    ASSUME NEW A, NEW before, Reading(A, before), EndsLine(before), list.how = "over",
           listed = WhatIsListed(list, ListLines(before)), NEW x, x \in Seq(A), NoneOf(x, {"LF"}), Tells(line, x),
           IF line.err = "nil" THEN Include([id |-> line.id, msgid |-> line.msgid, ref |-> line.ref])
           ELSE UNCHANGED listed,
           NEW b, b = Cat(before, LFd(x))
    PROVE  listed' = WhatIsListed(list, ListLines(b)) /\ b \in Seq(A) /\ EndsLine(b)
<1>1. b \in Seq(A) /\ EndsLine(b)
  BY LineUp DEF Reading, ListOK, Bytes, Cat
<1>2. WhatIsListed(list, ListLines(b)) = Taken(list, listed, EntriesOf(list, x))
  BY LineSaid DEF Reading, ListOK, Bytes, Cat
<1>3. EntriesOf(list, x) = OverviewOf(x).entries
  BY DEF EntriesOf
<1> DEFINE e == EntryOf(line)
           es == OverviewOf(x).entries
<1>4. e.id = line.id
  BY DEF EntryOf
<1>5. IF line.err = "nil"
      THEN listed' = IF AskedFor(list, line.id) /\ Len(listed) < list.max THEN Append(listed, e) ELSE listed
      ELSE listed' = listed
  BY DEF Include, EntryOf
<1> HIDE DEF e, es
<1>6. CASE line.err = "nil" /\ es = <<e>>
  <2>1. es[1] = e /\ es # <<>>
    BY <1>6
  <2>2. Taken(list, listed, es)
        = IF es # <<>> /\ AskedFor(list, es[1].id) /\ Len(listed) < list.max THEN Append(listed, es[1]) ELSE listed
    BY DEF Taken
  <2>3. Taken(list, listed, es)
        = IF AskedFor(list, e.id) /\ Len(listed) < list.max THEN Append(listed, e) ELSE listed
    BY <2>1, <2>2
  <2> QED
    BY <1>1, <1>2, <1>3, <1>4, <1>5, <1>6, <2>3 DEF es
<1>7. CASE (line.err = "nil" => line.id = 0) /\ es = <<>>
  <2>1. listed' = listed
    <3>1. ~AskedFor(list, 0)
      BY DEF AskedFor
    <3> QED
      BY <1>5, <1>7, <3>1
  <2>2. Taken(list, listed, es) = listed
    BY <1>7 DEF Taken
  <2> QED
    BY <1>1, <1>2, <1>3, <2>1, <2>2 DEF es
<1> QED
  BY <1>6, <1>7 DEF Tells, e, es

\* A line of an overview has been read: what is consumed.
LEMMA OverEnded ==
    ASSUME NEW A, NEW before, Reading(A, before), EndsLine(before), OverOK(A, before, line, pos), line.field = "end",
           ~(line.err = "broken" \/ (~line.nomore /\ list.cut /\ NextOf({"LF"}) = 0)), line.err # "EOF"
    PROVE  /\ Drained \in 0 .. Len(Text)
           /\ \E x \in Seq(A) : NoneOf(x, {"LF"}) /\ Tells(line, x) /\ SubSeq(Text, 1, Drained) = Cat(before, LFd(x))
<1>0. Text \in Seq(A) /\ pos \in 0 .. Len(Text) /\ "LF" \in A /\ before \in Seq(A)
  BY DEF Reading, TextOK, ListOK, Bytes
<1>1. EndWhole(A, before, line, pos) \/ EndWithin(A, before, line, pos)
  <2>1. ~(line = NewLine)
    BY DEF NewLine
  <2>2. ~InField(A, before, line, pos)
    <3>1. SUFFICES ASSUME NEW n \in 1 .. 4, NEW part, AtField(n, part, line) PROVE FALSE
      BY DEF InField
    <3>2. line.field = FieldOf(n)
      BY <3>1, LineFields DEF AtField
    <3>3. n = 1 \/ n = 2 \/ n = 3 \/ n = 4
      OBVIOUS
    <3> QED
      BY <3>2, <3>3 DEF FieldOf
  <2>3. ASSUME NEW x, NEW N, WithId(x, line, N) PROVE FALSE
    <3>1. line.field = "references"
      BY <2>3 DEF WithId, LineWith
    <3> QED
      BY <3>1
  <2> QED
    BY <2>1, <2>2, <2>3 DEF OverOK, InRefs, LastRefs, EndBroken, EndAll
<1>2. CASE EndWhole(A, before, line, pos)
  <2>1. PICK x : WholeLine(A, before, pos, x) /\ Tells(line, x) /\ line.nomore
    BY <1>2 DEF EndWhole
  <2>2. Drained = pos
    BY <2>1 DEF Drained
  <2> QED
    BY <1>0, <2>1, <2>2 DEF WholeLine, Consumed
<1>3. CASE EndWithin(A, before, line, pos)
  <2> DEFINE e == NextOf({"LF"})
  <2>1. PICK q : PartLine(A, before, pos, q) /\ q # <<>> /\ (\A v \in Seq(A) : Tells(line, Cat(q, v))) /\ ~line.nomore
    BY <1>3 DEF EndWithin
  <2>2. Drained = IF e = 0 THEN Len(Text) ELSE e
    BY <2>1 DEF Drained
  <2>3. Done = Cat(before, q) /\ q \in Seq(A) /\ NoneOf(q, {"LF"})
    BY <2>1 DEF PartLine, Consumed, Done
  <2>4. \/ e = 0 /\ \E w \in Seq(A) : NoneOf(w, {"LF"}) /\ Text = Cat(Done, w)
        \/ e \in 1 .. Len(Text) /\ \E w \in Seq(A) : NoneOf(w, {"LF"}) /\ SubSeq(Text, 1, e) = Cat(Done, LFd(w))
    BY DrainIs DEF Reading
  <2>a. e = 0 => ~list.cut
    BY <2>1
  <2> HIDE DEF e
  <2>5. CASE e = 0
    <3>1. PICK w \in Seq(A) : NoneOf(w, {"LF"}) /\ Text = Cat(Done, w)
      BY <2>4, <2>5
    <3> DEFINE v == Cat(q, w)
    <3>2. v \in Seq(A) /\ NoneOf(v, {"LF"})
      BY <2>3, <3>1, NoneCat DEF Cat
    <3>3. Text = Cat(before, v)
      BY <1>0, <2>3, <3>1, Assoc
    <3>4. EndsLine(Text)
      BY <2>a, <2>5 DEF Reading, ListOK, Text
    <3>5. v # <<>>
      <4>1. Len(v) = Len(q) + Len(w) /\ Len(q) \in Nat \ {0} /\ Len(w) \in Nat
        BY <2>1, <2>3, <3>1, CatIs DEF Cat
      <4> HIDE DEF v
      <4>2. Len(v) # 0
        BY <4>1
      <4> QED
        BY <4>2
    <3> HIDE DEF v
    <3>6. EndsLine(before \o v)
      BY <3>3, <3>4 DEF Cat
    <3> QED
      BY <1>0, <3>2, <3>5, <3>6, EndsNone
  <2>6. CASE e # 0
    <3>1. PICK w \in Seq(A) : NoneOf(w, {"LF"}) /\ SubSeq(Text, 1, e) = Cat(Done, LFd(w)) /\ e \in 1 .. Len(Text)
      BY <2>4, <2>6
    <3> DEFINE x == Cat(q, w)
               t == <<"LF">>
    <3>2. x \in Seq(A) /\ NoneOf(x, {"LF"}) /\ t \in Seq(A)
      BY <1>0, <2>3, <3>1, NoneCat DEF Cat
    <3>3. Tells(line, x)
      BY <2>1, <3>1
    <3>4. LFd(w) = Cat(w, t) /\ LFd(x) = Cat(x, t)
      BY DEF LFd, Cat
    <3> HIDE DEF t
    <3>5. Cat(Cat(before, q), Cat(w, t)) = Cat(before, Cat(q, Cat(w, t))) /\ Cat(w, t) \in Seq(A)
      <4> DEFINE y == Cat(w, t)
      <4>1. y \in Seq(A)
        BY <3>2, Assoc
      <4> HIDE DEF y
      <4>2. Cat(Cat(before, q), y) = Cat(before, Cat(q, y))
        BY <1>0, <2>3, <4>1, Assoc
      <4> QED
        BY <4>1, <4>2 DEF y
    <3>6. Cat(q, Cat(w, t)) = Cat(x, t)
      BY <2>3, <3>2, Assoc
    <3> HIDE DEF x
    <3>7. SubSeq(Text, 1, e) = Cat(before, LFd(x))
      BY <2>3, <3>1, <3>4, <3>5, <3>6
    <3>8. Drained = e /\ e \in 0 .. Len(Text)
      <4> DEFINE N == Len(Text)
      <4>1. N \in Nat /\ e \in 1 .. N
        BY <1>0, <3>1
      <4> HIDE DEF N
      <4>2. e \in 0 .. N
        BY <4>1
      <4> QED
        BY <2>2, <2>6, <4>2 DEF N
    <3> QED
      BY <3>2, <3>3, <3>7, <3>8
  <2> QED
    BY <2>5, <2>6
<1> QED
  BY <1>1, <1>2, <1>3

\* What the lists that are read line by line say, and which lines they refuse.
LEMMA LineEaten ==
    ASSUME NEW A, NEW before, Reading(A, before), EndsLine(before), list.how # "over", Consumed(before, <<>>, pos),
           NEW brought, brought = ReadTo({"LF"}, Len(Text))
    PROVE  \/ brought.err = "EOF" /\ ~list.cut /\ brought.pos = Len(Text) /\ Text = before
           \/ brought.err = "broken" /\ list.cut
           \/ /\ brought.err = "nil" /\ brought.pos \in 0 .. Len(Text)
              /\ brought.s \in Seq(A) /\ NoneOf(brought.s, {"LF"}) /\ brought.s \in Range(ListLines(Text))
              /\ SubSeq(Text, 1, brought.pos) = Cat(before, LFd(brought.s))
<1> DEFINE S == {"LF"}
           N == Len(Text)
           s == brought.s
           e == brought.pos
<1>1. Text \in Seq(A) /\ pos \in 0 .. Len(Text) /\ "LF" \in A /\ before \in Seq(A) /\ N \in Nat
  BY DEF Reading, TextOK, ListOK, Bytes
<1>2. Done = before
  <2>1. Done = Cat(before, <<>>)
    BY DEF Consumed, Done
  <2>2. before \o <<>> = before
    BY <1>1
  <2> QED
    BY <2>1, <2>2 DEF Cat
<1>3. GotOne(A, S, N, brought) \/ GotEnd(A, S, brought)
  BY NeverLarge DEF Reading
<1>4. CASE GotEnd(A, S, brought)
  <2>1. PICK w \in Seq(A) : NoneOf(w, S) /\ Text = Done \o w
    BY <1>4 DEF GotEnd
  <2>2. brought.err = AtTextEnd /\ brought.pos = N
    BY <1>4 DEF GotEnd
  <2>3. CASE list.cut
    BY <2>2, <2>3 DEF AtTextEnd
  <2>4. CASE ~list.cut
    <3>1. EndsLine(before \o w)
      <4>1. EndsLine(Text)
        BY <2>4 DEF Reading, ListOK, Text
      <4> QED
        BY <1>2, <2>1, <4>1
    <3>2. w = <<>>
      BY <1>1, <2>1, <3>1, EndsNone
    <3>3. before \o w = before
      BY <1>1, <3>2
    <3>4. Text = before
      BY <1>2, <2>1, <3>3
    <3> QED
      BY <2>2, <2>4, <3>4 DEF AtTextEnd
  <2> QED
    BY <2>3, <2>4
<1>5. CASE GotOne(A, S, N, brought)
  <2>1. /\ brought.err = "nil" /\ e \in 1 .. N /\ s \in Seq(A) /\ NoneOf(s, S) /\ Text[e] = "LF"
        /\ SubSeq(Text, 1, e) = (Done \o s) \o <<Text[e]>>
    BY <1>5 DEF GotOne
  <2> DEFINE t == <<"LF">>
             v == SubSeq(Text, e + 1, N)
  <2>2. t \in Seq(A) /\ Cat(s, t) = LFd(s)
    BY <1>1 DEF Cat, LFd
  <2>3. SubSeq(Text, 1, e) = Cat(Cat(before, s), t)
    BY <1>2, <2>1 DEF Cat
  <2> HIDE DEF t, s, e, N
  <2>4. SubSeq(Text, 1, e) = Cat(before, LFd(s))
    BY <1>1, <2>1, <2>2, <2>3, Assoc
  <2>5. Text = SubSeq(Text, 1, e) \o v /\ v \in Seq(A)
    <3>1. e \in Nat /\ e <= N /\ N \in Nat
      BY <1>1, <2>1
    <3>2. N = Len(Text)
      BY DEF N
    <3>3. SubSeq(Text, 1, N) = SubSeq(Text, 1, e) \o v /\ v \in Seq(A)
      <4> DEFINE T == Text
      <4>1. T \in Seq(A) /\ N <= Len(T)
        BY <1>1, <3>1, <3>2
      <4> HIDE DEF T
      <4>2. SubSeq(T, 1, N) = SubSeq(T, 1, e) \o SubSeq(T, e + 1, N) /\ SubSeq(T, e + 1, N) \in Seq(A)
        BY ONLY <3>1, <4>1, PrefixUp
      <4> QED
        BY <4>2 DEF T, v
    <3>4. SubSeq(Text, 1, N) = Text
      BY <1>1, <3>2
    <3> QED
      BY <3>3, <3>4
  <2> HIDE DEF v
  <2>6. Text = (before \o LFd(s)) \o v
    BY <2>4, <2>5 DEF Cat
  <2>7. s \in Range(ListLines((before \o LFd(s)) \o v))
    BY <1>1, <2>1, <2>5, LineThere
  <2>8. s \in Range(ListLines(Text))
    BY <2>6, <2>7
  <2>9. e \in 0 .. N
    BY <1>1, <2>1
  <2> QED
    BY <2>1, <2>4, <2>8, <2>9 DEF s, e, N
<1> QED
  BY <1>3, <1>4, <1>5

\* What is listed when such a line has been read.
LEMMA LineTaken ==
    ASSUME NEW A, NEW before, Reading(A, before), EndsLine(before), list.how # "over",
           listed = WhatIsListed(list, ListLines(before)), NEW x, x \in Seq(A), NoneOf(x, {"LF"}),
           NEW e, e = Understood(list, x).entries,
           IF list.how = "hdr" /\ e # <<>> THEN Include(e[1]) ELSE listed' = listed \o e,
           NEW b, b = Cat(before, LFd(x))
    PROVE  listed' = WhatIsListed(list, ListLines(b)) /\ b \in Seq(A) /\ EndsLine(b)
<1>1. b \in Seq(A) /\ EndsLine(b)
  BY LineUp DEF Reading, ListOK, Bytes, Cat
<1>2. WhatIsListed(list, ListLines(b)) = Taken(list, listed, EntriesOf(list, x)) /\ \E E : listed \in Seq(E)
  BY LineSaid DEF Reading, ListOK, Bytes, Cat
<1>3. EntriesOf(list, x) = e
  BY DEF EntriesOf
<1>4. listed' = Taken(list, listed, e)
  <2>1. CASE list.how = "hdr" /\ e # <<>>
    BY <2>1 DEF Taken, Include
  <2>2. CASE list.how = "hdr" /\ e = <<>>
    <3>1. listed' = listed \o <<>>
      BY <2>2
    <3>2. listed \o <<>> = listed
      BY <1>2
    <3> QED
      BY <2>2, <3>1, <3>2 DEF Taken
  <2>3. CASE list.how # "hdr"
    BY <2>3 DEF Taken
  <2> QED
    BY <2>1, <2>2, <2>3
<1> QED
  BY <1>1, <1>2, <1>3, <1>4

\* What is known of a list while it is read: the lines that have been read, what
\* they say, and of an overview the line that is being read.
ListReading(A) ==
    \E before \in Seq(A) :
        /\ EndsLine(before) /\ listed = WhatIsListed(list, ListLines(before))
        /\ IF list.how = "over" THEN OverOK(A, before, line, pos) ELSE Consumed(before, <<>>, pos)

ListInv(A) ==
    /\ ListOK(A, list) /\ TextOK(A) /\ outcome \in {"reading", "read", "failed"}
    /\ outcome = "reading" => ListReading(A)
    /\ ListTrue

\* The lists that are asked for: bytes of A, a text that ends after a line unless it is cut.
ListsOf(A, lists) == \A l \in lists : ListOK(A, l) /\ l.text \in Seq(A)

LEMMA ListStarts ==
    ASSUME NEW A, NEW lists, ListsOf(A, lists), ListInit(lists)
    PROVE  ListInv(A)
<1>1. ListOK(A, list) /\ Text \in Seq(A) /\ pos = 0 /\ line = NewLine /\ listed = <<>> /\ outcome = "reading"
  BY DEF ListInit, ListsOf, Text
<1>2. TextOK(A)
  BY <1>1 DEF TextOK
<1>3. Consumed(<<>>, <<>>, pos) /\ <<>> \in Seq(A) /\ EndsLine(<<>>)
  <2>1. SubSeq(Text, 1, 0) = <<>> /\ <<>> \o <<>> = <<>>
    BY <1>1
  <2> QED
    BY <1>1, <2>1 DEF Consumed, Cat, EndsLine
<1>4. listed = WhatIsListed(list, ListLines(<<>>))
  BY <1>1, NothingSaid DEF ListOK
<1>5. ListReading(A)
  BY <1>1, <1>3, <1>4 DEF ListReading, OverOK
<1> QED
  BY <1>1, <1>2, <1>5 DEF ListInv, ListTrue

\* The steps within a line of an overview.
LEMMA OverReads ==
    ASSUME NEW A, NEW before, Reading(A, before), OverOK(A, before, line, pos),
           OverNumber \/ OverIgnored \/ OverMsgID \/ OverReferences
    PROVE  pos' \in 0 .. Len(Text) /\ OverOK(A, before, line', pos')
<1> DEFINE field == line.field
<1>1. \/ OverNumber /\ field = "number"
      \/ OverIgnored /\ field \in {"subject", "author", "date"}
      \/ OverMsgID /\ field = "message-id"
      \/ OverReferences /\ field = "references"
  <2>1. OverNumber => InLine({"number"})
    BY Zenon DEF OverNumber
  <2>2. OverIgnored => InLine({"subject", "author", "date"})
    BY Zenon DEF OverIgnored
  <2>3. OverMsgID => InLine({"message-id"})
    BY Zenon DEF OverMsgID
  <2>4. OverReferences => InLine({"references"})
    BY Zenon DEF OverReferences
  <2> QED
    BY <2>1, <2>2, <2>3, <2>4 DEF InLine
<1>2. CASE line = NewLine /\ Consumed(before, <<>>, pos)
  <2>1. field = "number"
    BY <1>2 DEF NewLine
  <2> QED
    BY <1>1, <1>2, <2>1, NumberRead
<1>3. CASE InField(A, before, line, pos)
  <2>1. PICK n \in 1 .. 4, part \in Seq(A) : Consumed(before, part, pos) /\ AtField(n, part, line)
    BY <1>3 DEF InField
  <2>2. field = FieldOf(n)
    BY <2>1 DEF AtField, LineWith
  <2>3. n \in 1 .. 3 \/ n = 4
    OBVIOUS
  <2>4. CASE n = 4
    <3>1. field = "message-id"
      BY <2>2, <2>4 DEF FieldOf
    <3> QED
      BY <1>1, <2>1, <2>4, <3>1, MsgIDRead
  <2>5. CASE n \in 1 .. 3
    <3>1. field \in {"subject", "author", "date"}
      <4>1. n = 1 \/ n = 2 \/ n = 3
        BY <2>5
      <4> QED
        BY <2>2, <4>1 DEF FieldOf
    <3>2. OverIgnored
      BY <1>1, <3>1
    <3> QED
      BY <2>1, <2>5, <3>2, IgnoredRead
  <2> QED
    BY <2>3, <2>4, <2>5
<1>4. ASSUME NEW x, NEW N, WithId(x, line, N) PROVE field = "references"
  BY <1>4 DEF WithId, LineWith
<1>5. CASE InRefs(A, before, line, pos)
  <2>1. PICK part \in Seq(A) : Consumed(before, part, pos) /\ MidLine(part, 5) /\ WithId(part, line, No)
    BY <1>5 DEF InRefs
  <2>2. OverReferences
    BY <1>1, <1>4, <2>1
  <2> QED
    BY <2>1, <2>2, RefsRead
<1>6. CASE LastRefs(A, before, line, pos)
  <2>1. field = "references"
    BY <1>4, <1>6 DEF LastRefs
  <2> QED
    BY <1>1, <1>6, <2>1, NoRefsRead
<1>7. CASE \/ EndWhole(A, before, line, pos) \/ EndWithin(A, before, line, pos)
           \/ EndBroken(line) \/ EndAll(before, line, pos)
  <2>1. field = "end"
    BY <1>7 DEF EndWhole, EndWithin, EndBroken, EndAll
  <2> QED
    BY <1>1, <2>1
<1> QED
  BY <1>2, <1>3, <1>5, <1>6, <1>7 DEF OverOK

\* The list itself stays.
LEMMA ListStays ==
    ASSUME NEW A, list' = list, ListOK(A, list), TextOK(A), pos' \in 0 .. Len(Text)
    PROVE  ListOK(A, list)' /\ TextOK(A)' /\ Text' = Text
BY DEF ListOK, TextOK, Text

LEMMA OverStays ==
    ASSUME NEW A, NEW before, list' = list, OverOK(A, before, line', pos')
    PROVE  OverOK(A, before, line, pos)'
<1>1. Text' = Text
  BY DEF Text
<1>2. \A x, p : Consumed(x, <<>>, p)' <=> Consumed(x, <<>>, p)
  BY <1>1 DEF Consumed
<1> QED
  BY <1>1 DEF OverOK, InField, InRefs, LastRefs, EndWhole, EndWithin, EndBroken, EndAll, WholeLine, PartLine,
     Consumed, AtField, WithId, MidLine, Tells, NewLine

LEMMA OverSteps ==
    ASSUME NEW A, ListInv(A), outcome = "reading", list.how = "over",
           OverNumber \/ OverIgnored \/ OverMsgID \/ OverReferences
    PROVE  ListInv(A)'
<1>1. ListOK(A, list) /\ TextOK(A) /\ ListReading(A)
  BY DEF ListInv
<1>2. PICK before \in Seq(A) :
        EndsLine(before) /\ listed = WhatIsListed(list, ListLines(before)) /\ OverOK(A, before, line, pos)
  BY <1>1 DEF ListReading
<1>3. UNCHANGED <<list, listed, outcome>>
  <2>1. OverNumber => UNCHANGED <<list, listed, outcome>>
    BY Zenon DEF OverNumber
  <2>2. OverIgnored => UNCHANGED <<list, listed, outcome>>
    BY Zenon DEF OverIgnored
  <2>3. OverMsgID => UNCHANGED <<list, listed, outcome>>
    BY Zenon DEF OverMsgID
  <2>4. OverReferences => UNCHANGED <<list, listed, outcome>>
    BY Zenon DEF OverReferences
  <2> QED
    BY <2>1, <2>2, <2>3, <2>4
<1>4. pos' \in 0 .. Len(Text) /\ OverOK(A, before, line', pos')
  BY <1>1, <1>2, OverReads DEF Reading
<1>5. OverOK(A, before, line, pos)' /\ ListOK(A, list)' /\ TextOK(A)'
  BY <1>1, <1>3, <1>4, ListStays, OverStays
<1>6. listed' = WhatIsListed(list', ListLines(before)) /\ list'.how = "over"
  BY <1>2, <1>3
<1>7. ListReading(A)'
  BY <1>2, <1>5, <1>6 DEF ListReading
<1>8. outcome' = "reading"
  BY <1>3
<1> QED
  BY <1>5, <1>7, <1>8 DEF ListInv, ListTrue

LEMMA OverEnds ==
    ASSUME NEW A, ListInv(A), OverEnd
    PROVE  ListInv(A)'
<1> DEFINE broken == line.err = "broken" \/ (~line.nomore /\ list.cut /\ NextOf({"LF"}) = 0)
<1>1. /\ list.how = "over" /\ outcome = "reading" /\ line.field = "end" /\ list' = list
      /\ \/ broken /\ Refuse
         \/ ~broken /\ line.err = "EOF" /\ outcome' = "read" /\ UNCHANGED <<pos, line, listed>>
         \/ /\ ~broken /\ line.err # "EOF" /\ pos' = Drained
            /\ IF line.err = "nil"
               THEN Include([id |-> line.id, msgid |-> line.msgid, ref |-> line.ref])
               ELSE UNCHANGED listed
            /\ line' = NewLine /\ UNCHANGED outcome
  BY DEF OverEnd, InLine
<1>2. ListOK(A, list) /\ TextOK(A) /\ ListReading(A)
  BY <1>1 DEF ListInv
<1>3. PICK before \in Seq(A) :
        EndsLine(before) /\ listed = WhatIsListed(list, ListLines(before)) /\ OverOK(A, before, line, pos)
  BY <1>1, <1>2 DEF ListReading
<1>4. Text \in Seq(A) /\ Len(Text) \in Nat /\ Len(Text) \in 0 .. Len(Text) /\ Text' = Text
  BY <1>1, <1>2 DEF TextOK, Text
<1>a. line.field # "number" /\ line # NewLine
  BY <1>1 DEF NewLine
<1>b. ~InField(A, before, line, pos) /\ ~InRefs(A, before, line, pos) /\ ~LastRefs(A, before, line, pos)
  <2>1. ASSUME NEW n \in 1 .. 4, NEW part, AtField(n, part, line) PROVE FALSE
    <3>1. line.field = FieldOf(n)
      BY <2>1 DEF AtField, LineWith
    <3>2. n = 1 \/ n = 2 \/ n = 3 \/ n = 4
      OBVIOUS
    <3> QED
      BY <1>1, <3>1, <3>2 DEF FieldOf
  <2>2. ASSUME NEW x, NEW N, WithId(x, line, N) PROVE FALSE
    <3>1. line.field = "references"
      BY <2>2 DEF WithId, LineWith
    <3> QED
      BY <1>1, <3>1
  <2> QED
    BY <2>1, <2>2 DEF InField, InRefs, LastRefs
<1>c. \/ EndWhole(A, before, line, pos) \/ EndWithin(A, before, line, pos)
      \/ EndBroken(line) \/ EndAll(before, line, pos)
  BY <1>3, <1>a, <1>b DEF OverOK
<1>5. CASE broken /\ Refuse
  <2>1. list.cut
    BY <1>5, <1>c DEF EndWhole, EndWithin, EndBroken, EndAll
  <2>2. outcome' = "failed" /\ pos' = Len(Text)
    BY <1>5 DEF Refuse
  <2>3. ListOK(A, list)' /\ TextOK(A)'
    BY <1>1, <1>2, <1>4, <2>2, ListStays
  <2> QED
    BY <1>1, <1>4, <2>1, <2>2, <2>3 DEF ListInv, ListTrue
<1>6. CASE ~broken /\ line.err = "EOF" /\ outcome' = "read" /\ UNCHANGED <<pos, line, listed>>
  <2>1. ~list.cut /\ pos = Len(Text) /\ Consumed(before, <<>>, pos)
    BY <1>6, <1>c DEF EndWhole, EndWithin, EndBroken, EndAll
  <2>2. Text = before
    <3>1. SubSeq(Text, 1, Len(Text)) = Text /\ before \o <<>> = before
      BY <1>4
    <3> QED
      BY <2>1, <3>1 DEF Consumed, Cat
  <2>3. ListOK(A, list)' /\ TextOK(A)'
    BY <1>1, <1>2, <1>4, <1>6, ListStays DEF TextOK
  <2> QED
    BY <1>1, <1>3, <1>4, <1>6, <2>1, <2>2, <2>3 DEF ListInv, ListTrue
<1>7. CASE /\ ~broken /\ line.err # "EOF" /\ pos' = Drained
           /\ IF line.err = "nil"
              THEN Include([id |-> line.id, msgid |-> line.msgid, ref |-> line.ref])
              ELSE UNCHANGED listed
           /\ line' = NewLine /\ UNCHANGED outcome
  <2>1. Reading(A, before)
    BY <1>2 DEF Reading
  <2>2. /\ Drained \in 0 .. Len(Text)
        /\ \E x \in Seq(A) : NoneOf(x, {"LF"}) /\ Tells(line, x) /\ SubSeq(Text, 1, Drained) = Cat(before, LFd(x))
    BY <1>1, <1>3, <1>7, <2>1, OverEnded
  <2>3. PICK x \in Seq(A) : NoneOf(x, {"LF"}) /\ Tells(line, x) /\ SubSeq(Text, 1, pos') = Cat(before, LFd(x))
    BY <1>7, <2>2
  <2> DEFINE b == Cat(before, LFd(x))
  <2>4. b = Cat(before, LFd(x))
    OBVIOUS
  <2> HIDE DEF b
  <2>5. listed' = WhatIsListed(list, ListLines(b)) /\ b \in Seq(A) /\ EndsLine(b)
    BY <1>1, <1>3, <1>7, <2>1, <2>3, <2>4, OverTaken
  <2>6. Consumed(b, <<>>, pos')
    <3>1. b \o <<>> = b
      BY <2>5
    <3> QED
      BY <2>3, <2>4, <3>1 DEF Consumed, Cat
  <2>7. OverOK(A, b, line', pos')
    BY <1>7, <2>6 DEF OverOK
  <2>8. OverOK(A, b, line, pos)' /\ ListOK(A, list)' /\ TextOK(A)'
    BY <1>1, <1>2, <1>7, <2>2, <2>7, ListStays, OverStays
  <2>9. listed' = WhatIsListed(list', ListLines(b)) /\ list'.how = "over"
    BY <1>1, <2>5
  <2>10. ListReading(A)'
    BY <2>5, <2>8, <2>9 DEF ListReading
  <2>11. outcome' = "reading"
    BY <1>1, <1>7
  <2> QED
    BY <2>8, <2>10, <2>11 DEF ListInv, ListTrue
<1> QED
  BY <1>1, <1>5, <1>6, <1>7

LEMMA LineEats ==
    ASSUME NEW A, ListInv(A), EatLine
    PROVE  ListInv(A)'
<1> DEFINE brought == ReadTo({"LF"}, Len(Text))
           s == brought.s
           refused == Len(Kept(list, s)) > InbufLen \/ Understood(list, s).bad
           e == Understood(list, s).entries
<1>1. /\ list.how # "over" /\ outcome = "reading" /\ list' = list
      /\ IF brought.err = "EOF" THEN outcome' = "read" /\ pos' = brought.pos /\ UNCHANGED <<line, listed>>
         ELSE IF brought.err # "nil" \/ refused THEN Refuse
         ELSE /\ pos' = brought.pos
              /\ IF list.how = "hdr" /\ e # <<>> THEN Include(e[1]) ELSE listed' = listed \o e
              /\ UNCHANGED <<line, outcome>>
  BY DEF EatLine
<1>2. ListOK(A, list) /\ TextOK(A) /\ ListReading(A)
  BY <1>1 DEF ListInv
<1>3. PICK before \in Seq(A) :
        EndsLine(before) /\ listed = WhatIsListed(list, ListLines(before)) /\ Consumed(before, <<>>, pos)
  BY <1>1, <1>2 DEF ListReading
<1>4. Text \in Seq(A) /\ Len(Text) \in Nat /\ Len(Text) \in 0 .. Len(Text) /\ Text' = Text
  BY <1>1, <1>2 DEF TextOK, Text
<1>5. Reading(A, before)
  BY <1>2 DEF Reading
<1>6. \/ brought.err = "EOF" /\ ~list.cut /\ brought.pos = Len(Text) /\ Text = before
      \/ brought.err = "broken" /\ list.cut
      \/ /\ brought.err = "nil" /\ brought.pos \in 0 .. Len(Text)
         /\ s \in Seq(A) /\ NoneOf(s, {"LF"}) /\ s \in Range(ListLines(Text))
         /\ SubSeq(Text, 1, brought.pos) = Cat(before, LFd(s))
  BY <1>1, <1>3, <1>5, LineEaten
<1>7. e = Understood(list, s).entries
  OBVIOUS
<1>8. refused => RefusedLine(list, s)
  BY DEF RefusedLine
<1> HIDE DEF brought, e, refused
<1>9. CASE brought.err = "EOF"
  <2>1. ~list.cut /\ pos' = Len(Text) /\ Text = before /\ outcome' = "read" /\ listed' = listed
    BY <1>1, <1>6, <1>9
  <2>2. ListOK(A, list)' /\ TextOK(A)'
    BY <1>1, <1>2, <1>4, <2>1, ListStays
  <2> QED
    BY <1>1, <1>3, <1>4, <2>1, <2>2 DEF ListInv, ListTrue
<1>10. CASE brought.err # "EOF" /\ (brought.err # "nil" \/ refused)
  <2>1. outcome' = "failed" /\ pos' = Len(Text)
    BY <1>1, <1>10 DEF Refuse
  <2>2. list.cut \/ \E x \in Range(ListLines(Text)) : RefusedLine(list, x)
    BY <1>6, <1>8, <1>10
  <2>3. ListOK(A, list)' /\ TextOK(A)'
    BY <1>1, <1>2, <1>4, <2>1, ListStays
  <2> QED
    BY <1>1, <1>4, <2>1, <2>2, <2>3 DEF ListInv, ListTrue
<1>11. CASE brought.err = "nil" /\ ~refused
  <2>1. /\ pos' = brought.pos /\ outcome' = "reading"
        /\ IF list.how = "hdr" /\ e # <<>> THEN Include(e[1]) ELSE listed' = listed \o e
    BY <1>1, <1>11
  <2>2. /\ pos' \in 0 .. Len(Text) /\ s \in Seq(A) /\ NoneOf(s, {"LF"})
        /\ SubSeq(Text, 1, pos') = Cat(before, LFd(s))
    BY <1>6, <1>11, <2>1
  <2> HIDE DEF s
  <2>3. PICK b : b = Cat(before, LFd(s))
    OBVIOUS
  <2>4. listed' = WhatIsListed(list, ListLines(b)) /\ b \in Seq(A) /\ EndsLine(b)
    BY <1>1, <1>3, <1>5, <1>7, <2>1, <2>2, <2>3, LineTaken
  <2>5. Consumed(b, <<>>, pos)'
    <3>1. b \o <<>> = b
      BY <2>4
    <3> QED
      BY <1>4, <2>2, <2>3, <3>1 DEF Consumed, Cat
  <2>6. ListOK(A, list)' /\ TextOK(A)'
    BY <1>1, <1>2, <2>2, ListStays
  <2>7. listed' = WhatIsListed(list', ListLines(b)) /\ list'.how # "over"
    BY <1>1, <2>4
  <2>8. ListReading(A)'
    BY <2>4, <2>5, <2>7 DEF ListReading
  <2> QED
    BY <2>1, <2>6, <2>8 DEF ListInv, ListTrue
<1> QED
  BY <1>9, <1>10, <1>11

LEMMA ListUnmoved ==
    ASSUME NEW A, ListInv(A), UNCHANGED listVars
    PROVE  ListInv(A)'
BY DEF listVars, ListInv, ListTrue, ListOK, TextOK, Text, ListReading, OverOK, InField, InRefs, LastRefs, EndWhole,
   EndWithin, EndBroken, EndAll, WholeLine, PartLine, Consumed, AtField, WithId, MidLine, Tells, NewLine

\* Whatever a server lists, of whatever length and cut wherever: a list that is read says what its
\* lines say and no more, and one that is refused was cut or has a line that no list has, and leaves
\* nothing on the wire for the next answer (client_puller.go:681-806).
THEOREM ListCorrect ==
    ASSUME NEW CONSTANT A, NEW CONSTANT lists, ListsOf(A, lists)
    PROVE  ListInit(lists) /\ [][ListNext]_listVars => []ListTrue
<1>1. ListInit(lists) => ListInv(A)
  BY ListStarts
<1>2. ListInv(A) /\ [ListNext]_listVars => ListInv(A)'
  <2>1. SUFFICES ASSUME ListInv(A), [ListNext]_listVars PROVE ListInv(A)'
    OBVIOUS
  <2>2. CASE OverNumber \/ OverIgnored \/ OverMsgID \/ OverReferences
    <3>1. outcome = "reading" /\ list.how = "over"
      <4>1. OverNumber => InLine({"number"})
        BY Zenon DEF OverNumber
      <4>2. OverIgnored => InLine({"subject", "author", "date"})
        BY Zenon DEF OverIgnored
      <4>3. OverMsgID => InLine({"message-id"})
        BY Zenon DEF OverMsgID
      <4>4. OverReferences => InLine({"references"})
        BY Zenon DEF OverReferences
      <4> QED
        BY <2>2, <4>1, <4>2, <4>3, <4>4 DEF InLine
    <3> QED
      BY <2>1, <2>2, <3>1, OverSteps
  <2>3. CASE OverEnd
    BY <2>1, <2>3, OverEnds
  <2>4. CASE EatLine
    BY <2>1, <2>4, LineEats
  <2>5. CASE UNCHANGED listVars
    BY <2>1, <2>5, ListUnmoved
  <2> QED
    BY <2>1, <2>2, <2>3, <2>4, <2>5 DEF ListNext
<1>3. ListInv(A) => ListTrue
  BY DEF ListInv
<1> QED
  BY <1>1, <1>2, <1>3, PTL

-----------------------------------------------------------------------------
(***************************************************************************)
(* What the loops over a wildmat, a pattern and the pieces compute.        *)
(***************************************************************************)

\* Functions on 0 .. L that some step determines are there.
LEMMA StepsThere ==
    ASSUME NEW V, NEW v0 \in V, NEW L \in Nat, NEW op, op \in [(0 .. L - 1) \X V -> V]
    PROVE  \E g : RunTo(L, V, v0, op, g)
<1>1. StepTo(L, V, op)
  BY DEF StepTo
<1> QED
  BY <1>1, RecursionTo

States == {"start", "negate", "inside", "bad"}

WildmatStep(s, c) ==
    CASE c \in NameChars \cup Wild /\ s # "bad" -> "inside"
      [] c = "!" /\ s = "start" -> "negate"
      [] c = "," /\ s = "inside" -> "start"
      [] OTHER -> "bad"

LEMMA WildmatStepIn ==
    ASSUME NEW s, NEW c
    PROVE  WildmatStep(s, c) \in States
<1> DEFINE A == c \in NameChars \cup Wild /\ s # "bad"
           B == c = "!" /\ s = "start"
           C == c = "," /\ s = "inside"
<1>1. WildmatStep(s, c) = CASE A -> "inside" [] B -> "negate" [] C -> "start" [] OTHER -> "bad"
  BY DEF WildmatStep
<1> HIDE DEF A, B, C
<1> QED
  BY <1>1 DEF States

\* ValidWildmat goes from state to state.
LEMMA StateIs ==
    ASSUME NEW A, NEW x, x \in Seq(A)
    PROVE  \E f : /\ f[0] = "start" /\ \A i \in 0 .. Len(x) - 1 : f[i + 1] = WildmatStep(f[i], x[i + 1])
                  /\ \A i \in 0 .. Len(x) : f[i] \in States
                  /\ ValidWildmat(x) <=> f[Len(x)] = "inside"
<1> DEFINE L == Len(x)
           OneStep(s, c) ==
             CASE c \in NameChars \cup Wild /\ s # "bad" -> "inside"
               [] c = "!" /\ s = "start" -> "negate"
               [] c = "," /\ s = "inside" -> "start"
               [] OTHER -> "bad"
           state[n \in 0 .. Len(x)] == IF n = 0 THEN "start" ELSE OneStep(state[n - 1], x[n])
           op == [y \in (0 .. L - 1) \X States |-> WildmatStep(y[2], x[y[1] + 1])]
           F(f) == [n \in 0 .. L |-> IF n = 0 THEN "start" ELSE WildmatStep(f[n - 1], x[n])]
<1>1. L \in Nat /\ \A i \in 0 .. L - 1 : i \in 0 .. L /\ i + 1 \in 0 .. L /\ i + 1 # 0 /\ (i + 1) - 1 = i
  OBVIOUS
<1>2. op \in [(0 .. L - 1) \X States -> States]
  <2> HIDE DEF L
  <2> QED
    BY WildmatStepIn
<1>3. \A i \in 0 .. L - 1, v \in States : op[<<i, v>>] = WildmatStep(v, x[i + 1])
  <2> HIDE DEF L
  <2> QED
    OBVIOUS
<1>4. "start" \in States
  BY DEF States
<1> HIDE DEF op
<1>5. PICK g : RunTo(L, States, "start", op, g)
  BY <1>1, <1>2, <1>4, StepsThere
<1>6. g \in [0 .. L -> States] /\ g[0] = "start" /\ \A i \in 0 .. L - 1 : g[i + 1] = WildmatStep(g[i], x[i + 1])
  <2>1. g \in [0 .. L -> States] /\ g[0] = "start" /\ \A i \in 0 .. L - 1 : g[i + 1] = op[<<i, g[i]>>]
    BY <1>5 DEF RunTo
  <2> HIDE DEF L
  <2> QED
    BY <1>1, <1>3, <2>1
<1>7. g = F(g)
  <2>1. ASSUME NEW n \in 0 .. L PROVE g[n] = IF n = 0 THEN "start" ELSE WildmatStep(g[n - 1], x[n])
    <3>1. n # 0 => n - 1 \in 0 .. L - 1 /\ (n - 1) + 1 = n
      BY <1>1
    <3> HIDE DEF L
    <3> QED
      BY <1>6, <3>1
  <2> HIDE DEF L
  <2> QED
    BY <1>6, <2>1
<1>8. state = CHOOSE k : k = F(k)
  BY DEF WildmatStep
<1>9. ValidWildmat(x) <=> state[L] = "inside"
  BY DEF ValidWildmat
<1> HIDE DEF F, state
<1>10. state = F(state)
  BY <1>7, <1>8
<1>11. \A n \in 0 .. L : state[n] = IF n = 0 THEN "start" ELSE WildmatStep(state[n - 1], x[n])
  BY <1>10 DEF F
<1> HIDE DEF L
<1>12. state[0] = "start" /\ \A i \in 0 .. L - 1 : state[i + 1] = WildmatStep(state[i], x[i + 1])
  BY <1>1, <1>11
<1>13. \A i \in 0 .. L : state[i] \in States
  BY <1>4, <1>11, WildmatStepIn
<1> QED
  BY <1>9, <1>12, <1>13 DEF L

PiecesOf(A) == [pattern : Seq(A), result : BOOLEAN]

Compiling(A) == [done : Seq(PiecesOf(A)), now : Seq(A), result : BOOLEAN]

NothingCompiled == [done |-> <<>>, now |-> <<>>, result |-> TRUE]

CompileStep(w, c) ==
    CASE c = "," -> [done |-> Append(w.done, WildmatPiece(w.now, w.result)), now |-> <<>>,
                     result |-> TRUE]
      [] c = "!" -> [w EXCEPT !.result = FALSE]
      [] OTHER -> [w EXCEPT !.now = Append(@, c)]

LEMMA CompileStepIn ==
    ASSUME NEW A, NEW w, w \in Compiling(A), NEW c, c \in A
    PROVE  CompileStep(w, c) \in Compiling(A)
<1>1. w.done \in Seq(PiecesOf(A)) /\ w.now \in Seq(A) /\ w.result \in BOOLEAN
  BY DEF Compiling
<1>2. WildmatPiece(w.now, w.result) \in PiecesOf(A)
  BY <1>1 DEF WildmatPiece, PiecesOf
<1> DEFINE d == Append(w.done, WildmatPiece(w.now, w.result))
           n == Append(w.now, c)
<1>3. d \in Seq(PiecesOf(A)) /\ n \in Seq(A) /\ <<>> \in Seq(A)
  BY <1>1, <1>2
<1>4. CompileStep(w, c) = CASE c = "," -> [done |-> d, now |-> <<>>, result |-> TRUE]
                            [] c = "!" -> [w EXCEPT !.result = FALSE]
                            [] OTHER -> [w EXCEPT !.now = n]
  BY DEF CompileStep
<1> HIDE DEF d, n
<1>5. [done |-> d, now |-> <<>>, result |-> TRUE] \in Compiling(A)
  BY <1>3 DEF Compiling
<1>6. [w EXCEPT !.result = FALSE] \in Compiling(A)
  BY DEF Compiling
<1>7. [w EXCEPT !.now = n] \in Compiling(A)
  BY <1>3 DEF Compiling
<1> QED
  BY <1>4, <1>5, <1>6, <1>7

\* CompileWildmat goes from beginning to beginning.
LEMMA CompileIs ==
    ASSUME NEW A, NEW x, x \in Seq(A)
    PROVE  \E f : /\ f[0] = NothingCompiled
                  /\ \A i \in 0 .. Len(x) - 1 : f[i + 1] = CompileStep(f[i], x[i + 1])
                  /\ \A i \in 0 .. Len(x) : f[i] \in Compiling(A)
                  /\ CompileWildmat(x)
                     = Append(f[Len(x)].done, WildmatPiece(f[Len(x)].now, f[Len(x)].result))
<1> DEFINE L == Len(x)
           V == Compiling(A)
           v0 == NothingCompiled
           OneStep(w, c) ==
             CASE c = "," -> [done |-> Append(w.done, WildmatPiece(w.now, w.result)), now |-> <<>>,
                              result |-> TRUE]
               [] c = "!" -> [w EXCEPT !.result = FALSE]
               [] OTHER -> [w EXCEPT !.now = Append(@, c)]
           at[n \in 0 .. Len(x)] ==
             IF n = 0 THEN [done |-> <<>>, now |-> <<>>, result |-> TRUE] ELSE OneStep(at[n - 1], x[n])
           op == [y \in (0 .. L - 1) \X V |-> CompileStep(y[2], x[y[1] + 1])]
           F(f) == [n \in 0 .. L |-> IF n = 0 THEN v0 ELSE CompileStep(f[n - 1], x[n])]
<1>1. L \in Nat /\ \A i \in 0 .. L - 1 : i \in 0 .. L /\ i + 1 \in 0 .. L /\ i + 1 # 0 /\ (i + 1) - 1 = i
  OBVIOUS
<1>2. \A i \in 0 .. L - 1, v \in V : CompileStep(v, x[i + 1]) \in V
  <2>1. TAKE i \in 0 .. L - 1, v \in V
  <2>2. x[i + 1] \in A
    OBVIOUS
  <2> QED
    BY <2>2, CompileStepIn
<1>3. op \in [(0 .. L - 1) \X V -> V] /\ \A i \in 0 .. L - 1, v \in V : op[<<i, v>>] = CompileStep(v, x[i + 1])
  <2> HIDE DEF L, V
  <2> QED
    BY <1>2
<1>4. v0 \in V
  BY DEF NothingCompiled, Compiling
<1> HIDE DEF op, V, v0
<1>5. PICK g : RunTo(L, V, v0, op, g)
  BY <1>1, <1>3, <1>4, StepsThere
<1>6. g \in [0 .. L -> V] /\ g[0] = v0 /\ \A i \in 0 .. L - 1 : g[i + 1] = CompileStep(g[i], x[i + 1])
  <2>1. g \in [0 .. L -> V] /\ g[0] = v0 /\ \A i \in 0 .. L - 1 : g[i + 1] = op[<<i, g[i]>>]
    BY <1>5 DEF RunTo
  <2> HIDE DEF L
  <2> QED
    BY <1>1, <1>3, <2>1
<1>7. g = F(g)
  <2>1. ASSUME NEW n \in 0 .. L PROVE g[n] = IF n = 0 THEN v0 ELSE CompileStep(g[n - 1], x[n])
    <3>1. n # 0 => n - 1 \in 0 .. L - 1 /\ (n - 1) + 1 = n
      BY <1>1
    <3> HIDE DEF L
    <3> QED
      BY <1>6, <3>1
  <2> HIDE DEF L
  <2> QED
    BY <1>6, <2>1
<1>8. at = CHOOSE k : k = F(k)
  BY DEF CompileStep, v0, NothingCompiled
<1>9. CompileWildmat(x) = Append(at[L].done, WildmatPiece(at[L].now, at[L].result))
  BY DEF CompileWildmat
<1> HIDE DEF F, at
<1>10. at = F(at)
  BY <1>7, <1>8
<1>11. \A n \in 0 .. L : at[n] = IF n = 0 THEN v0 ELSE CompileStep(at[n - 1], x[n])
  BY <1>10 DEF F
<1> HIDE DEF L
<1>12. at[0] = v0 /\ \A i \in 0 .. L - 1 : at[i + 1] = CompileStep(at[i], x[i + 1])
  BY <1>1, <1>11
<1>13. \A i \in 0 .. L : at[i] \in V
  <2> DEFINE S == {n \in Nat : n <= L => at[n] \in V}
  <2>1. 0 \in S
    BY <1>4, <1>12
  <2>2. ASSUME NEW n \in Nat, n \in S PROVE n + 1 \in S
    <3>1. n + 1 <= L => n \in 0 .. L - 1 /\ n <= L
      BY <1>1
    <3> QED
      BY <1>2, <1>12, <2>2, <3>1 DEF L
  <2> HIDE DEF S
  <2>3. Nat \subseteq S
    BY <2>1, <2>2, Induct
  <2>4. \A i \in 0 .. L : i \in Nat /\ i <= L
    BY <1>1
  <2> QED
    BY <2>3, <2>4 DEF S
<1> QED
  BY <1>9, <1>12, <1>13 DEF L, V, v0

\* What the first characters of a pattern match, from the beginning before.
MatchStep(before, c, name) ==
    IF c = "*" THEN {k \in 0 .. Len(name) : \E j \in before : j <= k}
    ELSE {k \in 1 .. Len(name) : k - 1 \in before /\ c \in {"?", name[k]}}

Matching(f, p, L, name) ==
    /\ f[0] = {0} /\ \A i \in 0 .. L - 1 : f[i + 1] = MatchStep(f[i], p[i + 1], name)
    /\ Matches(p, name) <=> Len(name) \in f[L]

LEMMA MatchIs ==
    ASSUME NEW p, NEW L, L = Len(p), L \in Nat, NEW name, Len(name) \in Nat
    PROVE  \E f : Matching(f, p, L, name)
<1> DEFINE V == SUBSET (0 .. Len(name))
           v0 == {0}
           upto[i \in 0 .. Len(p)] ==
             IF i = 0 THEN {0}
             ELSE LET before == upto[i - 1] IN
                  IF p[i] = "*" THEN {k \in 0 .. Len(name) : \E j \in before : j <= k}
                  ELSE {k \in 1 .. Len(name) : k - 1 \in before /\ p[i] \in {"?", name[k]}}
           op == [y \in (0 .. L - 1) \X V |-> MatchStep(y[2], p[y[1] + 1], name)]
           F(f) == [n \in 0 .. L |-> IF n = 0 THEN v0 ELSE MatchStep(f[n - 1], p[n], name)]
<1>1. L \in Nat /\ \A i \in 0 .. L - 1 : i \in 0 .. L /\ i + 1 \in 0 .. L /\ i + 1 # 0 /\ (i + 1) - 1 = i
  OBVIOUS
<1>2. \A i \in 0 .. L - 1, v \in V : MatchStep(v, p[i + 1], name) \in V
  BY DEF MatchStep
<1>4. v0 \in V
  OBVIOUS
<1>3. op \in [(0 .. L - 1) \X V -> V] /\ \A i \in 0 .. L - 1, v \in V : op[<<i, v>>] = MatchStep(v, p[i + 1], name)
  <2> HIDE DEF V
  <2> QED
    BY <1>2
<1> HIDE DEF op, V, v0
<1>5. PICK g : RunTo(L, V, v0, op, g)
  BY <1>1, <1>3, <1>4, StepsThere
<1>6. g \in [0 .. L -> V] /\ g[0] = v0 /\ \A i \in 0 .. L - 1 : g[i + 1] = MatchStep(g[i], p[i + 1], name)
  <2>1. g \in [0 .. L -> V] /\ g[0] = v0 /\ \A i \in 0 .. L - 1 : g[i + 1] = op[<<i, g[i]>>]
    BY <1>5 DEF RunTo
  <2> QED
    BY <1>1, <1>3, <2>1
<1>7. g = F(g)
  <2>1. ASSUME NEW n \in 0 .. L PROVE g[n] = IF n = 0 THEN v0 ELSE MatchStep(g[n - 1], p[n], name)
    <3>1. n # 0 => n - 1 \in 0 .. L - 1 /\ (n - 1) + 1 = n
      BY <1>1
    <3> QED
      BY <1>6, <3>1
  <2> QED
    BY <1>6, <2>1
<1>8. upto = CHOOSE k : k = F(k)
  BY DEF MatchStep, v0
<1>9. Matches(p, name) <=> Len(name) \in upto[L]
  BY DEF Matches
<1> HIDE DEF F, upto
<1>10. upto = F(upto)
  BY <1>7, <1>8
<1>11. \A n \in 0 .. L : upto[n] = IF n = 0 THEN v0 ELSE MatchStep(upto[n - 1], p[n], name)
  BY <1>10 DEF F
<1>12. upto[0] = v0 /\ \A i \in 0 .. L - 1 : upto[i + 1] = MatchStep(upto[i], p[i + 1], name)
  BY <1>1, <1>11
<1> QED
  BY <1>9, <1>12 DEF v0, Matching

Resulting(pieces, n) == \A k \in 1 .. n : pieces[k].result \in BOOLEAN

CheckStep(v, piece, name) == IF Matches(piece.pattern, name) THEN piece.result ELSE v

\* f says what the first pieces say of the name.
Saying(f, pieces, L, name) ==
    /\ f[0] = FALSE /\ \A i \in 0 .. L - 1 : f[i + 1] = CheckStep(f[i], pieces[i + 1], name)
    /\ CheckString(pieces, name) = f[L]

LEMMA SaidIs ==
    ASSUME NEW pieces, NEW L, L = Len(pieces), L \in Nat, NEW name,
           Resulting(pieces, L)
    PROVE  \E f : Saying(f, pieces, L, name)
<1> DEFINE V == BOOLEAN
           v0 == FALSE
           spoken[n \in 0 .. Len(pieces)] ==
             IF n = 0 THEN FALSE
             ELSE IF Matches(pieces[n].pattern, name) THEN pieces[n].result
             ELSE spoken[n - 1]
           op == [y \in (0 .. L - 1) \X V |-> CheckStep(y[2], pieces[y[1] + 1], name)]
           F(f) == [n \in 0 .. L |-> IF n = 0 THEN v0 ELSE CheckStep(f[n - 1], pieces[n], name)]
<1>1. L \in Nat /\ \A i \in 0 .. L - 1 : i \in 0 .. L /\ i + 1 \in 0 .. L /\ i + 1 # 0 /\ (i + 1) - 1 = i
  OBVIOUS
<1>2. \A i \in 0 .. L - 1, v \in V : CheckStep(v, pieces[i + 1], name) \in V
  <2>1. \A i \in 0 .. L - 1 : pieces[i + 1].result \in BOOLEAN
    BY DEF Resulting
  <2> QED
    BY <2>1 DEF CheckStep
<1>4. v0 \in V
  OBVIOUS
<1>3. op \in [(0 .. L - 1) \X V -> V] /\ \A i \in 0 .. L - 1, v \in V : op[<<i, v>>] = CheckStep(v, pieces[i + 1], name)
  <2> HIDE DEF V
  <2> QED
    BY <1>2
<1> HIDE DEF op, V, v0
<1>5. PICK g : RunTo(L, V, v0, op, g)
  BY <1>1, <1>3, <1>4, StepsThere
<1>6. g \in [0 .. L -> V] /\ g[0] = v0 /\ \A i \in 0 .. L - 1 : g[i + 1] = CheckStep(g[i], pieces[i + 1], name)
  <2>1. g \in [0 .. L -> V] /\ g[0] = v0 /\ \A i \in 0 .. L - 1 : g[i + 1] = op[<<i, g[i]>>]
    BY <1>5 DEF RunTo
  <2> QED
    BY <1>1, <1>3, <2>1
<1>7. g = F(g)
  <2>1. ASSUME NEW n \in 0 .. L PROVE g[n] = IF n = 0 THEN v0 ELSE CheckStep(g[n - 1], pieces[n], name)
    <3>1. n # 0 => n - 1 \in 0 .. L - 1 /\ (n - 1) + 1 = n
      BY <1>1
    <3> QED
      BY <1>6, <3>1
  <2> QED
    BY <1>6, <2>1
<1>8. spoken = CHOOSE k : k = F(k)
  BY DEF CheckStep, v0
<1>9. CheckString(pieces, name) = spoken[L]
  BY DEF CheckString
<1> HIDE DEF F, spoken
<1>10. spoken = F(spoken)
  BY <1>7, <1>8
<1>11. \A n \in 0 .. L : spoken[n] = IF n = 0 THEN v0 ELSE CheckStep(spoken[n - 1], pieces[n], name)
  BY <1>10 DEF F
<1>12. spoken[0] = v0 /\ \A i \in 0 .. L - 1 : spoken[i + 1] = CheckStep(spoken[i], pieces[i + 1], name)
  BY <1>1, <1>11
<1> QED
  BY <1>9, <1>12 DEF v0, Saying

\* The n first pieces match last with one that says yes.
SaysYes(pieces, n, name) ==
    \E k \in 1 .. n : /\ Matches(pieces[k].pattern, name) /\ pieces[k].result
                      /\ \A j \in k + 1 .. n : ~Matches(pieces[j].pattern, name)

\* CheckString: the last piece that matches decides.
LEMMA LastDecides ==
    ASSUME NEW pieces, NEW L, L = Len(pieces), L \in Nat, NEW name,
           Resulting(pieces, L)
    PROVE  CheckString(pieces, name) <=> SaysYes(pieces, L, name)
<1>0. PICK f : Saying(f, pieces, L, name)
  BY SaidIs
<1>1. /\ f[0] = FALSE /\ \A i \in 0 .. L - 1 : f[i + 1] = CheckStep(f[i], pieces[i + 1], name)
      /\ CheckString(pieces, name) = f[L]
  BY <1>0 DEF Saying
<1> DEFINE S == {n \in Nat : n <= L => (f[n] <=> SaysYes(pieces, n, name))}
<1>2. 0 \in S
  BY <1>1 DEF SaysYes
<1>3. ASSUME NEW n \in Nat, n \in S PROVE n + 1 \in S
  <2>1. SUFFICES ASSUME n + 1 <= L PROVE f[n + 1] <=> SaysYes(pieces, n + 1, name)
    OBVIOUS
  <2>2. n \in 0 .. L - 1 /\ (f[n] <=> SaysYes(pieces, n, name)) /\ n + 1 \in 1 .. L
    BY <1>3, <2>1
  <2>3. f[n + 1] = CheckStep(f[n], pieces[n + 1], name)
    BY <1>1, <2>2
  <2>4. 1 .. n + 1 = (1 .. n) \cup {n + 1} /\ (n + 1) + 1 .. n + 1 = {}
        /\ \A k \in 1 .. n : k + 1 .. n + 1 = (k + 1 .. n) \cup {n + 1}
    OBVIOUS
  <2> DEFINE m == n + 1
  <2>5. CASE Matches(pieces[n + 1].pattern, name)
    <3>1. f[m] = pieces[m].result
      BY <2>3, <2>5 DEF CheckStep
    <3>2. SaysYes(pieces, m, name) <=> pieces[m].result
      <4>1. 1 .. m = (1 .. n) \cup {m} /\ m + 1 .. m = {} /\ Matches(pieces[m].pattern, name)
            /\ \A k \in 1 .. n : k + 1 .. m = (k + 1 .. n) \cup {m}
        BY <2>4, <2>5
      <4> HIDE DEF m
      <4> QED
        BY <4>1, Zenon DEF SaysYes
    <3> QED
      BY <3>1, <3>2
  <2>6. CASE ~Matches(pieces[n + 1].pattern, name)
    <3>1. f[m] = f[n]
      BY <2>3, <2>6 DEF CheckStep
    <3>2. SaysYes(pieces, m, name) <=> SaysYes(pieces, n, name)
      <4>1. 1 .. m = (1 .. n) \cup {m} /\ m + 1 .. m = {} /\ ~Matches(pieces[m].pattern, name)
            /\ \A k \in 1 .. n : k + 1 .. m = (k + 1 .. n) \cup {m}
        BY <2>4, <2>6
      <4> HIDE DEF m
      <4>2. ASSUME SaysYes(pieces, m, name) PROVE SaysYes(pieces, n, name)
        BY <4>1, <4>2 DEF SaysYes
      <4>3. ASSUME SaysYes(pieces, n, name) PROVE SaysYes(pieces, m, name)
        BY <4>1, <4>3 DEF SaysYes
      <4> QED
        BY <4>2, <4>3
    <3> QED
      BY <2>2, <3>1, <3>2
  <2> QED
    BY <2>5, <2>6
<1> HIDE DEF S
<1>4. L \in S
  BY <1>2, <1>3, Induct
<1> QED
  BY <1>1, <1>4 DEF S

-----------------------------------------------------------------------------
(***************************************************************************)
(* Wildmats and their patterns.                                            *)
(***************************************************************************)

\* What stands in wildmats is no comma and no exclamation mark.
PlainChars == "," \notin NameChars \cup Wild /\ "!" \notin NameChars \cup Wild

InPatterns == NameChars \cup Wild

\* Where the pattern of a part begins.
Skip(p) == IF Negated(p) THEN 1 ELSE 0

Good(p) == Pattern(p) # <<>> /\ Range(Pattern(p)) \subseteq InPatterns

LEMMA PatternIs ==
    ASSUME NEW A, NEW p, p \in Seq(A)
    PROVE  /\ Pattern(p) \in Seq(A) /\ Len(Pattern(p)) = Len(p) - Skip(p)
           /\ \A i \in 1 .. Len(p) - Skip(p) : Pattern(p)[i] = p[i + Skip(p)]
           /\ Skip(p) \in {0, 1} /\ Skip(p) <= Len(p)
<1>1. CASE Negated(p)
  <2>1. p # <<>>
    BY <1>1 DEF Negated
  <2>2. Pattern(p) = Tail(p) /\ Skip(p) = 1
    BY <1>1 DEF Pattern, Skip
  <2>3. Tail(p) \in Seq(A) /\ Len(Tail(p)) = Len(p) - 1 /\ \A i \in 1 .. Len(p) - 1 : Tail(p)[i] = p[i + 1]
    BY <2>1
  <2>4. 1 <= Len(p)
    BY <2>1
  <2> QED
    BY <2>2, <2>3, <2>4
<1>2. CASE ~Negated(p)
  BY <1>2 DEF Pattern, Skip
<1> QED
  BY <1>1, <1>2

LEMMA GoodIs ==
    ASSUME NEW A, NEW p, p \in Seq(A)
    PROVE  Good(p) <=> Skip(p) < Len(p) /\ \A i \in Skip(p) + 1 .. Len(p) : p[i] \in InPatterns
<1> DEFINE q == Pattern(p)
           k == Skip(p)
<1>1. /\ q \in Seq(A) /\ Len(q) = Len(p) - k /\ k \in {0, 1} /\ k <= Len(p) /\ Len(p) \in Nat
      /\ \A i \in 1 .. Len(p) - k : q[i] = p[i + k]
  BY PatternIs
<1>2. Good(p) <=> q # <<>> /\ Range(q) \subseteq InPatterns
  BY DEF Good
<1> HIDE DEF q, k
<1>3. q # <<>> <=> k < Len(p)
  BY <1>1
<1>4. DOMAIN q = 1 .. Len(p) - k
  BY <1>1
<1>5. Range(q) \subseteq InPatterns <=> \A i \in 1 .. Len(p) - k : p[i + k] \in InPatterns
  BY <1>1, <1>4 DEF Range
<1>6. (\A i \in 1 .. Len(p) - k : p[i + k] \in InPatterns) <=> \A i \in k + 1 .. Len(p) : p[i] \in InPatterns
  <2>1. \A i \in 1 .. Len(p) - k : i + k \in k + 1 .. Len(p)
    BY <1>1
  <2>2. \A i \in k + 1 .. Len(p) : i - k \in 1 .. Len(p) - k /\ (i - k) + k = i
    BY <1>1
  <2> QED
    BY <2>1, <2>2
<1> QED
  BY <1>2, <1>3, <1>5, <1>6 DEF k

\* A character more, which begins no pattern.
LEMMA PatternUp ==
    ASSUME NEW A, NEW p, p \in Seq(A), NEW c, c \in A, NEW t, t = p \o <<c>>, p = <<>> => c # "!"
    PROVE  /\ Negated(t) <=> Negated(p)
           /\ Pattern(t) = Append(Pattern(p), c) /\ Skip(t) = Skip(p)
           /\ Good(t) <=> c \in InPatterns /\ (Good(p) \/ Skip(p) = Len(p))
<1>1. t \in Seq(A) /\ Len(t) = Len(p) + 1 /\ t[Len(p) + 1] = c /\ Len(p) \in Nat
      /\ \A i \in 1 .. Len(p) : t[i] = p[i]
  OBVIOUS
<1>2. Negated(t) <=> Negated(p)
  <2>1. CASE p = <<>>
    BY <1>1, <2>1 DEF Negated
  <2>2. CASE p # <<>>
    <3>1. 1 \in 1 .. Len(p) /\ t # <<>>
      BY <1>1, <2>2
    <3> QED
      BY <1>1, <2>2, <3>1 DEF Negated
  <2> QED
    BY <2>1, <2>2
<1>3. Skip(t) = Skip(p)
  BY <1>2 DEF Skip
<1> DEFINE k == Skip(p)
           q == Pattern(p)
           u == Pattern(t)
<1>4. q \in Seq(A) /\ Len(q) = Len(p) - k /\ k \in {0, 1} /\ k <= Len(p)
      /\ \A i \in 1 .. Len(p) - k : q[i] = p[i + k]
  BY PatternIs
<1>5. u \in Seq(A) /\ Len(u) = Len(t) - k /\ \A i \in 1 .. Len(t) - k : u[i] = t[i + k]
  <2>1. /\ Pattern(t) \in Seq(A) /\ Len(Pattern(t)) = Len(t) - Skip(t)
        /\ \A i \in 1 .. Len(t) - Skip(t) : Pattern(t)[i] = t[i + Skip(t)]
    BY <1>1, PatternIs
  <2> QED
    BY <1>3, <2>1
<1> HIDE DEF k, q, u
<1>6. u = Append(q, c)
  <2> DEFINE v == Append(q, c)
  <2>1. v \in Seq(A) /\ Len(v) = Len(q) + 1 /\ v[Len(q) + 1] = c /\ \A i \in 1 .. Len(q) : v[i] = q[i]
    BY <1>4
  <2> HIDE DEF v
  <2>2. \A i \in 1 .. Len(u) : u[i] = v[i]
    <3>1. TAKE i \in 1 .. Len(u)
    <3>2. CASE i = Len(q) + 1
      BY <1>1, <1>4, <1>5, <2>1, <3>2
    <3>3. CASE i # Len(q) + 1
      <4>1. i \in 1 .. Len(q) /\ i + k \in 1 .. Len(p) /\ i \in 1 .. Len(t) - k /\ i \in 1 .. Len(p) - k
        BY <1>1, <1>4, <1>5, <3>3
      <4> QED
        BY <1>1, <1>4, <1>5, <2>1, <4>1
    <3> QED
      BY <3>2, <3>3
  <2>3. Len(u) = Len(v)
    BY <1>1, <1>4, <1>5, <2>1
  <2>4. u = v
    BY <1>5, <2>1, <2>2, <2>3
  <2> QED
    BY <2>4 DEF v
<1>7. Good(t) <=> k < Len(t) /\ \A i \in k + 1 .. Len(t) : t[i] \in InPatterns
  BY <1>1, <1>3, GoodIs DEF k
<1>8. Good(p) <=> k < Len(p) /\ \A i \in k + 1 .. Len(p) : p[i] \in InPatterns
  BY GoodIs DEF k
<1>9. k < Len(t) /\ t[Len(p) + 1] = c /\ \A i \in k + 1 .. Len(p) : t[i] = p[i]
  BY <1>1, <1>4
<1>10. Good(t) <=> c \in InPatterns /\ (Good(p) \/ k = Len(p))
  <2>1. Len(p) + 1 \in k + 1 .. Len(t) /\ \A i \in k + 1 .. Len(p) : i \in k + 1 .. Len(t) /\ i # Len(p) + 1
    BY <1>1, <1>4
  <2>2. \A i \in k + 1 .. Len(t) : i = Len(p) + 1 \/ i \in k + 1 .. Len(p)
    BY <1>1, <1>4
  <2>3. k = Len(p) => \A i \in k + 1 .. Len(p) : FALSE
    BY <1>1, <1>4
  <2>4. k < Len(p) \/ k = Len(p)
    BY <1>1, <1>4
  <2>5. (\A i \in k + 1 .. Len(t) : t[i] \in InPatterns)
        <=> c \in InPatterns /\ \A i \in k + 1 .. Len(p) : p[i] \in InPatterns
    BY <1>9, <2>1, <2>2
  <2> QED
    BY <1>7, <1>8, <1>9, <2>3, <2>4, <2>5
<1> QED
  BY <1>2, <1>3, <1>6, <1>10 DEF k, q, u

\* Where ValidWildmat is after a part, and after parts.
PartState(p) == IF p = <<>> THEN "start" ELSE IF p = <<"!">> THEN "negate" ELSE IF Good(p) THEN "inside" ELSE "bad"

StateOf(parts) ==
    IF \A k \in 1 .. Len(parts) - 1 : Good(parts[k]) THEN PartState(parts[Len(parts)]) ELSE "bad"

LEMMA GoodEnds ==
    ASSUME NEW p
    PROVE  /\ Good(p) <=> PartState(p) = "inside"
           /\ ~Good(<<>>) /\ ~Good(<<"!">>)
<1>1. ~Good(<<>>) /\ ~Good(<<"!">>)
  <2>1. Pattern(<<>>) = <<>>
    BY DEF Pattern, Negated
  <2>2. Pattern(<<"!">>) = <<>>
    BY DEF Pattern, Negated
  <2> QED
    BY <2>1, <2>2 DEF Good
<1> QED
  BY <1>1 DEF PartState

LEMMA WildmatStepIs ==
    ASSUME PlainChars, NEW s, NEW c
    PROVE  /\ WildmatStep("bad", c) = "bad"
           /\ s # "bad" /\ c \in InPatterns => WildmatStep(s, c) = "inside"
           /\ WildmatStep(s, ",") = IF s = "inside" THEN "start" ELSE "bad"
           /\ WildmatStep(s, "!") = IF s = "start" THEN "negate" ELSE "bad"
           /\ c \notin InPatterns /\ c # "," /\ c # "!" => WildmatStep(s, c) = "bad"
<1>1. WildmatStep("bad", c) = "bad"
  BY DEF WildmatStep
<1>2. s # "bad" /\ c \in InPatterns => WildmatStep(s, c) = "inside"
  BY DEF WildmatStep, PlainChars, InPatterns
<1>3. WildmatStep(s, ",") = IF s = "inside" THEN "start" ELSE "bad"
  BY DEF WildmatStep, PlainChars
<1>4. WildmatStep(s, "!") = IF s = "start" THEN "negate" ELSE "bad"
  BY DEF WildmatStep, PlainChars
<1>5. c \notin InPatterns /\ c # "," /\ c # "!" => WildmatStep(s, c) = "bad"
  BY DEF WildmatStep, InPatterns
<1> QED
  BY <1>1, <1>2, <1>3, <1>4, <1>5

LEMMA Short ==
    ASSUME NEW A, NEW p, p \in Seq(A)
    PROVE  /\ Len(p) \in Nat /\ (p = <<>> <=> Len(p) = 0)
           /\ p = <<"!">> <=> Len(p) = 1 /\ p[1] = "!"
<1>1. Len(p) = 1 => p = <<p[1]>>
  OBVIOUS
<1>2. Len(<<"!">>) = 1 /\ <<"!">>[1] = "!"
  OBVIOUS
<1>3. Len(p) \in Nat /\ (p = <<>> <=> Len(p) = 0)
  OBVIOUS
<1> QED
  BY <1>1, <1>2, <1>3

LEMMA FirstStates == PartState(<<>>) = "start" /\ PartState(<<"!">>) = "negate"
<1>1. <<"!">> # <<>>
  OBVIOUS
<1> QED
  BY <1>1 DEF PartState

\* A character more.
LEMMA OneMore ==
    ASSUME NEW A, NEW p, p \in Seq(A), NEW c, c \in A, NEW t, t = p \o <<c>>
    PROVE  t # <<>> /\ (p = <<>> => t = <<c>>) /\ (t = <<"!">> => p = <<>> /\ c = "!")
<1>1. Len(t) = Len(p) + 1 /\ t[Len(p) + 1] = c /\ Len(p) \in Nat /\ t \in Seq(A)
  OBVIOUS
<1>2. p = <<>> => t = <<c>>
  OBVIOUS
<1>3. Len(p) = 0 => p = <<>>
  OBVIOUS
<1>4. t # <<>>
  BY <1>1
<1>5. t = <<"!">> => Len(t) = 1 /\ t[1] = "!"
  OBVIOUS
<1> QED
  BY ONLY <1>1, <1>2, <1>3, <1>4, <1>5

LEMMA PartStep ==
    ASSUME PlainChars, NEW A, NEW p, p \in Seq(A), NEW c, c \in A, c # ",", NEW t, t = p \o <<c>>
    PROVE  PartState(t) = WildmatStep(PartState(p), c)
<1>1. t # <<>> /\ (p = <<>> => t = <<c>>) /\ (t = <<"!">> => p = <<>> /\ c = "!")
  BY OneMore
<1>2. c = "!" => c \notin InPatterns
  BY DEF PlainChars, InPatterns
<1>3. CASE p = <<>> /\ c = "!"
  <2>1. t = <<"!">> /\ PartState(p) = "start"
    BY <1>1, <1>3, FirstStates
  <2>2. PartState(t) = "negate"
    BY <2>1, FirstStates
  <2> QED
    BY <1>3, <2>1, <2>2, WildmatStepIs
<1>4. CASE ~(p = <<>> /\ c = "!")
  <2>1. t # <<"!">> /\ (Good(t) <=> c \in InPatterns /\ (Good(p) \/ Skip(p) = Len(p)))
    <3>1. p = <<>> => c # "!"
      BY <1>4
    <3> QED
      BY <1>1, <1>4, <3>1, PatternUp
  <2>2. PartState(t) = IF Good(t) THEN "inside" ELSE "bad"
    BY <1>1, <2>1 DEF PartState
  <2>3. Skip(p) = Len(p) <=> p = <<>> \/ p = <<"!">>
    <3>1. Len(p) \in Nat /\ (p = <<>> <=> Len(p) = 0)
      BY Short
    <3>2. CASE p = <<>>
      <4>1. Skip(p) = 0
        BY <3>2 DEF Skip, Negated
      <4> QED
        BY <3>2, <4>1
    <3>3. CASE p # <<>>
      <4>1. p = <<"!">> <=> Len(p) = 1 /\ p[1] = "!"
        BY Short
      <4>2. Skip(p) = IF p[1] = "!" THEN 1 ELSE 0
        BY <3>3 DEF Skip, Negated
      <4> QED
        BY <3>1, <3>3, <4>1, <4>2
    <3> QED
      BY <3>2, <3>3
  <2>4. Good(p) \/ Skip(p) = Len(p) <=> PartState(p) # "bad"
    <3>1. CASE p = <<>> \/ p = <<"!">>
      <4>1. PartState(p) = "start" \/ PartState(p) = "negate"
        BY <3>1 DEF PartState
      <4> QED
        BY <2>3, <3>1, <4>1
    <3>2. CASE ~(p = <<>> \/ p = <<"!">>)
      <4>1. PartState(p) = IF Good(p) THEN "inside" ELSE "bad"
        BY <3>2 DEF PartState
      <4> QED
        BY <2>3, <3>2, <4>1
    <3> QED
      BY <3>1, <3>2
  <2>7. CASE PartState(p) = "bad"
    <3>1. PartState(t) = "bad"
      BY <2>1, <2>2, <2>4, <2>7
    <3> QED
      BY <2>7, <3>1, WildmatStepIs
  <2>5. CASE c \in InPatterns /\ PartState(p) # "bad"
    <3>1. PartState(t) = "inside"
      BY <2>1, <2>2, <2>4, <2>5
    <3> DEFINE u == PartState(p)
    <3>2. u # "bad"
      BY <2>1, <2>4, <2>5
    <3> HIDE DEF u
    <3>3. WildmatStep(u, c) = "inside"
      BY <2>5, <3>2, WildmatStepIs
    <3> QED
      BY <3>1, <3>3 DEF u
  <2>6. CASE c \notin InPatterns
    <3>1. PartState(t) = "bad"
      BY <2>1, <2>2, <2>6
    <3>2. c = "!" => PartState(p) # "start"
      BY <1>4 DEF PartState
    <3> DEFINE u == PartState(p)
    <3>3. CASE c = "!"
      <4>1. u # "start"
        BY <3>2, <3>3
      <4> HIDE DEF u
      <4>2. WildmatStep(u, "!") = "bad"
        BY <4>1, WildmatStepIs
      <4> QED
        BY <3>1, <3>3, <4>2 DEF u
    <3>4. CASE c # "!"
      <4> HIDE DEF u
      <4>1. WildmatStep(u, c) = "bad"
        BY <2>6, <3>4, WildmatStepIs
      <4> QED
        BY <3>1, <4>1 DEF u
    <3> QED
      BY <3>3, <3>4
  <2> QED
    BY <2>5, <2>6, <2>7
<1> QED
  BY <1>3, <1>4

\* Parts are pieces of texts.
Parting(A, p) == p \in Seq(Seq(A)) /\ p # <<>>

LEMMA PartingIs ==
    ASSUME NEW A, NEW p, Parting(A, p)
    PROVE  Len(p) \in Nat \ {0} /\ \A k \in 1 .. Len(p) : p[k] \in Seq(A)
BY DEF Parting

LEMMA StateLonger ==
    ASSUME PlainChars, NEW A, NEW p, Parting(A, p), NEW c, c \in A, NEW q, Parting(A, q), IsLonger(p, q, c, {","})
    PROVE  StateOf(q) = WildmatStep(StateOf(p), c)
<1> DEFINE n == Len(p)
           l == p[n]
           Sooner == \A k \in 1 .. n - 1 : Good(p[k])
<1>1. n \in Nat \ {0} /\ l \in Seq(A) /\ \A k \in 1 .. n : p[k] \in Seq(A)
  <2>1. n \in Nat \ {0} /\ \A k \in 1 .. n : p[k] \in Seq(A)
    BY PartingIs
  <2>2. n \in 1 .. n
    <3> HIDE DEF n, l
    <3> QED
      BY ONLY <2>1
  <2> QED
    BY <2>1, <2>2
<1>2. /\ c = "," => Len(q) = n + 1 /\ q[n] = l /\ q[n + 1] = <<>>
      /\ c # "," => Len(q) = n /\ q[n] = l \o <<c>>
      /\ \A k \in 1 .. n - 1 : q[k] = p[k]
  BY DEF IsLonger
<1>3. StateOf(p) = IF Sooner THEN PartState(l) ELSE "bad"
  BY DEF StateOf
<1>4. CASE c = ","
  <2>1. (\A k \in 1 .. Len(q) - 1 : Good(q[k])) <=> Sooner /\ Good(l)
    <3>1. 1 .. Len(q) - 1 = (1 .. n - 1) \cup {n} /\ q[n] = l
      <4>1. n \in Nat \ {0} /\ Len(q) = n + 1 /\ q[n] = l
        BY <1>1, <1>2, <1>4
      <4> HIDE DEF n, l
      <4> QED
        BY ONLY <4>1
    <3> HIDE DEF n, l
    <3> QED
      BY <1>2, <3>1
  <2>2. q[Len(q)] = <<>> /\ PartState(<<>>) = "start"
    BY <1>2, <1>4 DEF PartState
  <2>3. StateOf(q) = IF Sooner /\ Good(l) THEN "start" ELSE "bad"
    BY <2>1, <2>2 DEF StateOf
  <2>4. Sooner /\ Good(l) <=> StateOf(p) = "inside"
    BY <1>3, GoodEnds
  <2> QED
    BY <1>4, <2>3, <2>4, WildmatStepIs
<1>5. CASE c # ","
  <2> DEFINE t == l \o <<c>>
  <2>1. (\A k \in 1 .. Len(q) - 1 : Good(q[k])) <=> Sooner
    BY <1>2, <1>5
  <2>2. q[Len(q)] = t
    BY <1>2, <1>5
  <2>3. PartState(t) = WildmatStep(PartState(l), c)
    <3> HIDE DEF l
    <3> QED
      BY <1>1, <1>5, PartStep
  <2> HIDE DEF t, l, n
  <2>4. StateOf(q) = IF Sooner THEN PartState(t) ELSE "bad"
    BY <2>1, <2>2 DEF StateOf
  <2> QED
    BY <1>3, <2>3, <2>4, WildmatStepIs
<1> QED
  BY <1>4, <1>5

\* What a part says: the pattern, and whether it is to match.
Sign(p) == IF Negated(p) THEN FALSE ELSE TRUE

Meaning(p) == WildmatPiece(Pattern(p), Sign(p))

\* CompileWildmat has been through the parts.
CompiledOf(p, w) ==
    /\ Len(w.done) = Len(p) - 1 /\ \A k \in 1 .. Len(p) - 1 : w.done[k] = Meaning(p[k])
    /\ w.now = Pattern(p[Len(p)]) /\ w.result = Sign(p[Len(p)])

LEMMA EmptyPart == Pattern(<<>>) = <<>> /\ Sign(<<>>) = TRUE /\ Pattern(<<"!">>) = <<>> /\ Sign(<<"!">>) = FALSE
<1>1. ~Negated(<<>>)
  BY DEF Negated
<1>2. Negated(<<"!">>)
  BY DEF Negated
<1>3. Tail(<<"!">>) = <<>>
  OBVIOUS
<1> QED
  BY <1>1, <1>2, <1>3 DEF Pattern, Sign

LEMMA Behind == \A c : <<>> \o <<c>> = <<c>>
OBVIOUS

LEMMA CompileStepIs ==
    ASSUME NEW w, NEW c
    PROVE  /\ c = "," => CompileStep(w, c) = [done |-> Append(w.done, WildmatPiece(w.now, w.result)),
                                              now |-> <<>>, result |-> TRUE]
           /\ c = "!" => CompileStep(w, c) = [w EXCEPT !.result = FALSE]
           /\ c # "," /\ c # "!" => CompileStep(w, c) = [w EXCEPT !.now = Append(@, c)]
BY DEF CompileStep

LEMMA CompiledLonger ==
    ASSUME PlainChars, NEW A, NEW p, Parting(A, p), NEW c, c \in A, NEW q, Parting(A, q),
           IsLonger(p, q, c, {","}), StateOf(q) # "bad", NEW w, w \in Compiling(A), CompiledOf(p, w)
    PROVE  CompiledOf(q, CompileStep(w, c))
<1> DEFINE n == Len(p)
           l == p[n]
           v == CompileStep(w, c)
           s == StateOf(p)
<1>1. n \in Nat \ {0} /\ l \in Seq(A)
  <2>1. n \in Nat \ {0} /\ \A k \in 1 .. n : p[k] \in Seq(A)
    BY PartingIs
  <2>2. n \in 1 .. n
    <3> HIDE DEF n
    <3> QED
      BY ONLY <2>1
  <2> QED
    BY <2>1, <2>2
<1>2. /\ c = "," => Len(q) = n + 1 /\ q[n] = l /\ q[n + 1] = <<>>
      /\ c # "," => Len(q) = n /\ q[n] = l \o <<c>>
      /\ \A k \in 1 .. n - 1 : q[k] = p[k]
  BY DEF IsLonger
<1>3. /\ Len(w.done) = n - 1 /\ \A k \in 1 .. n - 1 : w.done[k] = Meaning(p[k])
      /\ w.now = Pattern(l) /\ w.result = Sign(l)
  BY DEF CompiledOf
<1>4. w.done \in Seq(PiecesOf(A)) /\ w.now \in Seq(A) /\ w.result \in BOOLEAN
  BY DEF Compiling
<1>5. WildmatStep(s, c) # "bad"
  BY StateLonger
<1> HIDE DEF s, n, l, v
<1>6. s # "bad"
  BY <1>5, WildmatStepIs
<1>7. s = PartState(l)
  BY <1>6 DEF StateOf, s, n, l
<1>8. CASE c = ","
  <2> DEFINE d == Append(w.done, WildmatPiece(w.now, w.result))
  <2>1. v = [done |-> d, now |-> <<>>, result |-> TRUE]
    BY <1>8, CompileStepIs DEF v
  <2>2. WildmatPiece(w.now, w.result) = Meaning(l)
    BY <1>3 DEF Meaning
  <2>3. Len(d) = n /\ d[n] = Meaning(l) /\ \A k \in 1 .. n - 1 : d[k] = w.done[k]
    <3> DEFINE D == w.done
               m == WildmatPiece(w.now, w.result)
               F == PiecesOf(A)
    <3>1. D \in Seq(F) /\ Len(D) = n - 1 /\ n \in Nat \ {0}
      BY <1>1, <1>3, <1>4
    <3>2. m \in F
      BY <1>4 DEF WildmatPiece, PiecesOf
    <3> HIDE DEF D, m, F
    <3>3. /\ Len(Append(D, m)) = Len(D) + 1 /\ Append(D, m)[Len(D) + 1] = m
          /\ \A k \in 1 .. Len(D) : Append(D, m)[k] = D[k]
      BY ONLY <3>1, <3>2
    <3>4. Len(D) + 1 = n
      BY ONLY <3>1
    <3> QED
      BY <2>2, <3>1, <3>3, <3>4 DEF D, m
  <2> HIDE DEF d
  <2>4. v.done = d /\ v.now = <<>> /\ v.result = TRUE
    BY <2>1
  <2>5. Len(q) = n + 1 /\ q[n] = l /\ q[n + 1] = <<>> /\ Len(q) - 1 = n
    <3>1. Len(q) = n + 1 /\ q[n] = l /\ q[n + 1] = <<>>
      BY <1>2, <1>8
    <3>2. n \in Nat
      BY <1>1
    <3>3. Len(q) - 1 = n
      BY ONLY <3>1, <3>2
    <3> QED
      BY <3>1, <3>3
  <2>6. \A k \in 1 .. n : d[k] = Meaning(q[k])
    <3>1. \A k \in 1 .. n : k = n \/ k \in 1 .. n - 1
      <4>1. n \in Nat \ {0}
        BY <1>1
      <4> QED
        BY ONLY <4>1
    <3> QED
      BY <1>2, <1>3, <2>3, <2>5, <3>1
  <2> QED
    BY <2>3, <2>4, <2>5, <2>6, EmptyPart DEF CompiledOf, v
<1>9. CASE c = "!"
  <2>1. s = "start"
    BY <1>5, <1>9, WildmatStepIs
  <2>2. l = <<>>
    BY <1>7, <2>1 DEF PartState
  <2>3. v = [w EXCEPT !.result = FALSE]
    BY <1>9, CompileStepIs DEF v
  <2>4. v.done = w.done /\ v.now = w.now /\ v.result = FALSE
    BY <2>3 DEF Compiling
  <2>5. Len(q) = n /\ q[n] = <<"!">>
    <3>1. c # "," /\ <<>> \o <<"!">> = <<"!">>
      BY <1>9, Behind
    <3> QED
      BY <1>2, <1>9, <2>2, <3>1
  <2> QED
    BY <1>2, <1>3, <2>2, <2>4, <2>5, EmptyPart DEF CompiledOf, v
<1>10. CASE c # "," /\ c # "!"
  <2> DEFINE t == l \o <<c>>
             e == Append(w.now, c)
  <2>1. v = [w EXCEPT !.now = e]
    BY <1>10, CompileStepIs DEF v
  <2>2. v.done = w.done /\ v.now = e /\ v.result = w.result
    BY <2>1 DEF Compiling
  <2>3. Pattern(t) = Append(Pattern(l), c) /\ (Negated(t) <=> Negated(l))
    BY <1>1, <1>10, PatternUp
  <2>4. Sign(t) = Sign(l) /\ Pattern(t) = e
    BY <1>3, <2>3 DEF Sign
  <2>5. Len(q) = n /\ q[n] = t
    BY <1>2, <1>10
  <2> HIDE DEF t, e
  <2> QED
    BY <1>2, <1>3, <2>2, <2>4, <2>5 DEF CompiledOf, v
<1> QED
  BY <1>8, <1>9, <1>10

PartsOf(x) == Split(x, {","})

LEMMA PartsThere ==
    ASSUME NEW A, NEW x, x \in Seq(A)
    PROVE  Parting(A, PartsOf(x))
BY SplitIs DEF Parting, PartsOf

\* The beginnings of a text.
LEMMA PartsUp ==
    ASSUME NEW A, NEW x, x \in Seq(A), NEW n, n \in 0 .. Len(x) - 1
    PROVE  /\ IsLonger(PartsOf(SubSeq(x, 1, n)), PartsOf(SubSeq(x, 1, n + 1)), x[n + 1], {","})
           /\ Parting(A, PartsOf(SubSeq(x, 1, n))) /\ Parting(A, PartsOf(SubSeq(x, 1, n + 1)))
           /\ x[n + 1] \in A
<1> DEFINE e == n + 1
           b == SubSeq(x, 1, n)
           t == SubSeq(x, 1, e)
           c == x[e]
<1>1. n \in Nat /\ e \in Nat /\ 1 <= e /\ e <= Len(x) /\ e - 1 = n /\ n <= Len(x)
  OBVIOUS
<1>2. b \in Seq(A) /\ t \in Seq(A)
  BY <1>1
<1>3. t = b \o <<c>> /\ c \in A
  <2>1. SubSeq(x, 1, e) = SubSeq(x, 1, e - 1) \o <<x[e]>> /\ x[e] \in A
    <3> HIDE DEF e
    <3> QED
      BY <1>1, OnePlace
  <2> QED
    BY <1>1, <2>1
<1> HIDE DEF b, t, c, e
<1>4. Split(b \o <<c>>, {","}) = Longer(Split(b, {","}), c, {","})
  BY <1>2, <1>3, SplitStep
<1>5. Parting(A, PartsOf(b)) /\ Parting(A, PartsOf(t))
  BY <1>2, PartsThere
<1>6. PartsOf(t) = Longer(PartsOf(b), c, {","})
  BY <1>3, <1>4 DEF PartsOf
<1>7. IsLonger(PartsOf(b), PartsOf(t), c, {","})
  <2> DEFINE P == PartsOf(b)
  <2>1. P \in Seq(Seq(A)) /\ P # <<>>
    BY <1>5 DEF Parting
  <2> HIDE DEF P
  <2>2. IsLonger(P, Longer(P, c, {","}), c, {","})
    BY <1>3, <2>1, LongerThere
  <2> QED
    BY <1>6, <2>2 DEF P
<1> QED
  BY <1>3, <1>5, <1>7 DEF b, t, c, e

LEMMA Whole ==
    ASSUME NEW A, NEW x, x \in Seq(A)
    PROVE  SubSeq(x, 1, Len(x)) = x /\ SubSeq(x, 1, 0) = <<>>
OBVIOUS

\* ValidWildmat and CompileWildmat do what the parts of a text say.
LEMMA WildmatIs ==
    ASSUME PlainChars, NEW A, NEW x, x \in Seq(A)
    PROVE  /\ ValidWildmat(x) <=> StateOf(PartsOf(x)) = "inside"
           /\ StateOf(PartsOf(x)) # "bad" =>
                \E w \in Compiling(A) : /\ CompiledOf(PartsOf(x), w)
                                        /\ CompileWildmat(x) = Append(w.done, WildmatPiece(w.now, w.result))
<1> DEFINE L == Len(x)
           P(n) == PartsOf(SubSeq(x, 1, n))
<1>1. PICK f : /\ f[0] = "start" /\ \A i \in 0 .. Len(x) - 1 : f[i + 1] = WildmatStep(f[i], x[i + 1])
               /\ \A i \in 0 .. Len(x) : f[i] \in States
               /\ ValidWildmat(x) <=> f[Len(x)] = "inside"
  BY StateIs
<1>2. PICK g : /\ g[0] = NothingCompiled
               /\ \A i \in 0 .. Len(x) - 1 : g[i + 1] = CompileStep(g[i], x[i + 1])
               /\ \A i \in 0 .. Len(x) : g[i] \in Compiling(A)
               /\ CompileWildmat(x)
                  = Append(g[Len(x)].done, WildmatPiece(g[Len(x)].now, g[Len(x)].result))
  BY CompileIs
<1>3. /\ f[0] = "start" /\ \A i \in 0 .. L - 1 : f[i + 1] = WildmatStep(f[i], x[i + 1])
      /\ ValidWildmat(x) <=> f[L] = "inside"
  BY <1>1
<1>4. /\ g[0] = NothingCompiled /\ \A i \in 0 .. L - 1 : g[i + 1] = CompileStep(g[i], x[i + 1])
      /\ \A i \in 0 .. L : g[i] \in Compiling(A)
      /\ CompileWildmat(x) = Append(g[L].done, WildmatPiece(g[L].now, g[L].result))
  BY <1>2
<1>5. L \in Nat /\ P(L) = PartsOf(x) /\ P(0) = <<<<>>>>
  <2>1. P(0) = PartsOf(<<>>) /\ P(L) = PartsOf(x)
    BY Whole
  <2>2. PartsOf(<<>>) = <<<<>>>>
    <3>1. Split(<<>>, {","}) = <<<<>>>>
      BY SplitIs
    <3> QED
      BY <3>1 DEF PartsOf
  <2>3. L \in Nat
    OBVIOUS
  <2> QED
    BY <2>1, <2>2, <2>3
<1>6. \A n \in 0 .. L - 1 : /\ IsLonger(P(n), P(n + 1), x[n + 1], {","}) /\ x[n + 1] \in A
                            /\ Parting(A, P(n)) /\ Parting(A, P(n + 1))
  BY PartsUp
<1> DEFINE S == {n \in Nat : n <= L => (f[n] = StateOf(P(n)) /\ (f[n] # "bad" => CompiledOf(P(n), g[n])))}
<1> HIDE DEF L, P
<1>7. 0 \in S
  <2>1. Len(<<<<>>>>) = 1 /\ <<<<>>>>[1] = <<>>
    OBVIOUS
  <2>2. StateOf(<<<<>>>>) = "start"
    <3>1. \A k \in 1 .. Len(<<<<>>>>) - 1 : Good(<<<<>>>>[k])
      BY <2>1
    <3> QED
      BY <2>1, <3>1, FirstStates DEF StateOf
  <2>3. CompiledOf(<<<<>>>>, NothingCompiled)
    <3> DEFINE e == <<<<>>>>
               w == NothingCompiled
    <3>1. Len(e) - 1 = 0 /\ e[Len(e)] = <<>>
      BY <2>1
    <3>2. w.done = <<>> /\ w.now = <<>> /\ w.result = TRUE /\ Len(<<>>) = 0
      BY DEF NothingCompiled
    <3>3. \A k : k \notin 1 .. 0
      OBVIOUS
    <3> HIDE DEF e, w
    <3>4. CompiledOf(e, w)
      BY <3>1, <3>2, <3>3, EmptyPart DEF CompiledOf
    <3> QED
      BY <3>4 DEF e, w
  <2> QED
    BY <1>3, <1>4, <1>5, <2>2, <2>3
<1>8. ASSUME NEW n \in Nat, n \in S PROVE n + 1 \in S
  <2> DEFINE m == n + 1
             p == P(n)
             q == P(m)
             c == x[m]
  <2>1. SUFFICES ASSUME m <= L PROVE f[m] = StateOf(q) /\ (f[m] # "bad" => CompiledOf(q, g[m]))
    OBVIOUS
  <2>2. n \in 0 .. L - 1 /\ n \in 0 .. L /\ n <= L
    BY <1>5, <2>1
  <2>3. f[n] = StateOf(p) /\ (f[n] # "bad" => CompiledOf(p, g[n]))
    BY <1>8, <2>2
  <2>4. f[m] = WildmatStep(f[n], c) /\ g[m] = CompileStep(g[n], c) /\ g[n] \in Compiling(A)
    BY <1>3, <1>4, <2>2
  <2>5. IsLonger(p, q, c, {","}) /\ c \in A /\ Parting(A, p) /\ Parting(A, q)
    BY <1>6, <2>2
  <2> HIDE DEF m, p, q, c, S
  <2>6. StateOf(q) = WildmatStep(StateOf(p), c)
    BY <2>5, StateLonger
  <2>7. f[m] = StateOf(q)
    BY <2>3, <2>4, <2>6
  <2>8. ASSUME f[m] # "bad" PROVE CompiledOf(q, g[m])
    <3>1. f[n] # "bad"
      BY <2>4, <2>8, WildmatStepIs
    <3>2. CompiledOf(p, g[n]) /\ StateOf(q) # "bad"
      BY <2>3, <2>7, <2>8, <3>1
    <3>3. CompiledOf(q, CompileStep(g[n], c))
      BY <2>4, <2>5, <3>2, CompiledLonger
    <3> QED
      BY <2>4, <3>3
  <2> QED
    BY <2>7, <2>8
<1> HIDE DEF S
<1>9. L \in S
  BY <1>5, <1>7, <1>8, Induct
<1>10. f[L] = StateOf(PartsOf(x)) /\ (f[L] # "bad" => CompiledOf(PartsOf(x), g[L])) /\ g[L] \in Compiling(A)
  BY <1>4, <1>5, <1>9 DEF S
<1> QED
  BY <1>3, <1>4, <1>10

LEMMA IsWildmatIs ==
    ASSUME NEW A, NEW x, x \in Seq(A)
    PROVE  /\ IsWildmat(x) <=> \A k \in 1 .. Len(PartsOf(x)) : Good(PartsOf(x)[k])
           /\ IsWildmat(x) <=> StateOf(PartsOf(x)) = "inside"
<1> DEFINE p == PartsOf(x)
           n == Len(p)
<1>1. p \in Seq(Seq(A)) /\ n \in Nat \ {0}
  BY PartsThere, PartingIs DEF Parting
<1>2. PartsAt(x, ",") = p
  BY DEF PartsAt, PartsOf
<1>3. DOMAIN p = 1 .. n
  BY <1>1
<1>4. IsWildmat(x) <=> \A k \in DOMAIN p : Good(p[k])
  BY <1>2 DEF IsWildmat, Good, InPatterns
<1> HIDE DEF p, n
<1>5. (\A k \in 1 .. n : Good(p[k])) <=> (\A k \in 1 .. n - 1 : Good(p[k])) /\ Good(p[n])
  <2>1. 1 .. n = (1 .. n - 1) \cup {n}
    BY ONLY <1>1
  <2> QED
    BY <2>1
<1>6. StateOf(p) = IF \A k \in 1 .. n - 1 : Good(p[k]) THEN PartState(p[n]) ELSE "bad"
  BY DEF StateOf, n
<1>7. (\A k \in 1 .. n : Good(p[k])) <=> StateOf(p) = "inside"
  BY <1>5, <1>6, GoodEnds
<1> QED
  BY <1>3, <1>4, <1>7 DEF p, n

\* What a wildmat is compiled to.
LEMMA CompiledIs ==
    ASSUME PlainChars, NEW A, NEW x, x \in Seq(A), IsWildmat(x)
    PROVE  /\ ValidWildmat(x) /\ Len(CompileWildmat(x)) = Len(PartsOf(x))
           /\ \A k \in 1 .. Len(PartsOf(x)) : CompileWildmat(x)[k] = Meaning(PartsOf(x)[k])
<1> DEFINE p == PartsOf(x)
           n == Len(p)
           C == CompileWildmat(x)
<1>1. StateOf(p) = "inside"
  BY IsWildmatIs
<1>2. ValidWildmat(x)
  BY <1>1, WildmatIs
<1>3. PICK w \in Compiling(A) : CompiledOf(p, w) /\ C = Append(w.done, WildmatPiece(w.now, w.result))
  BY <1>1, WildmatIs
<1>4. n \in Nat \ {0}
  BY PartsThere, PartingIs
<1> HIDE DEF p, n, C
<1> DEFINE D == w.done
           m == WildmatPiece(w.now, w.result)
           F == PiecesOf(A)
<1>5. D \in Seq(F) /\ Len(D) = n - 1 /\ m = Meaning(p[n]) /\ \A k \in 1 .. n - 1 : D[k] = Meaning(p[k])
  BY <1>3 DEF Compiling, CompiledOf, Meaning, n
<1>6. m \in F
  BY <1>3 DEF Compiling, WildmatPiece, PiecesOf
<1>7. C = Append(D, m)
  BY <1>3
<1> HIDE DEF D, m, F
<1>8. /\ Len(Append(D, m)) = Len(D) + 1 /\ Append(D, m)[Len(D) + 1] = m
      /\ \A k \in 1 .. Len(D) : Append(D, m)[k] = D[k]
  BY ONLY <1>5, <1>6
<1>9. Len(D) + 1 = n /\ \A k \in 1 .. n : k = n \/ k \in 1 .. n - 1
  BY ONLY <1>4, <1>5
<1>10. \A k \in 1 .. n : C[k] = Meaning(p[k])
  BY <1>5, <1>7, <1>8, <1>9
<1> QED
  BY <1>2, <1>7, <1>8, <1>9, <1>10 DEF p, n, C

LEMMA MaxIs ==
    ASSUME NEW n \in Nat, NEW S, S \subseteq 1 .. n, S # {}
    PROVE  Max(S) \in S /\ \A y \in S : Max(S) >= y
<1> DEFINE T == {n - y : y \in S}
<1>1. T \subseteq Nat /\ T # {}
  <2>1. \A y \in S : n - y \in Nat
    <3>1. \A y \in 1 .. n : n - y \in Nat
      BY ONLY n \in Nat
    <3> QED
      BY <3>1
  <2> QED
    BY <2>1
<1> HIDE DEF T
<1>2. PICK z \in T : \A y \in T : z <= y
  BY <1>1, HasLeast
<1>3. PICK x \in S : z = n - x
  BY <1>2 DEF T
<1>4. \A y \in S : x >= y
  <2>1. TAKE y \in S
  <2>2. n - x <= n - y
    BY <1>2, <1>3, <2>1 DEF T
  <2>3. x \in 1 .. n /\ y \in 1 .. n
    OBVIOUS
  <2> QED
    BY ONLY <2>2, <2>3, n \in Nat
<1> QED
  BY <1>4 DEF Max

Hit(p, name) == Matches(Pattern(p), name)

\* The last of the parts that is hit says yes.
LastSays(parts, name) ==
    \E k \in 1 .. Len(parts) : /\ Hit(parts[k], name) /\ ~Negated(parts[k])
                               /\ \A j \in k + 1 .. Len(parts) : ~Hit(parts[j], name)

LEMMA MeantIs ==
    ASSUME NEW A, NEW x, x \in Seq(A), NEW name
    PROVE  Meant(x, name) <=> IsWildmat(x) /\ LastSays(PartsOf(x), name)
<1> DEFINE p == PartsOf(x)
           n == Len(p)
           hits == {k \in DOMAIN p : Hit(p[k], name)}
<1>1. n \in Nat \ {0} /\ DOMAIN p = 1 .. n
  <2>1. p \in Seq(Seq(A)) /\ n \in Nat \ {0}
    BY PartsThere, PartingIs DEF Parting
  <2> HIDE DEF p
  <2> QED
    BY <2>1
<1>2. PartsAt(x, ",") = p
  BY DEF PartsAt, PartsOf
<1>3. Meant(x, name) <=> IsWildmat(x) /\ hits # {} /\ ~Negated(p[Max(hits)])
  BY <1>2 DEF Meant, Hit
<1> HIDE DEF p, n
<1>4. hits \subseteq 1 .. n
  BY <1>1
<1>5. \A k \in 1 .. n : k \in hits <=> Hit(p[k], name)
  BY <1>1
<1> HIDE DEF hits
<1>6. LastSays(p, name) <=> \E k \in hits : ~Negated(p[k]) /\ \A j \in k + 1 .. n : j \notin hits
  <2>1. \A k \in 1 .. n : \A j \in k + 1 .. n : j \in 1 .. n
    BY <1>1
  <2>2. LastSays(p, name) <=> \E k \in 1 .. n : /\ Hit(p[k], name) /\ ~Negated(p[k])
                                                /\ \A j \in k + 1 .. n : ~Hit(p[j], name)
    BY DEF LastSays, n
  <2> QED
    BY <1>4, <1>5, <2>1, <2>2
<1>7. CASE hits = {}
  BY <1>3, <1>6, <1>7 DEF p
<1>8. CASE hits # {}
  <2> DEFINE m == Max(hits)
  <2>1. m \in hits /\ \A y \in hits : m >= y
    BY <1>1, <1>4, <1>8, MaxIs
  <2> HIDE DEF m
  <2>2. m \in 1 .. n /\ \A j \in m + 1 .. n : j \notin hits
    <3>1. m \in 1 .. n
      BY <1>4, <2>1
    <3>2. ASSUME NEW j \in m + 1 .. n, j \in hits PROVE FALSE
      <4>1. m >= j
        BY <2>1, <3>2
      <4> QED
        BY ONLY <1>1, <3>1, <3>2, <4>1
    <3> QED
      BY <3>1, <3>2
  <2>3. ASSUME NEW k \in hits, \A j \in k + 1 .. n : j \notin hits PROVE k = m
    <3>1. k \in 1 .. n /\ m >= k /\ m \notin k + 1 .. n
      BY <1>4, <2>1, <2>3
    <3> QED
      BY ONLY <1>1, <2>2, <3>1
  <2>4. LastSays(p, name) <=> ~Negated(p[m])
    BY <1>6, <2>1, <2>2, <2>3
  <2> QED
    BY <1>3, <1>8, <2>4 DEF p, m
<1> QED
  BY <1>7, <1>8

\* What is compiled of a wildmat says of a name what its parts say.
LEMMA CheckedIs ==
    ASSUME PlainChars, NEW A, NEW x, x \in Seq(A), IsWildmat(x), NEW name
    PROVE  CheckString(CompileWildmat(x), name) <=> LastSays(PartsOf(x), name)
<1> DEFINE C == CompileWildmat(x)
           p == PartsOf(x)
           n == Len(p)
<1>1. Len(C) = n /\ n \in Nat /\ \A k \in 1 .. n : C[k] = Meaning(p[k])
  BY CompiledIs, PartsThere, PartingIs
<1> HIDE DEF C, p, n
<1>2. \A k \in 1 .. n : C[k].pattern = Pattern(p[k]) /\ C[k].result = Sign(p[k])
  BY <1>1 DEF Meaning, WildmatPiece
<1>3. Resulting(C, n)
  BY <1>2 DEF Resulting, Sign
<1>4. CheckString(C, name) <=> SaysYes(C, n, name)
  BY <1>1, <1>3, LastDecides
<1>5. \A k \in 1 .. n : /\ Matches(C[k].pattern, name) <=> Hit(p[k], name)
                        /\ C[k].result <=> ~Negated(p[k])
  BY <1>2 DEF Hit, Sign
<1>6. \A k \in 1 .. n : \A j \in k + 1 .. n : j \in 1 .. n
  BY <1>1
<1>7. SaysYes(C, n, name) <=> LastSays(p, name)
  BY <1>5, <1>6 DEF SaysYes, LastSays, n
<1> QED
  BY <1>4, <1>7 DEF C, p

\* Nothing says nothing.
LEMMA NoneChecked ==
    ASSUME NEW name
    PROVE  CheckString(<<>>, name) <=> FALSE
<1>1. Len(<<>>) = 0 /\ \A k : k \notin 1 .. 0
  OBVIOUS
<1>2. Resulting(<<>>, 0)
  BY <1>1 DEF Resulting
<1>3. CheckString(<<>>, name) <=> SaysYes(<<>>, 0, name)
  BY <1>1, <1>2, LastDecides
<1> QED
  BY <1>1, <1>3 DEF SaysYes

\* What a list of a text says of a name.
LEMMA ListAnswers ==
    ASSUME PlainChars, NEW A, NEW x, x \in Seq(A), NEW name
    PROVE  CheckString(IF ValidWildmat(x) THEN CompileWildmat(x) ELSE <<>>, name) <=> Meant(x, name)
<1>1. ValidWildmat(x) <=> IsWildmat(x)
  BY WildmatIs, IsWildmatIs
<1>2. CASE IsWildmat(x)
  BY <1>1, <1>2, CheckedIs, MeantIs
<1>3. CASE ~IsWildmat(x)
  BY <1>1, <1>3, NoneChecked, MeantIs
<1> QED
  BY <1>2, <1>3

-----------------------------------------------------------------------------
(***************************************************************************)
(* What patterns match.                                                    *)
(***************************************************************************)

\* A pattern without wildcards matches itself.
LEMMA PlainMatches ==
    ASSUME NEW A, NEW p, p \in Seq(A), NoneOf(p, Wild), NEW name, name \in Seq(A)
    PROVE  Matches(p, name) <=> name = p
<1> DEFINE L == Len(p)
           N == Len(name)
           Same(i) == i <= N /\ \A m \in 1 .. i : p[m] = name[m]
<1>1. L \in Nat /\ N \in Nat
  OBVIOUS
<1>0. PICK f : Matching(f, p, L, name)
  BY <1>1, MatchIs
<1>2. /\ f[0] = {0} /\ \A i \in 0 .. L - 1 : f[i + 1] = MatchStep(f[i], p[i + 1], name)
      /\ Matches(p, name) <=> Len(name) \in f[L]
  BY <1>0 DEF Matching
<1> DEFINE S == {i \in Nat : i <= L => f[i] = IF Same(i) THEN {i} ELSE {}}
<1>3. 0 \in S
  <2>1. Same(0)
    BY <1>1
  <2> QED
    BY <1>2, <2>1
<1>4. ASSUME NEW i \in Nat, i \in S PROVE i + 1 \in S
  <2> DEFINE j == i + 1
             c == p[j]
  <2>1. SUFFICES ASSUME j <= L PROVE f[j] = IF Same(j) THEN {j} ELSE {}
    OBVIOUS
  <2>2. i \in 0 .. L - 1 /\ i <= L /\ j \in 1 .. L /\ j \in Nat /\ j - 1 = i
    BY <1>1, <2>1
  <2>3. f[i] = (IF Same(i) THEN {i} ELSE {}) /\ f[j] = MatchStep(f[i], c, name)
    BY <1>2, <1>4, <2>2
  <2>4. c \notin {"*", "?"}
    BY <2>2 DEF NoneOf, Wild
  <2>5. f[j] = {k \in 1 .. N : k - 1 \in f[i] /\ c = name[k]}
    BY <2>3, <2>4 DEF MatchStep
  <2>6. Same(j) <=> Same(i) /\ j <= N /\ c = name[j]
    <3>1. 1 .. j = (1 .. i) \cup {j} /\ (j <= N => i <= N)
      BY <1>1, <2>2
    <3> HIDE DEF j, N
    <3> QED
      BY <3>1 DEF c
  <2>7. CASE Same(i)
    <3>1. f[j] = {k \in 1 .. N : k - 1 = i /\ c = name[k]}
      BY <2>3, <2>5, <2>7
    <3>2. \A k \in 1 .. N : k - 1 = i <=> k = j
      BY <1>1
    <3>3. f[j] = {k \in 1 .. N : k = j /\ c = name[j]}
      BY <3>1, <3>2
    <3>4. j \in 1 .. N <=> j <= N
      BY <1>1
    <3> HIDE DEF j, N, c, Same
    <3> QED
      BY <2>6, <2>7, <3>3, <3>4
  <2>8. CASE ~Same(i)
    <3> HIDE DEF j, N, c, Same
    <3> QED
      BY <2>3, <2>5, <2>6, <2>8
  <2> QED
    BY <2>7, <2>8
<1> HIDE DEF S
<1>5. L \in S
  BY <1>1, <1>3, <1>4, Induct
<1>6. f[L] = IF Same(L) THEN {L} ELSE {}
  BY <1>1, <1>5 DEF S
<1>7. Matches(p, name) <=> Same(L) /\ N = L
  BY <1>2, <1>6
<1>8. Same(L) /\ N = L <=> name = p
  <2>1. N = L /\ (\A m \in 1 .. L : p[m] = name[m]) => name = p
    BY <1>1
  <2>2. name = p => N = L /\ \A m \in 1 .. L : p[m] = name[m]
    OBVIOUS
  <2> QED
    BY <1>1, <2>1, <2>2
<1> QED
  BY <1>7, <1>8

Blocker == <<"!", "*", ".", "_", "*">>

\* A dot with an underline behind it.
DotUnder(name) == \E k \in 1 .. Len(name) - 1 : name[k] = "." /\ name[k + 1] = "_"

LEMMA BlockerMatches ==
    ASSUME NEW A, NEW name, name \in Seq(A)
    PROVE  Matches(<<"*", ".", "_", "*">>, name) <=> DotUnder(name)
<1> DEFINE p == <<"*", ".", "_", "*">>
           N == Len(name)
<1>1. Len(p) = 4 /\ p[1] = "*" /\ p[2] = "." /\ p[3] = "_" /\ p[4] = "*" /\ N \in Nat
  OBVIOUS
<1> HIDE DEF p
<1>0. PICK f : Matching(f, p, 4, name)
  BY <1>1, MatchIs
<1>2. /\ f[0] = {0} /\ \A i \in 0 .. 4 - 1 : f[i + 1] = MatchStep(f[i], p[i + 1], name)
      /\ Matches(p, name) <=> Len(name) \in f[4]
  BY <1>0 DEF Matching
<1>3. f[1] = MatchStep(f[0], "*", name) /\ f[2] = MatchStep(f[1], ".", name)
      /\ f[3] = MatchStep(f[2], "_", name) /\ f[4] = MatchStep(f[3], "*", name)
  <2>1. 0 \in 0 .. 4 - 1 /\ 1 \in 0 .. 4 - 1 /\ 2 \in 0 .. 4 - 1 /\ 3 \in 0 .. 4 - 1
        /\ 0 + 1 = 1 /\ 1 + 1 = 2 /\ 2 + 1 = 3 /\ 3 + 1 = 4
    OBVIOUS
  <2>2. \A i \in 0 .. 4 - 1 : f[i + 1] = MatchStep(f[i], p[i + 1], name)
    BY <1>2
  <2>3. f[0 + 1] = MatchStep(f[0], p[0 + 1], name) /\ f[1 + 1] = MatchStep(f[1], p[1 + 1], name)
        /\ f[2 + 1] = MatchStep(f[2], p[2 + 1], name) /\ f[3 + 1] = MatchStep(f[3], p[3 + 1], name)
    BY ONLY <2>1, <2>2
  <2> QED
    BY <1>1, <2>1, <2>3
<1>n. N \in Nat
  BY <1>1
<1> HIDE DEF N
<1>4. \A k \in 0 .. N : k \in f[1]
  <2>1. f[1] = {k \in 0 .. N : \E j \in {0} : j <= k}
    BY <1>2, <1>3 DEF MatchStep, N
  <2>2. \A k \in 0 .. N : 0 <= k
    BY ONLY <1>n
  <2> QED
    BY <2>1, <2>2
<1>5. \A k : k \in f[2] <=> k \in 1 .. N /\ name[k] = "."
  <2>1. f[2] = {k \in 1 .. N : k - 1 \in f[1] /\ "." \in {"?", name[k]}}
    BY <1>3 DEF MatchStep, N
  <2>2. \A k \in 1 .. N : k - 1 \in f[1]
    BY ONLY <1>n, <1>4
  <2> QED
    BY <2>1, <2>2
<1>6. \A k : k \in f[3] <=> k \in 1 .. N /\ k - 1 \in f[2] /\ name[k] = "_"
  <2>1. f[3] = {k \in 1 .. N : k - 1 \in f[2] /\ "_" \in {"?", name[k]}}
    BY <1>3 DEF MatchStep, N
  <2> QED
    BY <2>1
<1>7. N \in f[4] <=> \E j \in f[3] : TRUE
  <2>1. f[4] = {k \in 0 .. N : \E j \in f[3] : j <= k}
    BY <1>3 DEF MatchStep, N
  <2>2. \A j \in f[3] : j <= N
    <3>1. \A j \in f[3] : j \in 1 .. N
      BY <1>6
    <3>2. \A j \in 1 .. N : j <= N
      BY ONLY <1>n
    <3> QED
      BY <3>1, <3>2
  <2>3. N \in 0 .. N
    BY ONLY <1>n
  <2> QED
    BY <2>1, <2>2, <2>3
<1>8. (\E j \in f[3] : TRUE) <=> \E k \in 1 .. N - 1 : name[k] = "." /\ name[k + 1] = "_"
  <2>1. ASSUME NEW j \in f[3] PROVE \E k \in 1 .. N - 1 : name[k] = "." /\ name[k + 1] = "_"
    <3>1. j \in 1 .. N /\ name[j] = "_" /\ j - 1 \in 1 .. N /\ name[j - 1] = "."
      BY <1>5, <1>6
    <3>2. j - 1 \in 1 .. N - 1 /\ (j - 1) + 1 = j
      <4>1. j \in 1 .. N /\ j - 1 \in 1 .. N
        BY <3>1
      <4>2. \A i \in 1 .. N : i - 1 \in 1 .. N => i - 1 \in 1 .. N - 1 /\ (i - 1) + 1 = i
        BY ONLY <1>n
      <4> QED
        BY <4>1, <4>2
    <3> QED
      BY <3>1, <3>2
  <2>2. ASSUME NEW k \in 1 .. N - 1, name[k] = ".", name[k + 1] = "_" PROVE k + 1 \in f[3]
    <3>1. k \in 1 .. N /\ k + 1 \in 1 .. N /\ (k + 1) - 1 = k
      BY ONLY <1>n, k \in 1 .. N - 1
    <3>2. k \in f[2]
      BY <1>5, <2>2, <3>1
    <3> QED
      BY <1>6, <2>2, <3>1, <3>2
  <2> QED
    BY <2>1, <2>2
<1> QED
  BY <1>2, <1>7, <1>8 DEF p, N, DotUnder

LEMMA StarMatches ==
    ASSUME NEW A, NEW name, name \in Seq(A)
    PROVE  Matches(<<"*">>, name)
<1> DEFINE p == <<"*">>
           N == Len(name)
<1>1. Len(p) = 1 /\ p[1] = "*" /\ N \in Nat
  OBVIOUS
<1> HIDE DEF p
<1>0. PICK f : Matching(f, p, 1, name)
  BY <1>1, MatchIs
<1>2. /\ f[0] = {0} /\ \A i \in 0 .. 1 - 1 : f[i + 1] = MatchStep(f[i], p[i + 1], name)
      /\ Matches(p, name) <=> Len(name) \in f[1]
  BY <1>0 DEF Matching
<1>3. f[1] = MatchStep(f[0], "*", name)
  <2>1. 0 \in 0 .. 1 - 1 /\ 0 + 1 = 1
    OBVIOUS
  <2>2. \A i \in 0 .. 1 - 1 : f[i + 1] = MatchStep(f[i], p[i + 1], name)
    BY <1>2
  <2>3. f[0 + 1] = MatchStep(f[0], p[0 + 1], name)
    BY ONLY <2>1, <2>2
  <2> QED
    BY <1>1, <2>1, <2>3
<1>4. N \in f[1]
  BY <1>1, <1>2, <1>3 DEF MatchStep
<1> QED
  BY <1>2, <1>4 DEF p

-----------------------------------------------------------------------------
(***************************************************************************)
(* The text of a policy.                                                   *)
(***************************************************************************)

AllGood(parts) == \A k \in 1 .. Len(parts) : Good(parts[k])

CommaFree(parts) == \A k \in 1 .. Len(parts) : NoneOf(parts[k], {","})

LEMMA IsAppendIs ==
    ASSUME NEW B, NEW s, s \in Seq(B), NEW q, q \in B, NEW t, IsAppend(t, s, q)
    PROVE  /\ t \in Seq(B) /\ Len(s) \in Nat /\ Len(t) = Len(s) + 1 /\ t[Len(s) + 1] = q
           /\ \A k \in 1 .. Len(s) : t[k] = s[k]
           /\ 1 .. Len(t) = (1 .. Len(s)) \cup {Len(s) + 1} /\ Len(s) + 1 \notin 1 .. Len(s)
<1>1. t = Append(s, q)
  BY DEF IsAppend
<1>2. Len(s) \in Nat
  OBVIOUS
<1>3. 1 .. Len(s) + 1 = (1 .. Len(s)) \cup {Len(s) + 1} /\ Len(s) + 1 \notin 1 .. Len(s)
  BY ONLY <1>2
<1>4. Append(s, q) \in Seq(B) /\ Len(Append(s, q)) = Len(s) + 1 /\ Append(s, q)[Len(s) + 1] = q
      /\ \A k \in 1 .. Len(s) : Append(s, q)[k] = s[k]
  OBVIOUS
<1> QED
  BY <1>1, <1>2, <1>3, <1>4

\* A part more.
LEMMA LastUp ==
    ASSUME NEW B, NEW s, s \in Seq(B), NEW q, q \in B, NEW t, IsAppend(t, s, q), NEW name
    PROVE  /\ LastSays(t, name) <=> IF Hit(q, name) THEN ~Negated(q) ELSE LastSays(s, name)
           /\ AllGood(t) <=> AllGood(s) /\ Good(q)
           /\ CommaFree(t) <=> CommaFree(s) /\ NoneOf(q, {","})
<1> DEFINE n == Len(s)
           m == n + 1
<1>1. /\ n \in Nat /\ Len(t) = m /\ t[m] = q /\ \A k \in 1 .. n : t[k] = s[k]
      /\ 1 .. m = (1 .. n) \cup {m} /\ m \notin 1 .. n
  BY IsAppendIs
<1>2. \A k \in 1 .. n : k + 1 .. m = (k + 1 .. n) \cup {m} /\ (k + 1 .. n) \subseteq 1 .. n
  <2>1. n \in Nat
    BY <1>1
  <2> QED
    BY ONLY <2>1
<1>3. m + 1 .. m = {}
  <2>1. n \in Nat
    BY <1>1
  <2> QED
    BY ONLY <2>1
<1>4. AllGood(t) <=> AllGood(s) /\ Good(q)
  <2> HIDE DEF m
  <2> QED
    BY <1>1 DEF AllGood, n
<1>5. CommaFree(t) <=> CommaFree(s) /\ NoneOf(q, {","})
  <2> HIDE DEF m
  <2> QED
    BY <1>1 DEF CommaFree, n
<1> HIDE DEF m, n
<1>6. LastSays(t, name) <=> \E k \in 1 .. m : /\ Hit(t[k], name) /\ ~Negated(t[k])
                                              /\ \A j \in k + 1 .. m : ~Hit(t[j], name)
  BY <1>1 DEF LastSays
<1>7. LastSays(s, name) <=> \E k \in 1 .. n : /\ Hit(s[k], name) /\ ~Negated(s[k])
                                              /\ \A j \in k + 1 .. n : ~Hit(s[j], name)
  BY DEF LastSays, n
<1>8. CASE Hit(q, name)
  <2>1. LastSays(t, name) <=> ~Negated(q)
    BY <1>1, <1>2, <1>3, <1>6, <1>8
  <2> QED
    BY <1>4, <1>5, <1>8, <2>1
<1>9. CASE ~Hit(q, name)
  <2>1. ASSUME LastSays(t, name) PROVE LastSays(s, name)
    BY <1>1, <1>2, <1>6, <1>7, <1>9, <2>1
  <2>2. ASSUME LastSays(s, name) PROVE LastSays(t, name)
    <3>1. PICK k \in 1 .. n : /\ Hit(s[k], name) /\ ~Negated(s[k])
                              /\ \A j \in k + 1 .. n : ~Hit(s[j], name)
      BY <1>7, <2>2
    <3>2. k \in 1 .. m /\ Hit(t[k], name) /\ ~Negated(t[k])
      BY <1>1, <3>1
    <3>3. \A j \in k + 1 .. m : ~Hit(t[j], name)
      BY <1>1, <1>2, <1>9, <3>1
    <3> QED
      BY <1>6, <3>2, <3>3
  <2> QED
    BY <1>4, <1>5, <1>9, <2>1, <2>2
<1> QED
  BY <1>8, <1>9

\* The parts that are not p.
LEMMA OtherNone == \A p : OtherThan(p, <<>>) = <<>>
<1>1. TAKE p
<1>2. [k \in DOMAIN <<>> |-> IF <<>>[k] = p THEN <<>> ELSE <<<<>>[k]>>] = <<>>
  OBVIOUS
<1> QED
  BY <1>2, FlattenIs DEF OtherThan

LEMMA OtherMore ==
    ASSUME NEW B, NEW p, NEW s, s \in Seq(B), NEW q, q \in B, NEW t, IsAppend(t, s, q)
    PROVE  /\ OtherThan(p, t) = IF q = p THEN OtherThan(p, s) ELSE Append(OtherThan(p, s), q)
           /\ OtherThan(p, s) \in Seq(B)
<1> DEFINE m == [x \in B |-> IF x = p THEN <<>> ELSE <<x>>]
<1>1. Maps(m, B, Seq(B))
  <2>1. \A x \in B : <<x>> \in Seq(B) /\ <<>> \in Seq(B)
    OBVIOUS
  <2> QED
    BY <2>1 DEF Maps
<1>2. ASSUME NEW r, r \in Seq(B) PROVE OtherThan(p, r) = FlattenSeq(Pieces(m, r))
  <2>1. \A k \in DOMAIN r : r[k] \in B
    BY <1>2
  <2>2. [k \in DOMAIN r |-> IF r[k] = p THEN <<>> ELSE <<r[k]>>] = Pieces(m, r)
    BY <2>1 DEF Pieces
  <2> QED
    BY <2>2 DEF OtherThan
<1>3. m[q] = IF q = p THEN <<>> ELSE <<q>>
  OBVIOUS
<1> HIDE DEF m
<1>4. IsAppend(t, s, q) /\ s \in Seq(B) /\ q \in B /\ t \in Seq(B)
  BY IsAppendIs
<1>5. FlattenSeq(Pieces(m, t)) = FlattenSeq(Pieces(m, s)) \o m[q] /\ FlattenSeq(Pieces(m, s)) \in Seq(B)
  BY ONLY <1>1, <1>4, MapUp
<1> DEFINE u == OtherThan(p, s)
<1>6. OtherThan(p, t) = u \o m[q] /\ u \in Seq(B)
  BY <1>2, <1>4, <1>5
<1> HIDE DEF u
<1>7. u \o <<>> = u /\ u \o <<q>> = Append(u, q)
  BY <1>6
<1> QED
  BY <1>3, <1>6, <1>7 DEF u

\* The parts that are kept say the same of other names.
KeptRight(p, s, name) ==
    /\ ~Hit(p, name) => (LastSays(OtherThan(p, s), name) <=> LastSays(s, name))
    /\ AllGood(s) => AllGood(OtherThan(p, s))
    /\ CommaFree(s) => CommaFree(OtherThan(p, s))

LEMMA KeptIs ==
    ASSUME NEW B, NEW p, NEW name, NEW s, s \in Seq(B)
    PROVE  KeptRight(p, s, name)
<1> DEFINE P == {u \in Seq(B) : KeptRight(p, u, name)}
<1>1. <<>> \in P
  <2>1. OtherThan(p, <<>>) = <<>> /\ <<>> \in Seq(B)
    BY OtherNone
  <2> QED
    BY <2>1 DEF KeptRight
<1>2. ASSUME NEW u \in Seq(B), NEW q \in B, u \in P PROVE Append(u, q) \in P
  <2> DEFINE t == Append(u, q)
             k == OtherThan(p, u)
             l == OtherThan(p, t)
  <2>1. IsAppend(t, u, q) /\ t \in Seq(B)
    BY DEF IsAppend
  <2> HIDE DEF t
  <2>2. l = (IF q = p THEN k ELSE Append(k, q)) /\ k \in Seq(B)
    BY <1>2, <2>1, OtherMore
  <2>3. /\ LastSays(t, name) <=> IF Hit(q, name) THEN ~Negated(q) ELSE LastSays(u, name)
        /\ AllGood(t) <=> AllGood(u) /\ Good(q)
        /\ CommaFree(t) <=> CommaFree(u) /\ NoneOf(q, {","})
    BY <2>1, LastUp
  <2>4. /\ ~Hit(p, name) => (LastSays(k, name) <=> LastSays(u, name))
        /\ AllGood(u) => AllGood(k)
        /\ CommaFree(u) => CommaFree(k)
    BY <1>2 DEF KeptRight
  <2> HIDE DEF k, l
  <2>5. CASE q = p
    <3>1. /\ ~Hit(p, name) => (LastSays(l, name) <=> LastSays(t, name))
          /\ AllGood(t) => AllGood(l)
          /\ CommaFree(t) => CommaFree(l)
      BY <2>2, <2>3, <2>4, <2>5
    <3> QED
      BY <2>1, <3>1 DEF KeptRight, l, t
  <2>6. CASE q # p
    <3>1. IsAppend(l, k, q)
      BY <2>2, <2>6 DEF IsAppend
    <3>2. /\ LastSays(l, name) <=> IF Hit(q, name) THEN ~Negated(q) ELSE LastSays(k, name)
          /\ AllGood(l) <=> AllGood(k) /\ Good(q)
          /\ CommaFree(l) <=> CommaFree(k) /\ NoneOf(q, {","})
      BY <2>2, <3>1, LastUp
    <3>3. /\ ~Hit(p, name) => (LastSays(l, name) <=> LastSays(t, name))
          /\ AllGood(t) => AllGood(l)
          /\ CommaFree(t) => CommaFree(l)
      BY <2>3, <2>4, <3>2
    <3> QED
      BY <2>1, <3>3 DEF KeptRight, l, t
  <2> QED
    BY <2>5, <2>6
<1> HIDE DEF P
<1>3. Seq(B) \subseteq P
  BY <1>1, <1>2, SeqInduct
<1> QED
  BY <1>3 DEF P

Comma(q) == <<",">> \o q

HasComma(A) == "," \in A

LEMMA OneIn == ASSUME NEW A, NEW c, c \in A, NEW q, q \in Seq(A) PROVE <<c>> \in Seq(A) /\ <<c>> \o q \in Seq(A)
OBVIOUS

LEMMA CommaIn == ASSUME NEW A, HasComma(A), NEW q, q \in Seq(A) PROVE Comma(q) \in Seq(A) /\ <<",">> \in Seq(A)
<1>1. PICK c : c = "," /\ c \in A
  BY DEF HasComma
<1>2. <<c>> \in Seq(A) /\ <<c>> \o q \in Seq(A)
  BY <1>1, OneIn
<1> QED
  BY <1>1, <1>2 DEF Comma

\* The parts with their commas.
Commas(parts) == [k \in DOMAIN parts |-> IF k = 1 THEN parts[k] ELSE Comma(parts[k])]

LEMMA CommasIs ==
    ASSUME NEW A, HasComma(A), NEW s, s \in Seq(Seq(A))
    PROVE  /\ Commas(s) \in Seq(Seq(A)) /\ Len(Commas(s)) = Len(s) /\ Len(s) \in Nat
           /\ \A k \in 1 .. Len(s) : Commas(s)[k] = IF k = 1 THEN s[k] ELSE Comma(s[k])
<1> DEFINE B == Seq(A)
           n == Len(s)
<1>1. \A q \in B : Comma(q) \in B
  BY CommaIn
<1> HIDE DEF B
<1>2. n \in Nat /\ DOMAIN s = 1 .. n /\ \A k \in 1 .. n : s[k] \in B
  BY DEF B
<1>3. Commas(s) = [k \in 1 .. n |-> IF k = 1 THEN s[k] ELSE Comma(s[k])]
  BY <1>2 DEF Commas
<1> HIDE DEF n
<1>4. \A k \in 1 .. n : (IF k = 1 THEN s[k] ELSE Comma(s[k])) \in B
  BY <1>1, <1>2
<1>5. Commas(s) \in Seq(B) /\ Len(Commas(s)) = n
  BY <1>2, <1>3, <1>4
<1> QED
  BY <1>2, <1>3, <1>5 DEF B, n

LEMMA CommasUp ==
    ASSUME NEW A, HasComma(A), NEW s, s \in Seq(Seq(A)), NEW q, q \in Seq(A), NEW t, IsAppend(t, s, q)
    PROVE  /\ CommaJoined(t) = CommaJoined(s) \o (IF s = <<>> THEN q ELSE Comma(q))
           /\ CommaJoined(s) \in Seq(A)
<1> DEFINE B == Seq(A)
           n == Len(s)
           x == IF s = <<>> THEN q ELSE Comma(q)
           u == Commas(s)
           v == Commas(t)
<1>1. s \in Seq(B) /\ q \in B
  OBVIOUS
<1>2. /\ t \in Seq(B) /\ n \in Nat /\ Len(t) = n + 1 /\ t[n + 1] = q /\ \A k \in 1 .. n : t[k] = s[k]
      /\ 1 .. n + 1 = (1 .. n) \cup {n + 1}
  <2> HIDE DEF B
  <2> QED
    BY <1>1, IsAppendIs
<1>3. /\ u \in Seq(B) /\ Len(u) = n /\ \A k \in 1 .. n : u[k] = IF k = 1 THEN s[k] ELSE Comma(s[k])
  BY CommasIs
<1>4. /\ v \in Seq(B) /\ Len(v) = Len(t) /\ \A k \in 1 .. Len(t) : v[k] = IF k = 1 THEN t[k] ELSE Comma(t[k])
  BY <1>2, CommasIs
<1>5. s = <<>> <=> n + 1 = 1
  <2>1. s = <<>> <=> n = 0
    BY <1>1
  <2> QED
    BY <1>2, <2>1
<1> HIDE DEF u, v, n
<1>6. v[n + 1] = x
  <2>1. n + 1 \in 1 .. Len(t)
    BY <1>2
  <2> QED
    BY <1>2, <1>4, <1>5, <2>1
<1>7. \A k \in 1 .. n : v[k] = u[k]
  <2>1. \A k \in 1 .. n : k \in 1 .. Len(t)
    BY <1>2
  <2> QED
    BY <1>2, <1>3, <1>4, <2>1
<1>8. x \in B
  <2>1. v[n + 1] \in B
    <3>1. n + 1 \in 1 .. Len(v)
      BY <1>2, <1>4
    <3> HIDE DEF B
    <3> QED
      BY <1>4, <3>1
  <2> QED
    BY <1>6, <2>1
<1> HIDE DEF x, B
<1>9. v = Append(u, x)
  <2> DEFINE w == Append(u, x)
  <2>1. w \in Seq(B) /\ Len(w) = n + 1 /\ w[n + 1] = x /\ \A k \in 1 .. n : w[k] = u[k]
    BY <1>3, <1>8
  <2> HIDE DEF w
  <2>2. Len(v) = n + 1
    BY <1>2, <1>4
  <2>3. \A k \in 1 .. Len(v) : v[k] = w[k]
    <3>1. \A k \in 1 .. Len(v) : k = n + 1 \/ k \in 1 .. n
      BY <1>2, <2>2
    <3> QED
      BY <1>6, <1>7, <2>1, <3>1
  <2>4. v = w
    BY <1>4, <2>1, <2>2, <2>3
  <2> QED
    BY <2>4 DEF w
<1>10. FlattenSeq(v) = FlattenSeq(u) \o x /\ FlattenSeq(u) \in Seq(A)
  <2>1. u \in Seq(Seq(A)) /\ x \in Seq(A) /\ IsAppend(v, u, x)
    BY <1>3, <1>8, <1>9 DEF B, IsAppend
  <2>2. FlattenSeq(v) = FlattenSeq(u) \o x
    BY ONLY <2>1, FlattenCat
  <2>3. FlattenSeq(u) \in Seq(A)
    BY <2>1, FlattenIs
  <2> QED
    BY <2>2, <2>3
<1>11. CommaJoined(s) = FlattenSeq(u) /\ CommaJoined(t) = FlattenSeq(v)
  BY DEF CommaJoined, Commas, Comma, u, v
<1> QED
  BY <1>10, <1>11 DEF x

LEMMA AppendGives ==
    ASSUME NEW B, NEW p, p \in Seq(B), NEW q, q \in B
    PROVE  /\ Len(p) \in Nat /\ Append(p, q) \in Seq(B) /\ Len(Append(p, q)) = Len(p) + 1
           /\ Append(p, q)[Len(p) + 1] = q
           /\ \A k \in 1 .. Len(p) : Append(p, q)[k] = p[k]
OBVIOUS

LEMMA EndedSame ==
    ASSUME NEW B, NEW p, p \in Seq(B), NEW q, q \in B, NEW r, r \in Seq(B), Len(r) = Len(p) + 1,
           r[Len(p) + 1] = q, \A k \in 1 .. Len(p) : r[k] = p[k]
    PROVE  r = Append(p, q)
<1> DEFINE w == Append(p, q)
           n == Len(p)
<1>1. n \in Nat /\ w \in Seq(B) /\ Len(w) = n + 1 /\ w[n + 1] = q /\ \A k \in 1 .. n : w[k] = p[k]
  BY AppendGives
<1> HIDE DEF w, n
<1>2. Len(r) = n + 1 /\ r[n + 1] = q /\ \A k \in 1 .. n : r[k] = p[k]
  BY DEF n
<1>3. \A k \in 1 .. n + 1 : k = n + 1 \/ k \in 1 .. n
  BY ONLY <1>1
<1>4. \A k \in 1 .. Len(r) : r[k] = w[k]
  BY <1>1, <1>2, <1>3
<1>5. r = w
  BY ONLY <1>1, <1>2, <1>4, r \in Seq(B)
<1> QED
  BY <1>5 DEF w

LEMMA EmptyBefore == \A B : <<>> \in Seq(B) /\ \A q \in Seq(B) : <<>> \o q = q
OBVIOUS

LEMMA OneOnly == ASSUME NEW B, NEW o, o \in Seq(B), Len(o) = 1 PROVE o = <<o[1]>>
OBVIOUS

LEMMA FirstEnded == \A q : Append(<<>>, q) = <<q>> /\ Len(<<q>>) = 1 /\ <<q>>[1] = q
OBVIOUS

LEMMA Cats ==
    ASSUME NEW A, NEW y, y \in Seq(A), NEW q, q \in Seq(A), NEW d, d \in Seq(A), NEW z, z = y \o d,
           NEW w, w = d \o q
    PROVE  z \in Seq(A) /\ y \o w = z \o q /\ z \o q \in Seq(A)
BY ConcatAssociative

LEMMA PartsTyped == ASSUME NEW A, NEW y, y \in Seq(A) PROVE PartsOf(y) \in Seq(Seq(A))
BY PartsThere DEF Parting

LEMMA Lengthening ==
    ASSUME NEW A, NEW y, y \in Seq(A), NEW q, q \in Seq(A), NoneOf(q, {","})
    PROVE  Lengthened(PartsOf(y), PartsOf(y \o q), q)
<1>1. Lengthened(Split(y, {","}), Split(y \o q, {","}), q)
  BY SplitNone
<1> QED
  BY <1>1 DEF PartsOf

LEMMA Comming == ASSUME NEW A, HasComma(A), NEW y, y \in Seq(A) PROVE PartsOf(y \o <<",">>) = Append(PartsOf(y), <<>>)
<1>1. PICK c : c = "," /\ c \in A
  BY DEF HasComma
<1>2. c \in {","}
  BY <1>1
<1> DEFINE S == {","}
<1> HIDE DEF S
<1>3. Split(y \o <<c>>, S) = Append(Split(y, S), <<>>)
  BY ONLY y \in Seq(A), <1>1, <1>2, SplitSep DEF S
<1> QED
  BY <1>1, <1>3 DEF PartsOf, S

\* A part behind a comma, and the first part.
LEMMA PartBehind ==
    ASSUME NEW A, HasComma(A), NEW y, y \in Seq(A), NEW q, q \in Seq(A), NoneOf(q, {","})
    PROVE  PartsOf(y \o Comma(q)) = Append(PartsOf(y), q)
<1> DEFINE z == y \o <<",">>
           x == z \o q
           p == PartsOf(y)
           r == PartsOf(x)
           B == Seq(A)
<1>1. z \in Seq(A) /\ x = y \o Comma(q) /\ x \in Seq(A)
  <2> DEFINE d == <<",">>
             w == Comma(q)
  <2>1. d \in Seq(A)
    BY CommaIn
  <2>2. z = y \o d /\ w = d \o q
    BY DEF Comma
  <2> HIDE DEF d, w, z
  <2>3. z \in Seq(A) /\ y \o w = z \o q /\ z \o q \in Seq(A)
    BY ONLY <2>1, <2>2, y \in Seq(A), q \in Seq(A), Cats
  <2> QED
    BY <2>3 DEF w
<1>2. p \in Seq(B) /\ <<>> \in B /\ q \in B
  BY PartsTyped, EmptyBefore
<1>3. PartsOf(z) = Append(p, <<>>)
  BY Comming
<1>4. Lengthened(PartsOf(z), r, q)
  <2> HIDE DEF z
  <2> QED
    BY <1>1, Lengthening
<1>5. r \in Seq(B)
  <2> HIDE DEF x
  <2> QED
    BY <1>1, PartsTyped
<1> DEFINE e == Append(p, <<>>)
           n == Len(p)
<1>6. n \in Nat /\ Len(e) = n + 1 /\ e[n + 1] = <<>> /\ \A k \in 1 .. n : e[k] = p[k]
  <2> DEFINE g == <<>>
  <2>1. g \in B
    BY <1>2
  <2> HIDE DEF p, B, g
  <2>2. /\ Len(p) \in Nat /\ Append(p, g) \in Seq(B) /\ Len(Append(p, g)) = Len(p) + 1
        /\ Append(p, g)[Len(p) + 1] = g
        /\ \A k \in 1 .. Len(p) : Append(p, g)[k] = p[k]
    BY ONLY <1>2, <2>1, AppendGives
  <2> QED
    BY ONLY <2>2 DEF g
<1>7. <<>> \o q = q
  BY EmptyBefore
<1> HIDE DEF e, n, z, x, p, r, B
<1>8. (n + 1) - 1 = n
  BY ONLY <1>6
<1>9. Len(r) = n + 1 /\ (\A k \in 1 .. n : r[k] = p[k]) /\ r[n + 1] = q
  BY <1>3, <1>4, <1>6, <1>7, <1>8 DEF Lengthened, e
<1>10. r = Append(p, q)
  BY <1>2, <1>5, <1>9, EndedSame DEF n
<1> QED
  BY <1>1, <1>10 DEF r, p

LEMMA PartFirst == ASSUME NEW A, NEW q, q \in Seq(A), NoneOf(q, {","}) PROVE PartsOf(q) = <<q>>
<1> DEFINE o == PartsOf(q)
           B == Seq(A)
<1>1. <<>> \in Seq(A) /\ <<>> \o q = q
  BY EmptyBefore
<1>2. Lengthened(PartsOf(<<>>), PartsOf(<<>> \o q), q)
  BY <1>1, Lengthening
<1>3. PartsOf(<<>>) = <<<<>>>>
  BY SplitIs DEF PartsOf
<1>4. Len(<<<<>>>>) = 1 /\ <<<<>>>>[1] = <<>>
  BY FirstEnded
<1>5. Len(o) = 1 /\ o[1] = q
  BY <1>1, <1>2, <1>3, <1>4 DEF Lengthened
<1>6. o \in Seq(B)
  BY PartsTyped
<1> HIDE DEF o, B
<1>7. o = <<q>>
  BY <1>5, <1>6, OneOnly
<1> QED
  BY <1>7 DEF o

LEMMA NoneJoined == CommaJoined(<<>>) = <<>>
<1>1. [k \in DOMAIN <<>> |-> IF k = 1 THEN <<>>[k] ELSE <<",">> \o <<>>[k]] = <<>>
  OBVIOUS
<1> QED
  BY <1>1, FlattenIs DEF CommaJoined

\* What is joined with commas has the parts it was made of: one more.
LEMMA JoinedUp ==
    ASSUME NEW A, HasComma(A), NEW u, u \in Seq(Seq(A)), NEW q, q \in Seq(A), NEW t, IsAppend(t, u, q),
           CommaFree(t), u = <<>> \/ PartsOf(CommaJoined(u)) = u
    PROVE  PartsOf(CommaJoined(t)) = t
<1> DEFINE y == CommaJoined(u)
<1>1. CommaFree(u) /\ NoneOf(q, {","})
  BY LastUp
<1>2. CommaJoined(t) = y \o (IF u = <<>> THEN q ELSE Comma(q)) /\ y \in Seq(A)
  BY CommasUp
<1>3. t = Append(u, q)
  BY DEF IsAppend
<1> HIDE DEF y
<1>4. CASE u = <<>>
  <2>1. y = <<>>
    BY <1>4, NoneJoined DEF y
  <2>2. CommaJoined(t) = q
    BY <1>2, <1>4, <2>1, EmptyBefore
  <2>3. t = <<q>>
    BY <1>3, <1>4, FirstEnded
  <2> QED
    BY <1>1, <2>2, <2>3, PartFirst
<1>5. CASE u # <<>>
  <2>1. PartsOf(y) = u
    BY <1>5 DEF y
  <2>2. PartsOf(y \o Comma(q)) = Append(PartsOf(y), q)
    BY <1>1, <1>2, PartBehind
  <2> QED
    BY <1>2, <1>3, <1>5, <2>1, <2>2
<1> QED
  BY <1>4, <1>5

\* What is joined with commas has the parts it was made of.
LEMMA JoinedParts ==
    ASSUME NEW A, HasComma(A), NEW s, s \in Seq(Seq(A)), CommaFree(s), s # <<>>
    PROVE  PartsOf(CommaJoined(s)) = s
<1> DEFINE B == Seq(A)
           P == {u \in Seq(B) : u # <<>> /\ CommaFree(u) => PartsOf(CommaJoined(u)) = u}
<1>1. <<>> \in P
  BY EmptyBefore
<1>2. ASSUME NEW u \in Seq(B), NEW q \in B, u \in P PROVE Append(u, q) \in P
  <2> DEFINE t == Append(u, q)
  <2>1. IsAppend(t, u, q) /\ t \in Seq(B)
    <3> HIDE DEF B
    <3> QED
      BY <1>2, AppendGives DEF IsAppend
  <2>2. SUFFICES ASSUME CommaFree(t) PROVE PartsOf(CommaJoined(t)) = t
    BY <2>1
  <2> HIDE DEF t
  <2>3. CommaFree(u)
    BY <1>2, <2>1, <2>2, LastUp
  <2>4. u = <<>> \/ PartsOf(CommaJoined(u)) = u
    BY <1>2, <2>3
  <2> QED
    BY <1>2, <2>1, <2>2, <2>4, JoinedUp
<1> HIDE DEF P
<1>3. Seq(B) \subseteq P
  <2> HIDE DEF B
  <2> QED
    BY <1>1, <1>2, SeqInduct
<1> QED
  BY <1>3 DEF P

-----------------------------------------------------------------------------
(***************************************************************************)
(* The components of a name.                                               *)
(***************************************************************************)

\* From i to j there is a component: a dot or an end on both sides, and none in it.
Component(s, i, j) ==
    /\ i \in 1 .. Len(s) + 1 /\ j \in i - 1 .. Len(s)
    /\ i = 1 \/ s[i - 1] = "."
    /\ j = Len(s) \/ s[j + 1] = "."
    /\ \A m \in i .. j : s[m] # "."

\* It is q.
Bears(s, i, j, q) == Len(q) = j - i + 1 /\ \A m \in i .. j : q[m - i + 1] = s[m]

\* It is the k-th part.
PartAt(s, p, k, i, j) ==
    /\ k \in 1 .. Len(p) /\ Component(s, i, j) /\ Bears(s, i, j, p[k])
    /\ k = 1 <=> i = 1
    /\ k = Len(p) <=> j = Len(s)

\* The parts are the components.
InComponents(s, p) ==
    /\ \A k \in 1 .. Len(p) : \E i, j \in Nat : PartAt(s, p, k, i, j)
    /\ \A i, j \in Nat : Component(s, i, j) => \E k \in Nat : PartAt(s, p, k, i, j)

More(s, t, c) ==
    /\ Len(s) \in Nat /\ Len(t) = Len(s) + 1 /\ t[Len(s) + 1] = c
    /\ \A m \in 1 .. Len(s) : t[m] = s[m]

LEMMA ComponentDot ==
    ASSUME NEW s, NEW t, More(s, t, "."), NEW i, i \in Nat, NEW j, j \in Nat
    PROVE  Component(t, i, j) <=> Component(s, i, j) \/ (i = Len(t) + 1 /\ j = Len(t))
<1> DEFINE L == Len(s)
<1>1. L \in Nat /\ Len(t) = L + 1 /\ t[L + 1] = "." /\ \A m \in 1 .. L : t[m] = s[m]
  BY DEF More
<1> HIDE DEF L
<1>2. ASSUME Component(t, i, j) PROVE Component(s, i, j) \/ (i = L + 2 /\ j = L + 1)
  <2>1. /\ i \in 1 .. L + 2 /\ j \in i - 1 .. L + 1
        /\ i = 1 \/ t[i - 1] = "."
        /\ j = L + 1 \/ t[j + 1] = "."
        /\ \A m \in i .. j : t[m] # "."
    BY <1>1, <1>2 DEF Component
  <2>2. CASE j = L + 1
    <3>1. ~(i <= L + 1)
      BY <1>1, <2>1, <2>2
    <3> QED
      BY <1>1, <2>1, <2>2, <3>1
  <2>3. CASE j # L + 1
    <3>1. j \in i - 1 .. L /\ i \in 1 .. L + 1
      BY <1>1, <2>1, <2>3
    <3>2. i = 1 \/ s[i - 1] = "."
      BY <1>1, <2>1, <3>1
    <3>3. j = L \/ s[j + 1] = "."
      BY <1>1, <2>1, <2>3, <3>1
    <3>4. \A m \in i .. j : s[m] # "."
      BY <1>1, <2>1, <3>1
    <3> QED
      BY <3>1, <3>2, <3>3, <3>4 DEF Component, L
  <2> QED
    BY <2>2, <2>3
<1>3. ASSUME Component(s, i, j) PROVE Component(t, i, j)
  <2>1. /\ i \in 1 .. L + 1 /\ j \in i - 1 .. L
        /\ i = 1 \/ s[i - 1] = "."
        /\ j = L \/ s[j + 1] = "."
        /\ \A m \in i .. j : s[m] # "."
    BY <1>3 DEF Component, L
  <2>2. i \in 1 .. Len(t) + 1 /\ j \in i - 1 .. Len(t)
    BY <1>1, <2>1
  <2>3. i = 1 \/ t[i - 1] = "."
    BY <1>1, <2>1
  <2>4. j = Len(t) \/ t[j + 1] = "."
    BY <1>1, <2>1
  <2>5. \A m \in i .. j : t[m] # "."
    BY <1>1, <2>1
  <2> QED
    BY <2>2, <2>3, <2>4, <2>5 DEF Component
<1>4. ASSUME i = L + 2, j = L + 1 PROVE Component(t, i, j)
  <2>1. i \in 1 .. Len(t) + 1 /\ j \in i - 1 .. Len(t) /\ t[i - 1] = "." /\ j = Len(t)
    BY <1>1, <1>4
  <2>2. \A m \in i .. j : t[m] # "."
    BY <1>1, <1>4
  <2> QED
    BY <2>1, <2>2 DEF Component
<1>5. Len(t) + 1 = L + 2
  BY <1>1
<1> QED
  BY <1>1, <1>2, <1>3, <1>4, <1>5

LEMMA ComponentOther ==
    ASSUME NEW s, NEW t, NEW c, c # ".", More(s, t, c), NEW i, i \in Nat, NEW j, j \in Nat
    PROVE  Component(t, i, j) <=> \/ Component(s, i, j) /\ j # Len(s)
                                  \/ Component(s, i, Len(s)) /\ j = Len(t)
<1> DEFINE L == Len(s)
<1>1. L \in Nat /\ Len(t) = L + 1 /\ t[L + 1] # "." /\ \A m \in 1 .. L : t[m] = s[m]
  BY DEF More
<1> HIDE DEF L
<1>2. ASSUME Component(t, i, j) PROVE (Component(s, i, j) /\ j # L) \/ (Component(s, i, L) /\ j = L + 1)
  <2>1. /\ i \in 1 .. L + 2 /\ j \in i - 1 .. L + 1
        /\ i = 1 \/ t[i - 1] = "."
        /\ j = L + 1 \/ t[j + 1] = "."
        /\ \A m \in i .. j : t[m] # "."
    BY <1>1, <1>2 DEF Component
  <2>2. i \in 1 .. L + 1
    BY <1>1, <2>1
  <2>3. i = 1 \/ s[i - 1] = "."
    BY <1>1, <2>1, <2>2
  <2>4. CASE j = L + 1
    <3>1. L \in i - 1 .. L
      BY <1>1, <2>2
    <3>2. \A m \in i .. L : s[m] # "."
      BY <1>1, <2>1, <2>2, <2>4
    <3> QED
      BY <2>2, <2>3, <2>4, <3>1, <3>2 DEF Component, L
  <2>5. CASE j # L + 1
    <3>1. j \in i - 1 .. L /\ j # L
      BY <1>1, <2>1, <2>5
    <3>2. s[j + 1] = "."
      BY <1>1, <2>1, <2>2, <2>5, <3>1
    <3>3. \A m \in i .. j : s[m] # "."
      BY <1>1, <2>1, <2>2, <3>1
    <3> QED
      BY <2>2, <2>3, <3>1, <3>2, <3>3 DEF Component, L
  <2> QED
    BY <2>4, <2>5
<1>3. ASSUME Component(s, i, j), j # L PROVE Component(t, i, j)
  <2>1. /\ i \in 1 .. L + 1 /\ j \in i - 1 .. L
        /\ i = 1 \/ s[i - 1] = "."
        /\ j = L \/ s[j + 1] = "."
        /\ \A m \in i .. j : s[m] # "."
    BY <1>3 DEF Component, L
  <2>2. i \in 1 .. Len(t) + 1 /\ j \in i - 1 .. Len(t)
    BY <1>1, <2>1
  <2>3. i = 1 \/ t[i - 1] = "."
    BY <1>1, <2>1
  <2>4. t[j + 1] = "."
    BY <1>1, <1>3, <2>1
  <2>5. \A m \in i .. j : t[m] # "."
    BY <1>1, <2>1
  <2> QED
    BY <2>2, <2>3, <2>4, <2>5 DEF Component
<1>4. ASSUME Component(s, i, L), j = L + 1 PROVE Component(t, i, j)
  <2>1. /\ i \in 1 .. L + 1
        /\ i = 1 \/ s[i - 1] = "."
        /\ \A m \in i .. L : s[m] # "."
    BY <1>4 DEF Component, L
  <2>2. i \in 1 .. Len(t) + 1 /\ j \in i - 1 .. Len(t) /\ j = Len(t)
    BY <1>1, <1>4, <2>1
  <2>3. i = 1 \/ t[i - 1] = "."
    BY <1>1, <2>1
  <2>4. \A m \in i .. j : t[m] # "."
    BY <1>1, <1>4, <2>1
  <2> QED
    BY <2>2, <2>3, <2>4 DEF Component
<1> QED
  BY <1>1, <1>2, <1>3, <1>4 DEF L

LEMMA BearsOn ==
    ASSUME NEW s, NEW t, NEW c, More(s, t, c), NEW i, i \in Nat, i # 0, NEW j, j \in Nat, j <= Len(s), NEW q,
           Bears(s, i, j, q)
    PROVE  Bears(t, i, j, q)
<1> DEFINE L == Len(s)
<1>1. L \in Nat /\ (\A m \in 1 .. L : t[m] = s[m]) /\ j <= L
  BY DEF More
<1> HIDE DEF L
<1>2. Len(q) = j - i + 1 /\ \A m \in i .. j : q[m - i + 1] = s[m]
  BY DEF Bears
<1>3. \A m \in i .. j : t[m] = s[m]
  BY <1>1
<1> QED
  BY <1>2, <1>3 DEF Bears

LEMMA BearsUp ==
    ASSUME NEW A, NEW s, NEW t, NEW c, c \in A, More(s, t, c), NEW i, i \in Nat, i # 0, NEW q, q \in Seq(A),
           Bears(s, i, Len(s), q)
    PROVE  Bears(t, i, Len(t), q \o <<c>>)
<1> DEFINE L == Len(s)
           r == q \o <<c>>
<1>1. L \in Nat /\ Len(t) = L + 1 /\ t[L + 1] = c /\ \A m \in 1 .. L : t[m] = s[m]
  BY DEF More
<1>2. Len(q) = L - i + 1 /\ \A m \in i .. L : q[m - i + 1] = s[m]
  BY DEF Bears
<1>3. Len(q) \in Nat
  OBVIOUS
<1>4. Len(r) = Len(q) + 1 /\ r[Len(q) + 1] = c /\ \A m \in 1 .. Len(q) : r[m] = q[m]
  OBVIOUS
<1> HIDE DEF L, r
<1>5. Len(r) = (L + 1) - i + 1
  BY <1>1, <1>2, <1>4
<1>6. ASSUME NEW m \in i .. L + 1 PROVE r[m - i + 1] = t[m]
  <2>1. CASE m = L + 1
    <3>1. m - i + 1 = Len(q) + 1
      BY <1>1, <1>2, <2>1
    <3> QED
      BY <1>1, <1>4, <2>1, <3>1
  <2>2. CASE m # L + 1
    <3>1. m \in i .. L /\ m \in 1 .. L /\ m - i + 1 \in 1 .. Len(q)
      BY <1>1, <1>2, <2>2
    <3> QED
      BY <1>1, <1>2, <1>4, <3>1
  <2> QED
    BY <2>1, <2>2
<1> QED
  BY <1>1, <1>5, <1>6 DEF Bears, r

LEMMA ComponentIs ==
    ASSUME NEW s, NEW i, NEW j, Component(s, i, j), Len(s) \in Nat
    PROVE  i \in Nat \ {0} /\ j \in Nat /\ j <= Len(s) /\ i <= Len(s) + 1 /\ i <= j + 1
<1> DEFINE L == Len(s)
<1>1. L \in Nat /\ i \in 1 .. L + 1 /\ j \in i - 1 .. L
  BY DEF Component
<1> HIDE DEF L
<1>2. i \in Nat \ {0} /\ j \in Nat /\ j <= L /\ i <= L + 1 /\ i <= j + 1
  BY <1>1
<1> QED
  BY <1>2 DEF L

\* A dot more.
LEMMA DotMore ==
    ASSUME NEW A, NEW s, NEW t, More(s, t, "."), NEW p, Parting(A, p), NEW q,
           Len(q) = Len(p) + 1, \A k \in 1 .. Len(p) : q[k] = p[k], q[Len(p) + 1] = <<>>, InComponents(s, p)
    PROVE  InComponents(t, q)
<1> DEFINE n == Len(p)
           L == Len(s)
<1>1. n \in Nat \ {0} /\ Len(q) = n + 1 /\ (\A k \in 1 .. n : q[k] = p[k]) /\ q[n + 1] = <<>>
  BY PartingIs
<1>2. L \in Nat /\ Len(t) = L + 1
  BY DEF More
<1>3. ASSUME NEW k, NEW i, NEW j, PartAt(s, p, k, i, j) PROVE PartAt(t, q, k, i, j)
  <2>1. /\ k \in 1 .. n /\ Component(s, i, j) /\ Bears(s, i, j, p[k])
        /\ k = 1 <=> i = 1
    BY <1>3 DEF PartAt
  <2>2. i \in Nat \ {0} /\ j \in Nat /\ j <= L
    BY <1>2, <2>1, ComponentIs
  <2>3. Component(t, i, j)
    BY <2>1, <2>2, ComponentDot
  <2>4. Bears(t, i, j, q[k])
    BY <1>1, <2>1, <2>2, BearsOn
  <2> HIDE DEF n, L
  <2>5. k \in 1 .. Len(q) /\ k # Len(q) /\ j # Len(t)
    BY <1>1, <1>2, <2>1, <2>2
  <2> QED
    BY <2>1, <2>3, <2>4, <2>5 DEF PartAt
<1> HIDE DEF n, L
<1>4. PartAt(t, q, n + 1, Len(t) + 1, Len(t))
  <2>1. n + 1 \in 1 .. Len(q) /\ n + 1 = Len(q) /\ n + 1 # 1 /\ Len(t) + 1 # 1 /\ Len(t) \in Nat /\ Len(t) + 1 \in Nat
    BY <1>1, <1>2
  <2>2. Component(t, Len(t) + 1, Len(t))
    BY <2>1, ComponentDot
  <2>3. Bears(t, Len(t) + 1, Len(t), <<>>)
    <3>1. Len(<<>>) = Len(t) - (Len(t) + 1) + 1
      BY <2>1
    <3>2. \A m \in Len(t) + 1 .. Len(t) : FALSE
      BY <2>1
    <3> QED
      BY <3>1, <3>2 DEF Bears
  <2> QED
    BY <1>1, <2>1, <2>2, <2>3 DEF PartAt
<1>5. ASSUME NEW k \in 1 .. Len(q) PROVE \E i, j \in Nat : PartAt(t, q, k, i, j)
  <2>1. CASE k = n + 1
    <3>1. Len(t) \in Nat /\ Len(t) + 1 \in Nat
      BY <1>2
    <3> QED
      BY <1>4, <2>1, <3>1
  <2>2. CASE k # n + 1
    <3>1. k \in 1 .. n
      BY <1>1, <2>2
    <3>2. PICK i \in Nat, j \in Nat : PartAt(s, p, k, i, j)
      BY <3>1 DEF InComponents, n
    <3> QED
      BY <1>3, <3>2
  <2> QED
    BY <2>1, <2>2
<1>6. ASSUME NEW i \in Nat, NEW j \in Nat, Component(t, i, j) PROVE \E k \in Nat : PartAt(t, q, k, i, j)
  <2>1. Component(s, i, j) \/ (i = Len(t) + 1 /\ j = Len(t))
    BY <1>6, ComponentDot
  <2>2. CASE Component(s, i, j)
    <3>1. PICK k \in Nat : PartAt(s, p, k, i, j)
      BY <2>2 DEF InComponents
    <3> QED
      BY <1>3, <3>1
  <2>3. CASE i = Len(t) + 1 /\ j = Len(t)
    <3>1. n + 1 \in Nat
      BY <1>1
    <3> QED
      BY <1>4, <2>3, <3>1
  <2> QED
    BY <2>1, <2>2, <2>3
<1> QED
  BY <1>5, <1>6 DEF InComponents

\* Another character more.
LEMMA OtherCharMore ==
    ASSUME NEW A, NEW s, NEW t, NEW c, c \in A, c # ".", More(s, t, c), NEW p, Parting(A, p), NEW q,
           Len(q) = Len(p), \A k \in 1 .. Len(p) - 1 : q[k] = p[k], q[Len(p)] = p[Len(p)] \o <<c>>,
           InComponents(s, p)
    PROVE  InComponents(t, q)
<1> DEFINE n == Len(p)
           L == Len(s)
<1>1. n \in Nat \ {0} /\ Len(q) = n /\ (\A k \in 1 .. n - 1 : q[k] = p[k]) /\ q[n] = p[n] \o <<c>>
      /\ \A k \in 1 .. n : p[k] \in Seq(A)
  BY PartingIs
<1>2. L \in Nat /\ Len(t) = L + 1
  BY DEF More
<1>3. ASSUME NEW k, NEW i, NEW j, PartAt(s, p, k, i, j), k # n PROVE PartAt(t, q, k, i, j)
  <2>1. /\ k \in 1 .. n /\ Component(s, i, j) /\ Bears(s, i, j, p[k])
        /\ k = 1 <=> i = 1
        /\ j # L
    BY <1>3 DEF PartAt
  <2>2. i \in Nat \ {0} /\ j \in Nat /\ j <= L
    BY <1>2, <2>1, ComponentIs
  <2>3. Component(t, i, j)
    BY <2>1, <2>2, ComponentOther
  <2>4. k \in 1 .. n - 1
    <3> HIDE DEF n
    <3> QED
      BY <1>1, <1>3, <2>1
  <2>5. Bears(t, i, j, q[k])
    BY <1>1, <2>1, <2>2, <2>4, BearsOn
  <2> HIDE DEF n, L
  <2>6. k \in 1 .. Len(q) /\ k # Len(q) /\ j # Len(t)
    BY <1>1, <1>2, <2>1, <2>2, <1>3
  <2> QED
    BY <2>1, <2>3, <2>5, <2>6 DEF PartAt
<1>4. ASSUME NEW i, PartAt(s, p, n, i, L) PROVE PartAt(t, q, n, i, L + 1)
  <2>1. /\ n \in 1 .. n /\ Component(s, i, L) /\ Bears(s, i, L, p[n])
        /\ n = 1 <=> i = 1
    BY <1>4 DEF PartAt
  <2>2. i \in Nat \ {0} /\ L + 1 \in Nat
    BY <1>2, <2>1, ComponentIs
  <2>3. Component(t, i, L + 1)
    BY <1>2, <2>1, <2>2, ComponentOther
  <2>4. p[n] \in Seq(A)
    BY <1>1, <2>1
  <2>5. Bears(t, i, L + 1, q[n])
    <3> DEFINE w == p[n]
    <3>1. w \in Seq(A) /\ q[n] = w \o <<c>> /\ Bears(s, i, Len(s), w)
      BY <1>1, <2>1, <2>4
    <3> HIDE DEF w
    <3>2. Bears(t, i, Len(t), w \o <<c>>)
      BY <2>2, <3>1, BearsUp
    <3> QED
      BY <1>2, <3>1, <3>2
  <2> HIDE DEF n, L
  <2> QED
    BY <1>1, <1>2, <2>1, <2>3, <2>5 DEF PartAt
<1> HIDE DEF n, L
<1>5. ASSUME NEW k \in 1 .. Len(q) PROVE \E i, j \in Nat : PartAt(t, q, k, i, j)
  <2>1. PICK i \in Nat, j \in Nat : PartAt(s, p, k, i, j)
    BY <1>1 DEF InComponents, n
  <2>2. CASE k = n
    <3>1. j = L
      BY <2>1, <2>2 DEF PartAt, n, L
    <3>2. L + 1 \in Nat
      BY <1>2
    <3> QED
      BY <1>4, <2>1, <2>2, <3>1, <3>2
  <2>3. CASE k # n
    BY <1>3, <2>1, <2>3
  <2> QED
    BY <2>2, <2>3
<1>6. ASSUME NEW i \in Nat, NEW j \in Nat, Component(t, i, j) PROVE \E k \in Nat : PartAt(t, q, k, i, j)
  <2>1. (Component(s, i, j) /\ j # L) \/ (Component(s, i, L) /\ j = L + 1)
    <3>1. \/ Component(s, i, j) /\ j # Len(s)
          \/ Component(s, i, Len(s)) /\ j = Len(t)
      BY ONLY <1>6, i \in Nat, j \in Nat, c # ".", More(s, t, c), ComponentOther
    <3> QED
      BY <1>2, <3>1 DEF L
  <2>2. CASE Component(s, i, j) /\ j # L
    <3>1. PICK k \in Nat : PartAt(s, p, k, i, j)
      BY <2>2 DEF InComponents
    <3>2. k # n
      BY <2>2, <3>1 DEF PartAt, n, L
    <3> QED
      BY <1>3, <3>1, <3>2
  <2>3. CASE Component(s, i, L) /\ j = L + 1
    <3>1. PICK k \in Nat : PartAt(s, p, k, i, L)
      BY <1>2, <2>3 DEF InComponents
    <3>2. k = n
      BY <3>1 DEF PartAt, n, L
    <3> QED
      BY <1>4, <2>3, <3>1, <3>2
  <2> QED
    BY <2>1, <2>2, <2>3
<1> QED
  BY <1>5, <1>6 DEF InComponents

\* The parts between the dots are the components.
LEMMA PartsAreComponents ==
    ASSUME NEW A, NEW g, g \in Seq(A)
    PROVE  InComponents(g, Split(g, {"."})) /\ Parting(A, Split(g, {"."}))
<1> DEFINE D == {"."}
           P == {s \in Seq(A) : InComponents(s, Split(s, D))}
<1>1. \A s \in Seq(A) : Parting(A, Split(s, D))
  BY SplitIs DEF Parting
<1>2. InComponents(<<>>, <<<<>>>>)
  <2>1. Len(<<>>) = 0 /\ Len(<<<<>>>>) = 1 /\ <<<<>>>>[1] = <<>>
    BY FirstEnded
  <2>2. \A i, j \in Nat : Component(<<>>, i, j) <=> i = 1 /\ j = 0
    BY <2>1 DEF Component
  <2>3. Bears(<<>>, 1, 0, <<>>)
    BY <2>1 DEF Bears
  <2>4. PartAt(<<>>, <<<<>>>>, 1, 1, 0)
    BY <2>1, <2>2, <2>3 DEF PartAt
  <2>5. \A k \in 1 .. Len(<<<<>>>>) : k = 1
    BY <2>1
  <2> QED
    BY <2>2, <2>4, <2>5 DEF InComponents
<1>3. <<>> \in P
  <2>1. Split(<<>>, D) = <<<<>>>> /\ <<>> \in Seq(A)
    BY SplitIs, EmptyBefore
  <2> QED
    BY <1>2, <2>1
<1>4. ASSUME NEW s \in Seq(A), NEW c \in A, s \in P PROVE s \o <<c>> \in P
  <2> DEFINE t == s \o <<c>>
             p == Split(s, D)
             q == Split(t, D)
  <2>1. q = Longer(p, c, D) /\ t \in Seq(A)
    BY SplitStep
  <2>2. More(s, t, c)
    BY DEF More
  <2>3. Parting(A, p) /\ Parting(A, q)
    BY <1>1, <2>1
  <2>4. InComponents(s, p)
    BY <1>4
  <2> HIDE DEF t, P, p, q
  <2>5. IsLonger(p, q, c, D)
    BY <2>1, <2>3, LongerThere DEF Parting
  <2>6. CASE c = "."
    <3>1. /\ Len(q) = Len(p) + 1 /\ q[Len(p)] = p[Len(p)] /\ q[Len(p) + 1] = <<>>
          /\ \A k \in 1 .. Len(p) - 1 : q[k] = p[k]
      BY <2>5, <2>6 DEF IsLonger
    <3>2. \A k \in 1 .. Len(p) : k = Len(p) \/ k \in 1 .. Len(p) - 1
      <4>1. Len(p) \in Nat
        BY <2>3, PartingIs
      <4> QED
        BY ONLY <4>1
    <3>3. \A k \in 1 .. Len(p) : q[k] = p[k]
      BY <3>1, <3>2
    <3>4. InComponents(t, q)
      BY <2>2, <2>3, <2>4, <2>6, <3>1, <3>3, DotMore
    <3> QED
      BY <2>1, <3>4 DEF P, q, t
  <2>7. CASE c # "."
    <3>1. /\ Len(q) = Len(p) /\ q[Len(p)] = p[Len(p)] \o <<c>>
          /\ \A k \in 1 .. Len(p) - 1 : q[k] = p[k]
      BY <2>5, <2>7 DEF IsLonger
    <3>2. InComponents(t, q)
      BY <2>2, <2>3, <2>4, <2>7, <3>1, OtherCharMore
    <3> QED
      BY <2>1, <3>2 DEF P, q, t
  <2> QED
    BY <2>6, <2>7 DEF t
<1> HIDE DEF P
<1>5. Seq(A) \subseteq P
  BY <1>3, <1>4, CatInduct
<1> QED
  BY <1>1, <1>5 DEF P

\* What begins somewhere ends somewhere.
LEMMA ComponentFrom ==
    ASSUME NEW A, NEW g, g \in Seq(A), NEW i, i \in 1 .. Len(g) + 1, i = 1 \/ g[i - 1] = "."
    PROVE  \E j \in Nat : Component(g, i, j)
<1> DEFINE L == Len(g)
           S == {d \in Nat : i - 1 + d <= L => \A m \in i .. i - 1 + d : g[m] # "."}
<1>1. L \in Nat /\ i \in 1 .. L + 1
  OBVIOUS
<1>2. SUFFICES ASSUME \A j \in Nat : ~Component(g, i, j) PROVE FALSE
  OBVIOUS
<1> HIDE DEF L
<1>3. 0 \in S
  BY <1>1
<1>4. ASSUME NEW d \in Nat, d \in S PROVE d + 1 \in S
  <2>1. SUFFICES ASSUME i - 1 + (d + 1) <= L PROVE \A m \in i .. i - 1 + (d + 1) : g[m] # "."
    OBVIOUS
  <2>2. \A m \in i .. i - 1 + d : g[m] # "."
    BY <1>1, <1>4, <2>1
  <2>3. g[i + d] # "."
    <3>1. SUFFICES ASSUME g[i + d] = "." PROVE FALSE
      OBVIOUS
    <3> DEFINE j == i - 1 + d
    <3>2. j \in Nat /\ j \in i - 1 .. L /\ j + 1 = i + d
      BY <1>1, <2>1
    <3>3. Component(g, i, j)
      BY <1>1, <2>2, <3>1, <3>2 DEF Component, L
    <3> QED
      BY <1>2, <3>2, <3>3
  <2>4. \A m \in i .. i - 1 + (d + 1) : m = i + d \/ m \in i .. i - 1 + d
    BY <1>1
  <2> QED
    BY <2>2, <2>3, <2>4
<1>5. Nat \subseteq S
  <2> HIDE DEF S
  <2> QED
    BY <1>3, <1>4, Induct
<1>6. L - i + 1 \in Nat /\ i - 1 + (L - i + 1) = L /\ L \in i - 1 .. L
  BY <1>1
<1>7. \A m \in i .. L : g[m] # "."
  <2>1. PICK e \in Nat : e = L - i + 1
    BY <1>6
  <2>2. e \in S
    BY <1>5
  <2>3. i - 1 + e = L
    BY <1>6, <2>1
  <2>4. L <= L
    BY <1>1
  <2> QED
    BY <2>2, <2>3, <2>4
<1>8. Component(g, i, L)
  BY <1>1, <1>6, <1>7 DEF Component, L
<1> QED
  BY <1>1, <1>2, <1>8

\* What is no dot stands in a component.
LEMMA ComponentOver ==
    ASSUME NEW A, NEW g, g \in Seq(A), NEW x, x \in 1 .. Len(g), g[x] # "."
    PROVE  \E i, j \in Nat : Component(g, i, j) /\ i <= x /\ x <= j
<1> DEFINE L == Len(g)
           S == {m \in Nat : m \in 1 .. L /\ g[m] # "." =>
                    \E i, j \in Nat : Component(g, i, j) /\ i <= m /\ m <= j}
<1>1. L \in Nat
  OBVIOUS
<1>2. 0 \in S
  BY <1>1
<1>3. ASSUME NEW m \in Nat, m \in S PROVE m + 1 \in S
  <2>1. SUFFICES ASSUME m + 1 \in 1 .. L, g[m + 1] # "."
                 PROVE  \E i, j \in Nat : Component(g, i, j) /\ i <= m + 1 /\ m + 1 <= j
    OBVIOUS
  <2>2. CASE m = 0 \/ g[m] = "."
    <3> DEFINE b == m + 1
    <3>1. b \in 1 .. L + 1 /\ b \in Nat /\ (b = 1 \/ g[b - 1] = ".")
      BY <1>1, <2>1, <2>2
    <3> HIDE DEF b
    <3>2. PICK j \in Nat : Component(g, b, j)
      BY <3>1, ComponentFrom
    <3>3. j \in b - 1 .. L /\ (j = L \/ g[j + 1] = ".")
      BY <3>2 DEF Component
    <3>4. b <= j
      BY <1>1, <2>1, <3>1, <3>3 DEF b
    <3> QED
      BY <3>1, <3>2, <3>4 DEF b
  <2>3. CASE m # 0 /\ g[m] # "."
    <3>1. m \in 1 .. L
      BY <1>1, <2>1, <2>3
    <3>2. PICK i \in Nat, j \in Nat : Component(g, i, j) /\ i <= m /\ m <= j
      BY <1>3, <2>3, <3>1
    <3>3. j \in i - 1 .. L /\ (j = L \/ g[j + 1] = ".")
      BY <3>2 DEF Component
    <3>4. m # j
      BY <1>1, <2>1, <3>3
    <3>5. i <= m + 1 /\ m + 1 <= j
      BY <3>2, <3>4
    <3> QED
      BY <3>2, <3>5
  <2> QED
    BY <2>2, <2>3
<1>4. Nat \subseteq S
  <2> HIDE DEF S
  <2> QED
    BY <1>2, <1>3, Induct
<1>5. x \in Nat
  BY <1>1
<1> QED
  BY <1>4, <1>5

LEMMA BearsSub ==
    ASSUME NEW A, NEW g, g \in Seq(A), NEW i, NEW j, Component(g, i, j), NEW q, q \in Seq(A), Bears(g, i, j, q)
    PROVE  q = SubSeq(g, i, j)
<1> DEFINE u == SubSeq(g, i, j)
           L == Len(g)
<1>1. L \in Nat /\ i \in 1 .. L + 1 /\ j \in i - 1 .. L
  BY DEF Component
<1>2. Len(q) = j - i + 1 /\ \A m \in i .. j : q[m - i + 1] = g[m]
  BY DEF Bears
<1>3. u \in Seq(A) /\ Len(u) = j - i + 1 /\ \A x \in 1 .. j - i + 1 : u[x] = g[i + x - 1]
  BY <1>1
<1> HIDE DEF u, L
<1>4. \A x \in 1 .. j - i + 1 : q[x] = u[x]
  <2>1. TAKE x \in 1 .. j - i + 1
  <2>2. i + x - 1 \in i .. j /\ (i + x - 1) - i + 1 = x
    BY <1>1
  <2> QED
    BY <1>2, <1>3, <2>2
<1>5. q = u
  BY <1>2, <1>3, <1>4
<1> QED
  BY <1>5 DEF u

\* A part of a name is reserved when the name has a component that is.
LEMMA AnyIs ==
    ASSUME NEW A, NEW g, g \in Seq(A), NEW comp, comp \in Seq(A), NoneOf(comp, {"."}),
           NEW p, p = Split(g, {"."})
    PROVE  AnyCompEq(g, comp) <=> \E k \in 1 .. Len(p) : p[k] = comp
<1> DEFINE L == Len(g)
           n == Len(comp)
<1>1. L \in Nat /\ n \in Nat
  OBVIOUS
<1>2. InComponents(g, p) /\ Parting(A, p) /\ \A k \in 1 .. Len(p) : p[k] \in Seq(A)
  BY PartsAreComponents, PartingIs
<1> HIDE DEF n, L
<1>3. ASSUME AnyCompEq(g, comp) PROVE \E k \in 1 .. Len(p) : p[k] = comp
  <2>1. PICK i \in 1 .. L - n + 1 : /\ SubSeq(g, i, i + n - 1) = comp
                                    /\ i = 1 \/ g[i - 1] = "."
                                    /\ i + n - 1 = L \/ g[i + n] = "."
    BY <1>3 DEF AnyCompEq, L, n
  <2> DEFINE j == i + n - 1
  <2>2. i \in Nat /\ j \in Nat /\ i \in 1 .. L + 1 /\ j \in i - 1 .. L /\ j + 1 = i + n
    BY <1>1, <2>1
  <2>3. \A m \in i .. j : g[m] # "."
    <3>1. TAKE m \in i .. j
    <3>2. m - i + 1 \in 1 .. n
      BY <1>1, <2>2
    <3>3. comp[m - i + 1] # "."
      BY <3>2 DEF NoneOf, n
    <3>4. comp[m - i + 1] = g[m]
      <4>1. \A x \in 1 .. j - i + 1 : SubSeq(g, i, j)[x] = g[i + x - 1]
        BY <2>2 DEF L
      <4>2. m - i + 1 \in 1 .. j - i + 1 /\ i + (m - i + 1) - 1 = m
        BY <2>2
      <4> QED
        BY <2>1, <4>1, <4>2
    <3> QED
      BY <3>3, <3>4
  <2>4. Component(g, i, j)
    BY <2>1, <2>2, <2>3 DEF Component, L
  <2> HIDE DEF j
  <2>5. PICK k \in Nat : PartAt(g, p, k, i, j)
    BY <1>2, <2>2, <2>4 DEF InComponents
  <2>6. k \in 1 .. Len(p) /\ Bears(g, i, j, p[k])
    BY <2>5 DEF PartAt
  <2>7. p[k] = SubSeq(g, i, j)
    BY <1>2, <2>4, <2>6, BearsSub
  <2> QED
    BY <2>1, <2>6, <2>7 DEF j
<1>4. ASSUME NEW k \in 1 .. Len(p), p[k] = comp PROVE AnyCompEq(g, comp)
  <2>1. PICK i \in Nat, j \in Nat : PartAt(g, p, k, i, j)
    BY <1>2 DEF InComponents
  <2>2. Component(g, i, j) /\ Bears(g, i, j, comp)
    BY <1>4, <2>1 DEF PartAt
  <2>3. comp = SubSeq(g, i, j)
    BY <2>2, BearsSub
  <2>4. n = j - i + 1
    BY <2>2 DEF Bears, n
  <2>5. /\ i \in 1 .. L + 1 /\ j \in i - 1 .. L
        /\ i = 1 \/ g[i - 1] = "."
        /\ j = L \/ g[j + 1] = "."
    BY <2>2 DEF Component, L
  <2>6. i \in 1 .. L - n + 1 /\ i + n - 1 = j /\ i + n = j + 1
    BY <1>1, <2>4, <2>5
  <2>7. /\ i \in 1 .. L - n + 1
        /\ SubSeq(g, i, i + n - 1) = comp
        /\ i = 1 \/ g[i - 1] = "."
        /\ i + n - 1 = L \/ g[i + n] = "."
    BY <2>3, <2>5, <2>6
  <2> QED
    BY <2>7 DEF AnyCompEq, L, n
<1> QED
  BY <1>3, <1>4

\* A name begins with a component when its first part is that.
LEMMA FirstIs ==
    ASSUME NEW A, NEW g, g \in Seq(A), NEW comp, comp \in Seq(A), NoneOf(comp, {"."}),
           NEW p, p = Split(g, {"."})
    PROVE  FirstCompEq(g, comp) <=> p[1] = comp
<1> DEFINE L == Len(g)
           n == Len(comp)
<1>1. L \in Nat /\ n \in Nat
  OBVIOUS
<1>2. InComponents(g, p) /\ Parting(A, p) /\ Len(p) \in Nat \ {0} /\ \A k \in 1 .. Len(p) : p[k] \in Seq(A)
  BY PartsAreComponents, PartingIs
<1>3. 1 \in 1 .. Len(p)
  BY <1>2
<1> HIDE DEF n, L
<1>4. ASSUME FirstCompEq(g, comp) PROVE p[1] = comp
  <2>1. L >= n /\ SubSeq(g, 1, n) = comp /\ (L = n \/ g[n + 1] = ".")
    BY <1>4 DEF FirstCompEq, L, n
  <2>2. \A m \in 1 .. n : g[m] # "."
    <3>1. \A m \in 1 .. n : SubSeq(g, 1, n)[m] = g[m]
      BY <1>1, <2>1 DEF L
    <3>2. \A m \in 1 .. n : comp[m] # "."
      BY DEF NoneOf, n
    <3> QED
      BY <2>1, <3>1, <3>2
  <2>3. Component(g, 1, n)
    <3>1. 1 \in 1 .. L + 1 /\ n \in 1 - 1 .. L
      BY <1>1, <2>1
    <3> QED
      BY <2>1, <2>2, <3>1 DEF Component, L
  <2>4. PICK k \in Nat : PartAt(g, p, k, 1, n)
    BY <1>1, <1>2, <2>3 DEF InComponents
  <2>5. k = 1 /\ Bears(g, 1, n, p[1])
    BY <2>4 DEF PartAt
  <2>6. p[1] = SubSeq(g, 1, n)
    BY <1>2, <1>3, <2>3, <2>5, BearsSub
  <2> QED
    BY <2>1, <2>6
<1>5. ASSUME p[1] = comp PROVE FirstCompEq(g, comp)
  <2>1. PICK i \in Nat, j \in Nat : PartAt(g, p, 1, i, j)
    BY <1>2, <1>3 DEF InComponents
  <2>2. i = 1 /\ Component(g, 1, j) /\ Bears(g, 1, j, comp)
    BY <1>5, <2>1 DEF PartAt
  <2>3. comp = SubSeq(g, 1, j)
    BY <2>2, BearsSub
  <2>4. n = j
    BY <2>2 DEF Bears, n
  <2>5. j \in 1 - 1 .. L /\ (j = L \/ g[j + 1] = ".")
    BY <2>2 DEF Component, L
  <2>6. L >= n
    BY <1>1, <2>4, <2>5
  <2> QED
    BY <2>3, <2>4, <2>5, <2>6 DEF FirstCompEq, L, n
<1> QED
  BY <1>4, <1>5

Spelled(g) ==
    \A i \in DOMAIN g :
        IF g[i] = "." THEN ~(i = 1 \/ g[i - 1] = "." \/ i = Len(g)) ELSE g[i] \in NewsChars

Filled(p) ==
    \A k \in 1 .. Len(p) : p[k] # <<>> /\ \A x \in 1 .. Len(p[k]) : p[k][x] \in NewsChars

StandsIn(g, p, i, j) ==
    \E k \in 1 .. Len(p) : (k = 1 <=> i = 1) /\ \A m \in i .. j : p[k][m - i + 1] = g[m]

LEMMA FilledOver ==
    ASSUME NEW A, NEW g, g \in Seq(A), NEW p, p = Split(g, {"."}), Filled(p),
           NEW i, i \in Nat, NEW j, j \in Nat, Component(g, i, j)
    PROVE  /\ i <= j
           /\ StandsIn(g, p, i, j)
           /\ \A m \in i .. j : g[m] \in NewsChars
<1>1. InComponents(g, p) /\ Parting(A, p) /\ \A k \in 1 .. Len(p) : p[k] \in Seq(A)
  BY PartsAreComponents, PartingIs
<1>2. PICK k \in Nat : PartAt(g, p, k, i, j)
  BY <1>1 DEF InComponents
<1> DEFINE q == p[k]
<1>3. k \in 1 .. Len(p) /\ Bears(g, i, j, q) /\ (k = 1 <=> i = 1)
  BY <1>2 DEF PartAt
<1>4. q \in Seq(A) /\ q # <<>> /\ \A x \in 1 .. Len(q) : q[x] \in NewsChars
  BY <1>1, <1>3 DEF Filled
<1> HIDE DEF q
<1>5. Len(q) = j - i + 1 /\ \A m \in i .. j : q[m - i + 1] = g[m]
  BY <1>3 DEF Bears
<1>6. Len(q) \in Nat \ {0}
  BY <1>4
<1>7. i <= j
  BY <1>5, <1>6
<1>8. \A m \in i .. j : m - i + 1 \in 1 .. Len(q)
  BY <1>5
<1>9. \A m \in i .. j : g[m] \in NewsChars
  BY <1>4, <1>5, <1>8
<1> QED
  BY <1>3, <1>5, <1>7, <1>9 DEF q, StandsIn

LEMMA SpelledIs ==
    ASSUME NEW A, NEW g, g \in Seq(A), g # <<>>, NEW p, p = Split(g, {"."})
    PROVE  Spelled(g) <=> Filled(p)
<1> DEFINE L == Len(g)
<1>1. InComponents(g, p) /\ Parting(A, p) /\ \A k \in 1 .. Len(p) : p[k] \in Seq(A)
  BY PartsAreComponents, PartingIs
<1>2. L \in Nat \ {0} /\ DOMAIN g = 1 .. L
  OBVIOUS
<1> HIDE DEF L
<1>3. ASSUME Filled(p), NEW i \in 1 .. L PROVE IF g[i] = "." THEN ~(i = 1 \/ g[i - 1] = "." \/ i = L) ELSE g[i] \in NewsChars
  <2>1. \A b, e \in Nat : Component(g, b, e) => b <= e /\ \A m \in b .. e : g[m] \in NewsChars
    <3>1. TAKE b, e \in Nat
    <3> QED
      BY <1>3, FilledOver
  <2>2. CASE g[i] = "."
    <3>1. i # 1
      <4>1. SUFFICES ASSUME i = 1 PROVE FALSE
        OBVIOUS
      <4>2. Component(g, 1, 0)
        BY <1>2, <2>2, <4>1 DEF Component, L
      <4> QED
        BY <2>1, <4>2
    <3>2. g[i - 1] # "."
      <4>1. SUFFICES ASSUME g[i - 1] = "." PROVE FALSE
        OBVIOUS
      <4>2. Component(g, i, i - 1)
        <5>1. i \in 1 .. L + 1 /\ i - 1 \in i - 1 .. L /\ (i - 1) + 1 = i /\ \A m \in i .. i - 1 : FALSE
          BY <1>2
        <5> QED
          BY <2>2, <4>1, <5>1 DEF Component, L
      <4>3. i \in Nat /\ i - 1 \in Nat /\ ~(i <= i - 1)
        BY <1>2
      <4> QED
        BY <2>1, <4>2, <4>3
    <3>3. i # L
      <4>1. SUFFICES ASSUME i = L PROVE FALSE
        OBVIOUS
      <4>2. Component(g, L + 1, L)
        <5>1. L + 1 \in 1 .. L + 1 /\ L \in (L + 1) - 1 .. L /\ (L + 1) - 1 = L /\ \A m \in L + 1 .. L : FALSE
          BY <1>2
        <5> QED
          BY <2>2, <4>1, <5>1 DEF Component, L
      <4>3. L \in Nat /\ L + 1 \in Nat /\ ~(L + 1 <= L)
        BY <1>2
      <4> QED
        BY <2>1, <4>2, <4>3
    <3> QED
      BY <2>2, <3>1, <3>2, <3>3
  <2>3. CASE g[i] # "."
    <3>1. PICK b \in Nat, e \in Nat : Component(g, b, e) /\ b <= i /\ i <= e
      BY <2>3, ComponentOver DEF L
    <3>2. i \in b .. e
      BY <1>2, <3>1
    <3> QED
      BY <2>1, <2>3, <3>1, <3>2
  <2> QED
    BY <2>2, <2>3
<1>4. ASSUME Spelled(g), NEW k \in 1 .. Len(p) PROVE p[k] # <<>> /\ \A x \in 1 .. Len(p[k]) : p[k][x] \in NewsChars
  <2> DEFINE q == p[k]
  <2>1. PICK i \in Nat, j \in Nat : PartAt(g, p, k, i, j)
    BY <1>1 DEF InComponents
  <2>2. Component(g, i, j) /\ Len(q) = j - i + 1 /\ \A m \in i .. j : q[m - i + 1] = g[m]
    BY <2>1 DEF PartAt, Bears
  <2>3. q \in Seq(A)
    BY <1>1
  <2> HIDE DEF q
  <2>4. /\ i \in 1 .. L + 1 /\ j \in i - 1 .. L
        /\ i = 1 \/ g[i - 1] = "."
        /\ j = L \/ g[j + 1] = "."
        /\ \A m \in i .. j : g[m] # "."
    BY <2>2 DEF Component, L
  <2>5. \A m \in 1 .. L : IF g[m] = "." THEN ~(m = 1 \/ g[m - 1] = "." \/ m = L) ELSE g[m] \in NewsChars
    BY <1>2, <1>4 DEF Spelled, L
  <2>6. j # i - 1
    <3>1. SUFFICES ASSUME j = i - 1 PROVE FALSE
      OBVIOUS
    <3>2. CASE i = 1
      <4>1. j # L /\ g[1] = "." /\ 1 \in 1 .. L
        BY <1>2, <2>4, <3>1, <3>2
      <4> QED
        BY <2>5, <4>1
    <3>3. CASE i # 1
      <4>1. g[i - 1] = "." /\ i - 1 \in 1 .. L
        BY <1>2, <2>4, <3>3
      <4>2. i - 1 # L
        BY <2>5, <4>1
      <4>3. g[i] = "." /\ i \in 1 .. L
        BY <1>2, <2>4, <3>1, <4>2
      <4> QED
        BY <2>5, <4>1, <4>3
    <3> QED
      BY <3>2, <3>3
  <2>7. q # <<>>
    <3>1. Len(q) # 0
      BY <2>2, <2>4, <2>6
    <3>2. Len(<<>>) = 0
      OBVIOUS
    <3> QED
      BY <3>1, <3>2
  <2>8. ASSUME NEW x \in 1 .. Len(q) PROVE q[x] \in NewsChars
    <3> DEFINE m == i + x - 1
    <3>1. m \in i .. j /\ m - i + 1 = x /\ m \in 1 .. L
      BY <1>2, <2>2, <2>4
    <3> QED
      BY <2>2, <2>4, <2>5, <3>1
  <2> QED
    BY <2>7, <2>8 DEF q
<1>5. Filled(p) => Spelled(g)
  BY <1>2, <1>3 DEF Spelled, L
<1>6. Spelled(g) => Filled(p)
  BY <1>4 DEF Filled
<1> QED
  BY <1>5, <1>6

LEMMA UnderIs ==
    ASSUME NEW A, NEW g, g \in Seq(A), NEW p, p = Split(g, {"."}), Filled(p)
    PROVE  DotUnder(g) <=> \E k \in 1 .. Len(p) : k > 1 /\ p[k][1] = "_"
<1> DEFINE L == Len(g)
<1>1. L \in Nat
  OBVIOUS
<1>2. InComponents(g, p)
  BY PartsAreComponents
<1> HIDE DEF L
<1>3. ASSUME DotUnder(g) PROVE \E k \in 1 .. Len(p) : k > 1 /\ p[k][1] = "_"
  <2>1. PICK m \in 1 .. L - 1 : g[m] = "." /\ g[m + 1] = "_"
    BY <1>3 DEF DotUnder, L
  <2> DEFINE i == m + 1
  <2>2. i \in Nat /\ i \in 1 .. L + 1 /\ g[i - 1] = "." /\ g[i] = "_" /\ i # 1
    <3>1. m \in 1 .. L - 1
      OBVIOUS
    <3>2. i \in Nat /\ i \in 1 .. L + 1 /\ i - 1 = m /\ i # 1
      BY ONLY <1>1, <3>1
    <3> QED
      BY <2>1, <3>2
  <2> HIDE DEF i
  <2>3. PICK j \in Nat : Component(g, i, j)
    BY <2>2, ComponentFrom DEF L
  <2>4. i <= j /\ StandsIn(g, p, i, j)
    BY <2>2, <2>3, FilledOver
  <2>5. PICK k \in 1 .. Len(p) : (k = 1 <=> i = 1) /\ \A x \in i .. j : p[k][x - i + 1] = g[x]
    BY <2>4 DEF StandsIn
  <2>6. i \in i .. j /\ i - i + 1 = 1
    <3>1. i \in Nat /\ j \in Nat /\ i <= j
      BY <2>2, <2>4
    <3> QED
      BY ONLY <3>1
  <2>7. p[k][1] = "_"
    BY <2>2, <2>5, <2>6
  <2>8. k > 1
    <3>1. k # 1 /\ k \in 1 .. Len(p)
      BY <2>2, <2>5
    <3>2. Len(p) \in Nat
      BY PartsAreComponents, PartingIs
    <3> QED
      BY ONLY <3>1, <3>2
  <2> QED
    BY <2>7, <2>8
<1>4. ASSUME NEW k \in 1 .. Len(p), k > 1, p[k][1] = "_" PROVE DotUnder(g)
  <2>1. PICK i \in Nat, j \in Nat : PartAt(g, p, k, i, j)
    BY <1>2 DEF InComponents
  <2>2. Component(g, i, j) /\ i # 1 /\ \A m \in i .. j : p[k][m - i + 1] = g[m]
    <3>1. k # 1
      <4>1. Len(p) \in Nat
        BY PartsAreComponents, PartingIs
      <4>2. k \in 1 .. Len(p) /\ k > 1
        BY <1>4
      <4> QED
        BY ONLY <4>1, <4>2
    <3> QED
      BY <2>1, <3>1 DEF PartAt, Bears
  <2>3. i <= j
    BY <2>2, FilledOver
  <2>4. i \in 1 .. L + 1 /\ j \in i - 1 .. L /\ g[i - 1] = "."
    BY <2>2 DEF Component, L
  <2>5. i - 1 \in 1 .. L - 1 /\ (i - 1) + 1 = i /\ i \in i .. j /\ i - i + 1 = 1
    <3>1. i \in Nat /\ j \in Nat /\ i # 1
      BY <2>2
    <3>2. L \in Nat
      BY <1>1
    <3> QED
      BY ONLY <2>3, <2>4, <3>1, <3>2
  <2>6. g[i] = "_"
    BY <1>4, <2>2, <2>5
  <2> QED
    BY <2>4, <2>5, <2>6 DEF DotUnder, L
<1> QED
  BY <1>3, <1>4

\* The names reserved as components have no dot.
ReservedNames(A) ==
    /\ AnyReserved \in Seq(A) /\ NoneOf(AnyReserved, {"."})
    /\ \A comp \in FirstReserved : comp \in Seq(A) /\ NoneOf(comp, {"."})

\* The names that validNetNewsGroup and the blocker let pass are the proper ones.
LEMMA ProperIs ==
    ASSUME NEW A, ReservedNames(A), NEW g, g \in Seq(A), g # <<>>
    PROVE  ValidNetNewsGroup(g) /\ ~DotUnder(g) <=> Proper(g)
<1> DEFINE p == Split(g, {"."})
           NoReserved == /\ \A comp \in FirstReserved : ~FirstCompEq(g, comp)
                         /\ g # WholeReserved
                         /\ ~AnyCompEq(g, AnyReserved)
<1>1. ValidNetNewsGroup(g) <=> Spelled(g) /\ NoReserved
  BY DEF ValidNetNewsGroup, Spelled
<1>2. p \in Seq(Seq(A)) /\ p # <<>> /\ Len(p) \in Nat /\ DOMAIN p = 1 .. Len(p) /\ \A k \in 1 .. Len(p) : p[k] \in Seq(A)
  BY PartsAreComponents, PartingIs DEF Parting
<1>3. Spelled(g) <=> Filled(p)
  BY SpelledIs
<1>4. \A comp \in FirstReserved : FirstCompEq(g, comp) <=> p[1] = comp
  <2>1. TAKE comp \in FirstReserved
  <2>2. comp \in Seq(A) /\ NoneOf(comp, {"."})
    BY DEF ReservedNames
  <2> QED
    BY <2>2, FirstIs
<1>5. AnyCompEq(g, AnyReserved) <=> \E k \in 1 .. Len(p) : p[k] = AnyReserved
  BY AnyIs DEF ReservedNames
<1>6. Filled(p) => (DotUnder(g) <=> \E k \in 1 .. Len(p) : k > 1 /\ p[k][1] = "_")
  BY UnderIs
<1> HIDE DEF p
<1>7. NoReserved <=> /\ p[1] \notin FirstReserved /\ g # WholeReserved
                     /\ \A k \in 1 .. Len(p) : p[k] # AnyReserved
  BY <1>4, <1>5
<1>8. Filled(p) <=> \A k \in 1 .. Len(p) : p[k] # <<>> /\ Range(p[k]) \subseteq NewsChars
  <2>1. \A k \in 1 .. Len(p) : (Range(p[k]) \subseteq NewsChars <=> \A x \in 1 .. Len(p[k]) : p[k][x] \in NewsChars)
    <3>1. TAKE k \in 1 .. Len(p)
    <3> DEFINE q == p[k]
    <3>2. q \in Seq(A)
      BY <1>2
    <3> HIDE DEF q
    <3>3. DOMAIN q = 1 .. Len(q)
      BY <3>2
    <3>4. Range(q) \subseteq NewsChars <=> \A x \in 1 .. Len(q) : q[x] \in NewsChars
      BY <3>3 DEF Range
    <3> QED
      BY <3>4 DEF q
  <2> QED
    BY <2>1 DEF Filled
<1>9. Proper(g) <=> /\ \A k \in 1 .. Len(p) : /\ p[k] # <<>> /\ Range(p[k]) \subseteq NewsChars
                                              /\ p[k] # AnyReserved
                                              /\ k > 1 => p[k][1] # "_"
                    /\ p[1] \notin FirstReserved
                    /\ g # WholeReserved
  BY <1>2 DEF Proper, PartsAt, p
<1> HIDE DEF NoReserved
<1> QED
  BY <1>1, <1>3, <1>6, <1>7, <1>8, <1>9

LEMMA NoneEmpty == \A D : NoneOf(<<>>, D)
<1>1. Len(<<>>) = 0
  BY EmptyBefore
<1> QED
  BY <1>1 DEF NoneOf

LEMMA NoneUp ==
    ASSUME NEW A, NEW l, l \in Seq(A), NEW c, c \in A, NEW u, u = l \o <<c>>, NEW D, c \notin D, NoneOf(l, D)
    PROVE  NoneOf(u, D)
<1> DEFINE n == Len(l)
<1>1. n \in Nat /\ Len(u) = n + 1 /\ u[n + 1] = c /\ \A k \in 1 .. n : u[k] = l[k]
  OBVIOUS
<1>2. \A k \in 1 .. n : l[k] \notin D
  BY DEF NoneOf
<1> HIDE DEF n
<1>3. \A k \in 1 .. n + 1 : k = n + 1 \/ k \in 1 .. n
  BY ONLY <1>1
<1> QED
  BY <1>1, <1>2, <1>3 DEF NoneOf

\* The parts between commas have none.
LEMMA PartsCommaFree ==
    ASSUME NEW A, NEW x, x \in Seq(A)
    PROVE  CommaFree(PartsOf(x))
<1> DEFINE D == {","}
           P == {s \in Seq(A) : CommaFree(PartsOf(s))}
<1>1. <<>> \in P
  <2>1. PartsOf(<<>>) = <<<<>>>> /\ <<>> \in Seq(A)
    BY SplitIs, EmptyBefore DEF PartsOf
  <2>2. Len(<<<<>>>>) = 1 /\ <<<<>>>>[1] = <<>> /\ Len(<<>>) = 0
    BY FirstEnded
  <2> QED
    <3>1. \A k \in 1 .. Len(<<<<>>>>) : NoneOf(<<<<>>>>[k], D)
      <4>1. \A k \in 1 .. 1 : k = 1
        OBVIOUS
      <4> QED
        BY <2>2, <4>1, NoneEmpty
    <3>2. CommaFree(<<<<>>>>)
      BY <3>1 DEF CommaFree
    <3> QED
      BY <2>1, <3>2
<1>2. ASSUME NEW s \in Seq(A), NEW c \in A, s \in P PROVE s \o <<c>> \in P
  <2> DEFINE t == s \o <<c>>
             p == PartsOf(s)
             q == PartsOf(t)
             n == Len(p)
  <2>1. q = Longer(p, c, D) /\ t \in Seq(A)
    BY SplitStep DEF PartsOf
  <2>2. Parting(A, p) /\ Parting(A, q)
    BY <2>1, PartsThere
  <2>3. CommaFree(p)
    BY <1>2
  <2> HIDE DEF t, P, p, q
  <2>4. IsLonger(p, q, c, D)
    BY <2>1, <2>2, LongerThere DEF Parting
  <2>5. n \in Nat \ {0} /\ \A k \in 1 .. n : p[k] \in Seq(A)
    BY <2>2, PartingIs
  <2>6. \A k \in 1 .. n : NoneOf(p[k], D)
    BY <2>3 DEF CommaFree
  <2>7. \A k \in 1 .. n - 1 : q[k] = p[k]
    BY <2>4 DEF IsLonger
  <2>8. CASE c = ","
    <3>1. Len(q) = n + 1 /\ q[n] = p[n] /\ q[n + 1] = <<>>
      BY <2>4, <2>8 DEF IsLonger
    <3>2. NoneOf(<<>>, D)
      BY NoneEmpty
    <3> HIDE DEF n, D
    <3>3. \A k \in 1 .. n + 1 : k = n + 1 \/ k = n \/ k \in 1 .. n - 1
      BY ONLY <2>5
    <3>4. \A k \in 1 .. n - 1 : k \in 1 .. n
      BY ONLY <2>5
    <3>5. n \in 1 .. n
      BY ONLY <2>5
    <3>6. \A k \in 1 .. Len(q) : NoneOf(q[k], D)
      BY <2>6, <2>7, <3>1, <3>2, <3>3, <3>4, <3>5
    <3> QED
      BY <2>1, <3>6 DEF P, q, D, CommaFree, t
  <2>9. CASE c # ","
    <3> DEFINE l == p[n]
               u == l \o <<c>>
    <3>1. Len(q) = n /\ q[n] = u
      BY <2>4, <2>9 DEF IsLonger
    <3>2. l \in Seq(A) /\ NoneOf(l, D)
      <4>1. n \in 1 .. n
        <5> HIDE DEF n
        <5> QED
          BY ONLY <2>5
      <4> QED
        BY <2>5, <2>6, <4>1
    <3> HIDE DEF l
    <3>4. NoneOf(u, D)
      <4>1. c \notin D
        BY <2>9
      <4> HIDE DEF D
      <4> QED
        BY <3>2, <4>1, NoneUp
    <3> HIDE DEF n, D, u
    <3>5. \A k \in 1 .. n : k = n \/ k \in 1 .. n - 1
      BY ONLY <2>5
    <3>6. \A k \in 1 .. Len(q) : NoneOf(q[k], D)
      BY <2>6, <2>7, <3>1, <3>4, <3>5
    <3> QED
      BY <2>1, <3>6 DEF P, q, D, CommaFree, t
  <2> QED
    BY <2>8, <2>9 DEF t
<1> HIDE DEF P
<1>3. Seq(A) \subseteq P
  BY <1>1, <1>2, CatInduct
<1> QED
  BY <1>3 DEF P

\* The characters that a policy puts in.
PolicyChars(A) ==
    /\ "," \in A /\ "!" \in A /\ "*" \in A /\ "." \in A /\ "_" \in A
    /\ {".", "_"} \subseteq NameChars
    /\ Ctl \in Seq(A) /\ Ctl # <<>> /\ \A k \in 1 .. Len(Ctl) : Ctl[k] \in NameChars \ Wild

LEMMA CtlIs ==
    ASSUME PlainChars, NEW A, PolicyChars(A), NEW g, g \in Seq(A)
    PROVE  ~Negated(Ctl) /\ Good(Ctl) /\ NoneOf(Ctl, {","}) /\ (Hit(Ctl, g) <=> g = Ctl)
<1>1. Ctl \in Seq(A) /\ Ctl # <<>> /\ \A k \in 1 .. Len(Ctl) : Ctl[k] \in NameChars /\ Ctl[k] \notin Wild
  BY DEF PolicyChars
<1>2. 1 \in 1 .. Len(Ctl) /\ DOMAIN Ctl = 1 .. Len(Ctl)
  BY <1>1
<1>3. \A k \in 1 .. Len(Ctl) : Ctl[k] # "," /\ Ctl[k] # "!"
  BY <1>1 DEF PlainChars
<1>4. ~Negated(Ctl)
  BY <1>2, <1>3 DEF Negated
<1>5. Pattern(Ctl) = Ctl
  BY <1>4 DEF Pattern
<1>6. Good(Ctl)
  BY <1>1, <1>2, <1>5 DEF Good, Range, InPatterns
<1>7. NoneOf(Ctl, {","}) /\ NoneOf(Ctl, Wild)
  BY <1>1, <1>3 DEF NoneOf
<1>8. Hit(Ctl, g) <=> g = Ctl
  BY <1>1, <1>5, <1>7, PlainMatches DEF Hit
<1> QED
  BY <1>4, <1>6, <1>7, <1>8

LEMMA FourOnly == ASSUME NEW B, NEW u, u \in Seq(B), Len(u) = 4 PROVE u = <<u[1], u[2], u[3], u[4]>>
OBVIOUS

LEMMA BlockerIn ==
    ASSUME NEW A, NEW a, NEW b, NEW c, NEW d, a \in A, b \in A, c \in A, d \in A
    PROVE  <<a, b, c, d, b>> \in Seq(A)
OBVIOUS

LEMMA BlockerIs ==
    ASSUME NEW A, PolicyChars(A), NEW g, g \in Seq(A)
    PROVE  Blocker \in Seq(A) /\ Negated(Blocker) /\ Good(Blocker) /\ NoneOf(Blocker, {","})
           /\ (Hit(Blocker, g) <=> DotUnder(g))
<1>1. Blocker \in Seq(A)
  <2>1. PICK a : a = "!" /\ a \in A
    BY DEF PolicyChars
  <2>2. PICK b : b = "*" /\ b \in A
    BY DEF PolicyChars
  <2>3. PICK c : c = "." /\ c \in A
    BY DEF PolicyChars
  <2>4. PICK d : d = "_" /\ d \in A
    BY DEF PolicyChars
  <2>5. <<a, b, c, d, b>> \in Seq(A)
    BY <2>1, <2>2, <2>3, <2>4, BlockerIn
  <2> QED
    BY <2>1, <2>2, <2>3, <2>4, <2>5 DEF Blocker
<1>2. Negated(Blocker)
  BY DEF Negated, Blocker
<1> DEFINE w == <<"*", ".", "_", "*">>
<1>4. Pattern(Blocker) = w
  <2> DEFINE u == Pattern(Blocker)
  <2>1. Skip(Blocker) = 1
    BY <1>2 DEF Skip
  <2>2. Len(Blocker) = 5 /\ Blocker[2] = "*" /\ Blocker[3] = "." /\ Blocker[4] = "_" /\ Blocker[5] = "*"
    BY DEF Blocker
  <2>3. u \in Seq(A) /\ Len(u) = Len(Blocker) - 1 /\ \A i \in 1 .. Len(Blocker) - 1 : u[i] = Blocker[i + 1]
    BY <1>1, <2>1, PatternIs
  <2> HIDE DEF u
  <2>4. 5 - 1 = 4 /\ 1 + 1 = 2 /\ 2 + 1 = 3 /\ 3 + 1 = 4 /\ 4 + 1 = 5
        /\ 1 \in 1 .. 4 /\ 2 \in 1 .. 4 /\ 3 \in 1 .. 4 /\ 4 \in 1 .. 4
    OBVIOUS
  <2>5. Len(u) = 4 /\ u[1] = "*" /\ u[2] = "." /\ u[3] = "_" /\ u[4] = "*"
    BY <2>2, <2>3, <2>4
  <2>6. u = <<u[1], u[2], u[3], u[4]>>
    BY <2>3, <2>5, FourOnly
  <2> QED
    BY <2>5, <2>6 DEF u
<1>5. w # <<>> /\ Range(w) \subseteq InPatterns
  <2>1. DOMAIN w = 1 .. 4 /\ w[1] = "*" /\ w[2] = "." /\ w[3] = "_" /\ w[4] = "*" /\ w # <<>>
    OBVIOUS
  <2>2. "*" \in InPatterns /\ "." \in InPatterns /\ "_" \in InPatterns
    BY DEF PolicyChars, InPatterns, Wild
  <2>3. \A k \in 1 .. 4 : k = 1 \/ k = 2 \/ k = 3 \/ k = 4
    OBVIOUS
  <2> HIDE DEF w
  <2>4. \A k \in 1 .. 4 : w[k] \in InPatterns
    BY <2>1, <2>2, <2>3
  <2> QED
    BY <2>1, <2>4 DEF Range
<1>6. Good(Blocker)
  BY <1>4, <1>5 DEF Good
<1>7. NoneOf(Blocker, {","})
  <2>1. Len(Blocker) = 5 /\ \A k \in 1 .. 5 : Blocker[k] # ","
    BY DEF Blocker
  <2> QED
    BY <2>1 DEF NoneOf
<1>8. Hit(Blocker, g) <=> DotUnder(g)
  BY <1>4, BlockerMatches DEF Hit
<1> QED
  BY <1>1, <1>2, <1>6, <1>7, <1>8

\* The parts of a policy's text.
Star == <<"*">>

KeptParts(s) == OtherThan(Ctl, PartsOf(s))

WithCtl(s) == IF KeptParts(s) = <<Star>> THEN KeptParts(s) ELSE Append(KeptParts(s), Ctl)

PolicyParts(s) == Append(WithCtl(s), Blocker)

LEMMA StarIs ==
    ASSUME NEW A, NEW g, g \in Seq(A)
    PROVE  LastSays(<<Star>>, g)
<1>1. ~Negated(Star) /\ Pattern(Star) = Star
  BY DEF Star, Negated, Pattern
<1>2. Hit(Star, g)
  BY <1>1, StarMatches DEF Star, Hit
<1>3. Len(<<Star>>) = 1 /\ <<Star>>[1] = Star
  BY FirstEnded
<1>4. \A j \in 1 + 1 .. 1 : FALSE
  OBVIOUS
<1> QED
  BY <1>1, <1>2, <1>3, <1>4 DEF LastSays

LEMMA WithCtlIs ==
    ASSUME PlainChars, NEW A, PolicyChars(A), NEW s, s \in Seq(A), NEW g, g \in Seq(A)
    PROVE  /\ WithCtl(s) \in Seq(Seq(A)) /\ CommaFree(WithCtl(s))
           /\ AllGood(PartsOf(s)) => AllGood(WithCtl(s))
           /\ LastSays(WithCtl(s), g) <=> g = Ctl \/ LastSays(PartsOf(s), g)
<1> DEFINE B == Seq(A)
           p == PartsOf(s)
           k == KeptParts(s)
           w == WithCtl(s)
<1>1. p \in Seq(B) /\ CommaFree(p)
  BY PartsTyped, PartsCommaFree
<1>2. ~Negated(Ctl) /\ Good(Ctl) /\ NoneOf(Ctl, {","}) /\ (Hit(Ctl, g) <=> g = Ctl) /\ Ctl \in B
  BY CtlIs DEF PolicyChars
<1> HIDE DEF p, B
<1>3. k = OtherThan(Ctl, p)
  BY DEF KeptParts, p
<1>4. /\ ~Hit(Ctl, g) => (LastSays(k, g) <=> LastSays(p, g))
      /\ AllGood(p) => AllGood(k)
      /\ CommaFree(k)
  BY <1>1, <1>3, KeptIs DEF KeptRight
<1>5. k \in Seq(B)
  <2>1. PICK e : IsAppend(e, p, Ctl)
    BY DEF IsAppend
  <2>2. OtherThan(Ctl, p) \in Seq(B)
    BY ONLY <1>1, <1>2, <2>1, OtherMore
  <2> QED
    BY <1>3, <2>2
<1>6. LastSays(<<Star>>, g)
  BY StarIs
<1>7. w = IF k = <<Star>> THEN k ELSE Append(k, Ctl)
  BY DEF WithCtl
<1> HIDE DEF k, w
<1>8. CASE k = <<Star>>
  BY <1>2, <1>4, <1>5, <1>6, <1>7, <1>8 DEF w, p, B
<1>9. CASE k # <<Star>>
  <2>1. IsAppend(w, k, Ctl) /\ w \in Seq(B)
    BY <1>2, <1>5, <1>7, <1>9, AppendGives DEF IsAppend
  <2>2. /\ LastSays(w, g) <=> IF Hit(Ctl, g) THEN ~Negated(Ctl) ELSE LastSays(k, g)
        /\ AllGood(w) <=> AllGood(k) /\ Good(Ctl)
        /\ CommaFree(w) <=> CommaFree(k) /\ NoneOf(Ctl, {","})
    BY <1>2, <1>5, <2>1, LastUp
  <2> QED
    BY <1>2, <1>4, <2>1, <2>2 DEF w, p, B
<1> QED
  BY <1>8, <1>9

LEMMA PolicyTextIs ==
    ASSUME NEW s
    PROVE  PolicyText(s) = CommaJoined(PolicyParts(s))
BY DEF PolicyText, PolicyParts, WithCtl, KeptParts, Blocker, PartsAt, PartsOf, Star

LEMMA PolicyPartsAre ==
    ASSUME PlainChars, NEW A, PolicyChars(A), NEW s, s \in Seq(A), NEW g, g \in Seq(A)
    PROVE  /\ PolicyText(s) \in Seq(A)
           /\ IsWildmat(s) => IsWildmat(PolicyText(s))
           /\ LastSays(PartsOf(PolicyText(s)), g) <=>
                  ~DotUnder(g) /\ (g = Ctl \/ LastSays(PartsOf(s), g))
<1> DEFINE B == Seq(A)
           w == WithCtl(s)
           v == PolicyParts(s)
           x == PolicyText(s)
<1>1. /\ w \in Seq(B) /\ CommaFree(w)
      /\ AllGood(PartsOf(s)) => AllGood(w)
      /\ LastSays(w, g) <=> g = Ctl \/ LastSays(PartsOf(s), g)
  BY WithCtlIs
<1>2. Blocker \in B /\ Negated(Blocker) /\ Good(Blocker) /\ NoneOf(Blocker, {","}) /\ (Hit(Blocker, g) <=> DotUnder(g))
  BY BlockerIs
<1>3. x = CommaJoined(v) /\ v = Append(w, Blocker)
  BY PolicyTextIs DEF PolicyParts
<1> HIDE DEF w, v, x, B
<1>4. IsAppend(v, w, Blocker) /\ v \in Seq(B) /\ v # <<>>
  <2>1. v \in Seq(B) /\ Len(v) = Len(w) + 1 /\ Len(w) \in Nat
    BY <1>1, <1>2, <1>3, AppendGives
  <2>2. Len(<<>>) = 0
    BY EmptyBefore
  <2> QED
    BY <1>3, <2>1, <2>2 DEF IsAppend
<1>5. /\ LastSays(v, g) <=> IF Hit(Blocker, g) THEN ~Negated(Blocker) ELSE LastSays(w, g)
      /\ AllGood(v) <=> AllGood(w) /\ Good(Blocker)
      /\ CommaFree(v) <=> CommaFree(w) /\ NoneOf(Blocker, {","})
  BY <1>1, <1>2, <1>4, LastUp
<1>6. HasComma(A)
  BY DEF PolicyChars, HasComma
<1>7. PartsOf(x) = v
  BY <1>1, <1>2, <1>3, <1>4, <1>5, <1>6, JoinedParts DEF B
<1>8. x \in Seq(A)
  <2> DEFINE e == Append(v, Ctl)
  <2>1. Ctl \in Seq(A) /\ IsAppend(e, v, Ctl)
    BY DEF PolicyChars, IsAppend
  <2> HIDE DEF e
  <2> QED
    BY <1>3, <1>4, <1>6, <2>1, CommasUp DEF B
<1>9. IsWildmat(s) <=> AllGood(PartsOf(s))
  BY IsWildmatIs DEF AllGood
<1>10. IsWildmat(x) <=> AllGood(v)
  BY <1>7, <1>8, IsWildmatIs DEF AllGood
<1> QED
  BY <1>1, <1>2, <1>5, <1>7, <1>8, <1>9, <1>10 DEF x

\* What a policy made of a text says of a name.
LEMMA PolicyAnswers ==
    ASSUME PlainChars, NEW A, PolicyChars(A), NEW s, s \in Seq(A), NEW g, g \in Seq(A)
    PROVE  CheckString(IF ValidWildmat(s) THEN CompileWildmat(PolicyText(s)) ELSE <<>>, g) <=>
               ~DotUnder(g) /\ (Meant(s, g) \/ (IsWildmat(s) /\ g = Ctl))
<1> DEFINE x == PolicyText(s)
<1>1. /\ x \in Seq(A)
      /\ IsWildmat(s) => IsWildmat(x)
      /\ LastSays(PartsOf(x), g) <=> ~DotUnder(g) /\ (g = Ctl \/ LastSays(PartsOf(s), g))
  BY PolicyPartsAre
<1>2. ValidWildmat(s) <=> IsWildmat(s)
  BY WildmatIs, IsWildmatIs
<1>3. Meant(s, g) <=> IsWildmat(s) /\ LastSays(PartsOf(s), g)
  BY MeantIs
<1> HIDE DEF x
<1>4. CASE IsWildmat(s)
  <2>1. CheckString(CompileWildmat(x), g) <=> LastSays(PartsOf(x), g)
    BY <1>1, <1>4, CheckedIs
  <2> QED
    BY <1>1, <1>2, <1>3, <1>4, <2>1 DEF x
<1>5. CASE ~IsWildmat(s)
  <2>1. CheckString(<<>>, g) <=> FALSE
    BY NoneChecked
  <2> QED
    BY <1>2, <1>3, <1>5, <2>1
<1> QED
  BY <1>4, <1>5

\* What a filter is made of, and what was answered with it.
PiecesOfText(f) ==
    IF f.policy
    THEN IF ValidWildmat(f.text) THEN CompileWildmat(PolicyText(f.text)) ELSE <<>>
    ELSE IF ValidWildmat(f.text) THEN CompileWildmat(f.text) ELSE <<>>

Answer(f, g) == CheckString(f.pieces, g) /\ (f.policy => ValidNetNewsGroup(g))

FilterRight(A) ==
    /\ filter.text \in Seq(A) /\ filter.policy \in BOOLEAN
    /\ filter.ready => filter.pieces = PiecesOfText(filter)

FilterShape == filter = [text |-> filter.text, policy |-> filter.policy, ready |-> filter.ready, pieces |-> filter.pieces]

AskedRight(A) ==
    asked.name # <<>> => /\ filter.ready /\ asked.name \in Seq(A)
                         /\ asked.answer <=> Answer(filter, asked.name)

PolicyInv(A) == FilterShape /\ FilterRight(A) /\ AskedRight(A)

LEMMA MadeKeeps ==
    ASSUME NEW A, PolicyInv(A), ~filter.ready, NEW y, y = PiecesOfText(filter), Made(y)
    PROVE  PolicyInv(A)'
<1> DEFINE f == filter'
<1>1. filter = [text |-> filter.text, policy |-> filter.policy, ready |-> filter.ready, pieces |-> filter.pieces]
  BY DEF PolicyInv, FilterShape
<1>2. filter' = [filter EXCEPT !.ready = TRUE, !.pieces = y] /\ asked' = asked
  BY DEF Made
<1>3. /\ filter'.text = filter.text /\ filter'.policy = filter.policy
      /\ filter'.ready = TRUE /\ filter'.pieces = y
  BY <1>1, <1>2
<1>4. FilterShape'
  BY <1>1, <1>2 DEF FilterShape
<1>5. PiecesOfText(filter') = PiecesOfText(filter)
  BY <1>3 DEF PiecesOfText
<1>6. FilterRight(A)'
  <2>1. filter.text \in Seq(A) /\ filter.policy \in BOOLEAN
    BY DEF PolicyInv, FilterRight
  <2> QED
    BY <1>3, <1>5, <2>1 DEF FilterRight
<1>7. asked.name = <<>>
  BY DEF PolicyInv, AskedRight
<1>8. AskedRight(A)'
  BY <1>2, <1>7 DEF AskedRight
<1> QED
  BY <1>4, <1>6, <1>8 DEF PolicyInv

LEMMA AskKeeps ==
    ASSUME NEW A, PolicyInv(A), NEW names, names \subseteq Seq(A), Ask(names)
    PROVE  PolicyInv(A)'
<1>1. PICK g \in names : asked' = [name |-> g, answer |-> CheckString(filter.pieces, g)
                                                        /\ (filter.policy => ValidNetNewsGroup(g))]
  BY DEF Ask
<1>2. filter' = filter /\ filter.ready /\ g \in Seq(A)
  BY DEF Ask
<1> DEFINE a == CheckString(filter.pieces, g) /\ (filter.policy => ValidNetNewsGroup(g))
<1>3. a <=> Answer(filter, g)
  BY DEF Answer
<1>4. asked' = [name |-> g, answer |-> a]
  BY <1>1
<1> HIDE DEF a
<1>5. asked'.name = g /\ asked'.answer = a
  BY <1>4
<1>6. AskedRight(A)'
  BY <1>2, <1>3, <1>5 DEF AskedRight
<1>7. FilterRight(A)' /\ FilterShape'
  BY <1>2 DEF PolicyInv, FilterRight, FilterShape
<1> QED
  BY <1>6, <1>7 DEF PolicyInv

LEMMA PolicyKept ==
    ASSUME NEW A, NEW names, names \subseteq Seq(A), PolicyInv(A), [PolicyNext(names)]_policyVars
    PROVE  PolicyInv(A)'
<1>1. CASE ListWildmat
  <2>1. ~filter.ready /\ ~filter.policy
        /\ Made(IF ValidWildmat(filter.text) THEN CompileWildmat(filter.text) ELSE <<>>)
    BY <1>1 DEF ListWildmat
  <2>2. PiecesOfText(filter) = IF ValidWildmat(filter.text) THEN CompileWildmat(filter.text) ELSE <<>>
    BY <2>1 DEF PiecesOfText
  <2> QED
    BY <2>1, <2>2, MadeKeeps
<1>2. CASE MakeNewGroupPolicy
  <2>1. ~filter.ready /\ filter.policy
        /\ Made(IF ValidWildmat(filter.text) THEN CompileWildmat(PolicyText(filter.text)) ELSE <<>>)
    BY <1>2 DEF MakeNewGroupPolicy
  <2>2. PiecesOfText(filter) = IF ValidWildmat(filter.text) THEN CompileWildmat(PolicyText(filter.text)) ELSE <<>>
    BY <2>1 DEF PiecesOfText
  <2> QED
    BY <2>1, <2>2, MadeKeeps
<1>3. CASE Ask(names)
  BY <1>3, AskKeeps
<1>4. CASE UNCHANGED policyVars
  BY <1>4 DEF policyVars, PolicyInv, FilterShape, FilterRight, AskedRight, PiecesOfText, Answer
<1> QED
  BY <1>1, <1>2, <1>3, <1>4 DEF PolicyNext

LEMMA PolicyStarts ==
    ASSUME NEW A, NEW wildmats, wildmats \subseteq Seq(A), NEW policies, policies \subseteq Seq(A),
           PolicyInit(wildmats, policies)
    PROVE  PolicyInv(A)
<1>1. asked.name = <<>>
  BY DEF PolicyInit
<1>2. PICK x \in Seq(A), b \in BOOLEAN : filter = [text |-> x, policy |-> b, ready |-> FALSE, pieces |-> <<>>]
  BY DEF PolicyInit
<1>3. FilterShape /\ FilterRight(A)
  BY <1>2 DEF FilterShape, FilterRight
<1> QED
  BY <1>1, <1>3 DEF PolicyInv, AskedRight

LEMMA PolicyInvTrue ==
    ASSUME PlainChars, NEW A, PolicyChars(A), ReservedNames(A), PolicyInv(A)
    PROVE  PolicyTrue
<1>1. SUFFICES ASSUME asked.name # <<>>
               PROVE  asked.answer <=>
                          IF filter.policy
                          THEN /\ Proper(asked.name)
                               /\ Meant(filter.text, asked.name) \/ (IsWildmat(filter.text) /\ asked.name = Ctl)
                          ELSE Meant(filter.text, asked.name)
  BY DEF PolicyTrue
<1> DEFINE g == asked.name
           s == filter.text
<1>2. g \in Seq(A) /\ s \in Seq(A) /\ (asked.answer <=> Answer(filter, g)) /\ filter.pieces = PiecesOfText(filter)
  BY <1>1 DEF PolicyInv, FilterRight, AskedRight
<1>3. g # <<>>
  BY <1>1
<1> HIDE DEF g, s
<1>4. CASE filter.policy
  <2>1. CheckString(filter.pieces, g) <=> ~DotUnder(g) /\ (Meant(s, g) \/ (IsWildmat(s) /\ g = Ctl))
    <3>1. filter.pieces = IF ValidWildmat(s) THEN CompileWildmat(PolicyText(s)) ELSE <<>>
      BY <1>2, <1>4 DEF PiecesOfText, s
    <3> QED
      BY <1>2, <3>1, PolicyAnswers
  <2>2. ValidNetNewsGroup(g) /\ ~DotUnder(g) <=> Proper(g)
    BY <1>2, <1>3, ProperIs
  <2>3. asked.answer <=> CheckString(filter.pieces, g) /\ ValidNetNewsGroup(g)
    BY <1>2, <1>4 DEF Answer
  <2> QED
    BY <1>4, <2>1, <2>2, <2>3 DEF g, s
<1>5. CASE ~filter.policy
  <2>1. CheckString(filter.pieces, g) <=> Meant(s, g)
    <3>1. filter.pieces = IF ValidWildmat(s) THEN CompileWildmat(s) ELSE <<>>
      BY <1>2, <1>5 DEF PiecesOfText, s
    <3> QED
      BY <1>2, <3>1, ListAnswers
  <2>2. asked.answer <=> CheckString(filter.pieces, g)
    BY <1>2, <1>5 DEF Answer
  <2> QED
    BY <1>5, <2>1, <2>2 DEF g, s
<1> QED
  BY <1>4, <1>5

\* The characters and the names that texts of policies are made of.
PolicyBytes(A) ==
    /\ "," \in A /\ "!" \in A /\ "*" \in A /\ "." \in A /\ "_" \in A
    /\ Ctl \in Seq(A) /\ AnyReserved \in Seq(A) /\ FirstReserved \subseteq Seq(A)

LEMMA PolicyConstants ==
    ASSUME NEW A, PolicyBytes(A)
    PROVE  PlainChars /\ PolicyChars(A) /\ ReservedNames(A)
<1>1. PlainChars
  BY NamesAssumption DEF PlainChars
<1>2. PolicyChars(A)
  BY NamesAssumption DEF PolicyBytes, PolicyChars
<1>3. \A comp \in FirstReserved \cup {AnyReserved} : NoneOf(comp, {"."})
  BY NamesAssumption DEF NoneOf
<1>4. ReservedNames(A)
  BY <1>3 DEF PolicyBytes, ReservedNames
<1> QED
  BY <1>1, <1>2, <1>4

\* What is answered of a name is what the patterns of the text mean of it: the last that it matches
\* decides; a policy admits proper names only and "ctl", too (CheckString, wildmat.go:150-167;
\* CheckGroup, grouppolicy.go:139-155).
THEOREM PolicyCorrect ==
    ASSUME NEW A, PolicyBytes(A),
           NEW wildmats, wildmats \subseteq Seq(A), NEW policies, policies \subseteq Seq(A),
           NEW names, names \subseteq Seq(A)
    PROVE  PolicyInit(wildmats, policies) /\ [][PolicyNext(names)]_policyVars => []PolicyTrue
<1>1. PolicyInit(wildmats, policies) => PolicyInv(A)
  BY PolicyStarts
<1>2. PolicyInv(A) /\ [PolicyNext(names)]_policyVars => PolicyInv(A)'
  BY PolicyKept
<1>3. PolicyInv(A) => PolicyTrue
  BY PolicyConstants, PolicyInvTrue
<1> QED
  BY <1>1, <1>2, <1>3, PTL

\* Whatever texts, lists and wildmats are read, each beside the others and in pieces of any size:
\* no byte of a text is lost, no line is listed that was not there and none is left out, and every
\* name is answered for as the wildmat means it (unixtextreader.go:15-70, client_puller.go:681-806,
\* wildmat.go:150-167).
THEOREM LinesCorrect ==
    ASSUME NEW A, TextBytes(A),
           NEW B, NEW lists, ListsOf(B, lists),
           NEW C, PolicyBytes(C), NEW wildmats, wildmats \subseteq Seq(C),
           NEW policies, policies \subseteq Seq(C), NEW names, names \subseteq Seq(C)
    PROVE  /\ LinesInit(Seq(A), Nat \ {0}) /\ [][LinesNext(Nat \ {0})]_lineTextVars
           /\ ListInit(lists) /\ [][ListNext]_listVars
           /\ PolicyInit(wildmats, policies) /\ [][PolicyNext(names)]_policyVars
           => []LinesTrue
<1>1. LinesInit(Seq(A), Nat \ {0}) /\ [][LinesNext(Nat \ {0})]_lineTextVars => []TextTrue
  BY TextCorrect
<1>2. ListInit(lists) /\ [][ListNext]_listVars => []ListTrue
  BY ListCorrect
<1>3. PolicyInit(wildmats, policies) /\ [][PolicyNext(names)]_policyVars => []PolicyTrue
  BY PolicyCorrect
<1>4. TextTrue /\ ListTrue /\ PolicyTrue => LinesTrue
  BY DEF LinesTrue
<1> QED
  BY <1>1, <1>2, <1>3, <1>4, PTL

=============================================================================
