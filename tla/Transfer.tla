------------------------------ MODULE Transfer ------------------------------
(***************************************************************************)
(* Which articles are taken (pipostnntp/nntppost.go, post_n_digesthead.go, *)
(* nntpprocessing.go): several peers offer articles at once, by IHAVE,     *)
(* TAKETHIS or POST, and the puller fetches some.  An article is looked    *)
(* up by its id, its head is read, its group and the post it refers to are *)
(* looked up, and only then its text is taken and it is inserted: what was *)
(* looked up may have changed by then.  Moderators remove posts meanwhile. *)
(*                                                                         *)
(* Articles are records; an article's id is a number, and it is always the *)
(* same article that has it.                                               *)
(***************************************************************************)
EXTENDS Integers, FiniteSets

CONSTANTS Peers,
          Offers,         \* how: "transfer" (IHAVE or TAKETHIS), "post" or "pull",
                          \* said: the id that is named, expect: the group that is
                          \* scanned, art: the article
          AutoAdd,        \* the groups that may be added on the way
          OldBoards,      \* those that are there
          OldPosts,       \* what may be stored in the beginning
          MaxOffers,      \* bounds on offers, removals and failures
          MaxRemovals,
          MaxFailures

Hows == {"transfer", "post", "pull"}
NoGroup == ""
Groups == STRING \cup {NoGroup}

\* Whole is a table of posts where each stands in a group that exists, in a
\* thread that is there, of the same group, and begun no later.
Whole(posts, groups) ==
    \A id \in DOMAIN posts :
        LET t == posts[id].thread IN
        /\ posts[id].group \in groups
        /\ t \in DOMAIN posts /\ posts[t].thread = t
        /\ posts[t].group = posts[id].group
        /\ posts[t].date <= posts[id].date

RowType == [group : Groups, date : Nat, thread : Nat]

ASSUME TransferAssumption ==
    /\ Offers # {}
    /\ Offers \subseteq
         [how : Hows, said : Nat, expect : Groups,
          art : [given : Nat, own : Nat \ {0}, group : Groups, ref : Nat, date : Nat,
                 laxdate : BOOLEAN, lacks : SUBSET Hows, sound : BOOLEAN]]
    /\ \A s \in OldPosts :
          /\ DOMAIN s \subseteq Nat \ {0} /\ s \in [DOMAIN s -> RowType]
          /\ Whole(s, OldBoards)
    /\ MaxOffers \in Nat /\ MaxRemovals \in Nat /\ MaxFailures \in Nat

VARIABLES
    boards,    \* ib0.boards: names
    stored,     \* ib0.gposts, bposts and threads: of each stored id, its group,
               \* the first post of its thread, its date
    banned,    \* the ids that are kept in ib0.gposts without a post
    at,        \* where each peer's handler is
    offer,     \* what it is offered
    info,      \* nntpParsedInfo and insertSqlInfo
    ever,      \* the ids that have ever been stored
    accepted,  \* the offers that were answered well
    offers, removals, failures

transferVars == <<boards, stored, banned, at, offer, info, ever, accepted,
                  offers, removals, failures>>

NoId == 0
BadId == -1
Now == 2                \* later dates are too far in the future
NoInfo == [id |-> NoId, group |-> NoGroup, ref |-> NoId, date |-> 0, thread |-> NoId]

\* nntp_article_exists_or_banned_by_msgid
Known(id) == id \in DOMAIN stored \cup banned

Goes(p, l) == at' = [at EXCEPT ![p] = l]
Fail == failures < MaxFailures /\ failures' = failures + 1

\* The handler answers, and is ready for the next command.
Answer(p) == Goes(p, "idle") /\ UNCHANGED accepted
AnswerWell(p) == Goes(p, "idle") /\ accepted' = accepted \cup {offer[p]}

Still == UNCHANGED <<boards, stored, banned, ever, offers, removals>>

-----------------------------------------------------------------------------
\* Of the placeholders of an id only a ban matters.
IsArticleWanted(id) == ~Known(id)

\* HandleIHave and HandleTakeThis (and HandleCheck, after which nothing is sent
\* here) look the id up first, the puller asks IsArticleWanted, POST does not
\* know it yet.
Begin(p) ==
    /\ at[p] = "idle" /\ offers < MaxOffers
    /\ offers' = offers + 1
    /\ \E o \in Offers :
          /\ offer' = [offer EXCEPT ![p] = o]
          /\ Goes(p, CASE o.how = "transfer" -> IF Known(o.said) THEN "idle" ELSE "head"
                    [] o.how = "pull" -> IF IsArticleWanted(o.said) THEN "head" ELSE "idle"
                    [] o.how = "post" -> "head")
    /\ info' = [info EXCEPT ![p] = NoInfo]
    /\ UNCHANGED <<boards, stored, banned, ever, accepted, removals, failures>>

\* The id: what the head says, which has to be what was said; or what was said.
\* An article that is posted without one gets one later.
IdOf(o) ==
    IF o.art.given # NoId
    THEN IF o.said \in {NoId, o.art.given} THEN o.art.given ELSE BadId
    ELSE IF o.said # NoId THEN o.said
    ELSE IF o.how = "post" THEN NoId ELSE BadId

SelfReference(o) == o.art.ref # NoId /\ o.art.ref = IdOf(o)

\* nntpDigestTransferHead up to its look at the database: the headers that have
\* to be there, once; id, group and date; no reference of a post to itself.
HeadGood(o) ==
    /\ o.how \notin o.art.lacks
    /\ IdOf(o) # BadId
    /\ o.art.group # NoGroup
    /\ o.how = "pull" => o.art.group = o.expect
    /\ ~(o.how = "post" /\ SelfReference(o))
    /\ o.art.date <= Now
    /\ o.how = "post" => ~o.art.laxdate

DigestHead(p) ==
    /\ at[p] = "head"
    /\ LET o == offer[p] IN
       IF HeadGood(o)
       THEN /\ info' = [info EXCEPT ![p] =
                          [id |-> IdOf(o), group |-> o.art.group,
                           ref |-> IF SelfReference(o) THEN NoId ELSE o.art.ref,
                           date |-> IF o.art.date = 0 THEN Now ELSE o.art.date,
                           thread |-> NoId]]
            /\ Goes(p, "board") /\ UNCHANGED accepted
       ELSE Answer(p) /\ UNCHANGED info
    /\ Still /\ UNCHANGED <<offer, failures>>

\* acceptArticleHead for a post that begins a thread: a group that is wanted is
\* added, unless somebody else just did, and looked up again.
NewThreadBoard(p) ==
    /\ info[p].ref = NoId
    /\ \/ info[p].group \in boards /\ Goes(p, "taken") /\ UNCHANGED <<boards, accepted>>
       \/ /\ info[p].group \notin boards /\ info[p].group \in AutoAdd
          /\ boards' = boards \cup {info[p].group}
          /\ UNCHANGED <<at, accepted>>
       \/ /\ info[p].group \notin boards \cup AutoAdd
          /\ Answer(p) /\ UNCHANGED boards
    /\ UNCHANGED info

\* ... and for one that refers to a post: which has to be there, in the same
\* group, and not be younger.
ReplyBoard(p) ==
    /\ info[p].ref # NoId
    /\ IF /\ info[p].ref \in DOMAIN stored
          /\ info[p].group \in boards /\ stored[info[p].ref].group = info[p].group
          /\ stored[info[p].ref].date <= info[p].date
       THEN /\ info' = [info EXCEPT ![p].thread = stored[info[p].ref].thread]
            /\ Goes(p, "taken") /\ UNCHANGED accepted
       ELSE Answer(p) /\ UNCHANGED info
    /\ UNCHANGED boards

AcceptHead(p) ==
    /\ at[p] = "board"
    /\ \/ (NewThreadBoard(p) \/ ReplyBoard(p)) /\ UNCHANGED failures
       \/ Fail /\ Answer(p) /\ UNCHANGED <<boards, info>>
    /\ UNCHANGED <<stored, banned, ever, offers, removals, offer>>

\* The text is taken off the connection: into a file, or, for POST, after
\* ensureArticleDoesntExist, where it is eaten.
TakeText(p) ==
    /\ at[p] = "taken"
    /\ \/ /\ IF offer[p].how = "post" /\ info[p].id # NoId /\ Known(info[p].id)
             THEN Answer(p) ELSE Goes(p, "insert") /\ UNCHANGED accepted
          /\ UNCHANGED failures
       \/ Fail /\ Answer(p)
    /\ Still /\ UNCHANGED <<offer, info>>

\* The id of a post that came without one.
FinalId(p) == IF info[p].id = NoId THEN offer[p].art.own ELSE info[p].id

Row(p) == [group |-> info[p].group, date |-> info[p].date,
           thread |-> IF info[p].ref = NoId THEN FinalId(p) ELSE info[p].thread]

\* (Wrong variant: relies on the thread that was found before.)
CanInsertStale(p) == offer[p].art.sound /\ ~Known(FinalId(p))

\* The text can be understood, and the constraints of the tables hold: one row
\* of an id in gposts, a thread for each row of bposts.
CanInsert(p) ==
    /\ offer[p].art.sound
    /\ ~Known(FinalId(p))
    /\ info[p].ref # NoId => info[p].thread \in DOMAIN stored

\* nntpSendIncomingArticle tells nobody how netnewsSubmitArticle went, its
\* callers answer well; HandlePost says what it returned.
Submit(p) ==
    /\ at[p] = "insert"
    /\ \/ /\ CanInsert(p)
          /\ stored' = [x \in DOMAIN stored \cup {FinalId(p)} |->
                          IF x = FinalId(p) THEN Row(p) ELSE stored[x]]
          /\ ever' = ever \cup {FinalId(p)}
          /\ AnswerWell(p) /\ UNCHANGED failures
       \/ /\ (~CanInsert(p) /\ UNCHANGED failures) \/ Fail
          /\ IF offer[p].how = "post" THEN Answer(p) ELSE AnswerWell(p)
          /\ UNCHANGED <<stored, ever>>
    /\ UNCHANGED <<boards, banned, offers, removals, offer, info>>

-----------------------------------------------------------------------------
\* A moderator removes a post, and with a thread's first post the thread; the id
\* may be banned.  A thread begun again by the same article has another number:
\* the one a handler has found is nobody's then.
RemovePost ==
    /\ removals < MaxRemovals
    /\ removals' = removals + 1
    /\ \E id \in DOMAIN stored, ban \in BOOLEAN :
          /\ stored' = [x \in {y \in DOMAIN stored : y # id /\ stored[y].thread # id} |-> stored[x]]
          /\ banned' = IF ban THEN banned \cup {id} ELSE banned
          /\ info' = [p \in Peers |-> IF info[p].thread = id
                                     THEN [info[p] EXCEPT !.thread = BadId] ELSE info[p]]
    /\ UNCHANGED <<boards, at, offer, ever, accepted, offers, failures>>

\* The puller is listed a group of the other server: GetGroupID adds the ones
\* that are wanted.
ListedGroup ==
    /\ \E g \in AutoAdd \ boards : boards' = boards \cup {g}
    /\ UNCHANGED <<stored, banned, at, offer, info, ever, accepted, offers, removals, failures>>

TransferInit ==
    /\ boards = OldBoards
    /\ stored \in OldPosts
    /\ banned = {}
    /\ at = [p \in Peers |-> "idle"]
    /\ offer = [p \in Peers |-> CHOOSE o \in Offers : TRUE]
    /\ info = [p \in Peers |-> NoInfo]
    /\ ever = DOMAIN stored
    /\ accepted = {}
    /\ offers = 0 /\ removals = 0 /\ failures = 0

Handling(p) == Begin(p) \/ DigestHead(p) \/ AcceptHead(p) \/ TakeText(p) \/ Submit(p)

\* No more offers (MaxOffers), and none being handled.
TransferOver == offers = MaxOffers /\ (\A p \in Peers : at[p] = "idle")

TransferNext ==
    \/ \E p \in Peers : Handling(p)
    \/ RemovePost
    \/ ListedGroup
    \/ TransferOver /\ UNCHANGED transferVars

-----------------------------------------------------------------------------
TransferSpec == TransferInit /\ [][TransferNext]_transferVars

TransferTypeOK ==
    /\ boards \subseteq OldBoards \cup AutoAdd
    /\ DOMAIN stored \subseteq Nat \ {0} /\ stored \in [DOMAIN stored -> RowType]
    /\ banned \subseteq ever /\ ever \subseteq Nat
    /\ at \in [Peers -> {"idle", "head", "board", "taken", "insert"}]
    /\ offer \in [Peers -> Offers]
    /\ info \in [Peers -> [id : Nat, group : Groups, ref : Nat, date : Nat,
                          thread : Nat \cup {BadId}]]
    /\ accepted \subseteq Offers
    /\ offers \in 0..MaxOffers /\ removals \in 0..MaxRemovals /\ failures \in 0..MaxFailures

\* Whatever happens between the looks at the database and the insertion, what is
\* stored is whole.  And the answers are true: who posted is told so only if the
\* post was stored; who transfers an article is told so only if it was, unless
\* its text is not understood, a call failed or posts were removed meanwhile:
\* then it is lost to the peer that will not offer it again (HandlePost,
\* HandleIHave and HandleTakeThis, nntppost.go:304-464).
TakenTrue ==
    /\ Whole(stored, boards)
    /\ \A o \in accepted :
          \/ (IF IdOf(o) = NoId THEN o.art.own ELSE IdOf(o)) \in ever
          \/ o.how # "post" /\ (~o.art.sound \/ failures > 0 \/ removals > 0)
=============================================================================
