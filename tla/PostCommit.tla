----------------------------- MODULE PostCommit -----------------------------
(***************************************************************************)
(* The commit of a web post (pipostweb, pipostbase): the transaction that  *)
(* inserts the post, with its retries; the goroutines that move the files  *)
(* of the post from where they were uploaded to a pending directory (TP)   *)
(* and link them from there into the store (PA) while the transaction      *)
(* runs; the cleaning up after either outcome; and the counters that the   *)
(* triggers of init_triggers_files.sql keep of the files in use.           *)
(*                                                                         *)
(* Files are named by their content: posts may share them.  Transactions   *)
(* are serializable: what one inserted is seen at its commit, the counters *)
(* it touched stay locked until then, and who finds one changed behind its *)
(* snapshot fails with an error that is retried.                           *)
(***************************************************************************)
EXTENDS Integers, FiniteSets

CONSTANTS Posts,       \* the posts, each with its own request
          SrcOf,       \* the files of each post
          ThmOf,       \* the thumbnails of each post
          NoFileSync,  \* the configuration switch
          MaxRetries,  \* numsoftfail at which the loop gives up (1000 in the code)
          MaxFaults    \* bound on the failures that are not retried

Stores == {"src", "thm"}
FilesOf(p, k) == IF k = "src" THEN SrcOf[p] ELSE ThmOf[p]
All(p) == SrcOf[p] \cup ThmOf[p]
Items == UNION {All(p) : p \in Posts}

ASSUME PostAssumption ==
    /\ IsFiniteSet(Posts)
    /\ DOMAIN SrcOf = Posts /\ DOMAIN ThmOf = Posts
    /\ \A p \in Posts : IsFiniteSet(All(p))
    /\ \A p \in Posts : SrcOf[p] = {} => ThmOf[p] = {}
    /\ \A p, q \in Posts : SrcOf[p] \cap ThmOf[q] = {}
    /\ NoFileSync \in BOOLEAN
    /\ MaxRetries \in Nat /\ MaxFaults \in Nat

VARIABLES
    rows,     \* the posts in ib0.gposts and ib0.files
    cnt,      \* ib0.files_uniq_fname and _thumb: the counter of each file, -1 for no row
    queue,    \* ib0.files_deleted and ib0.fthumbs_deleted
    locked,   \* the counters that each open transaction has touched
    stale,    \* the transactions whose snapshot is behind the counters
    where,    \* where each post's own copy of each of its files is
    active,   \* the files in the main directories of the stores
    dirs,     \* the pending directories of each post
    synced,   \* those of them that are known to be on the disk with their content
    pc,       \* where wp_act_commit is
    retry,    \* whether its error is retriable
    soft,     \* numsoftfail
    werr,     \* PostCommonContext.WErr, whether there is one
    tp,       \* the goroutines of TP, one for each store
    pa,       \* the goroutine of PA
    todo,     \* what it has still to link
    faults,   \* how many failures there were
    crashed   \* whether the machine has crashed

db   == <<rows, cnt, queue, locked, stale>>
disk == <<where, active, dirs, synced>>
main == <<pc, retry, soft>>
work == <<werr, tp, pa, todo>>
vars == <<db, disk, main, work, faults, crashed>>

HasFiles(p) == SrcOf[p] # {}
Fault == faults < MaxFaults /\ faults' = faults + 1
Goto(p, label) == pc' = [pc EXCEPT ![p] = label]

\* wg_TP.Wait and wg_PA.Wait return.
DoneTP(p) == \A k \in Stores : tp[p][k] \in {"none", "end"}
DonePA(p) == pa[p] \in {"none", "end"}

-----------------------------------------------------------------------------
(***************************************************************************)
(* TP: from the upload to the pending directory.                           *)
(***************************************************************************)

\* wp_act_fpp_bc_spawn_TP.
SpawnTP(p) ==
    /\ pc[p] = "idle"
    /\ Goto(p, "begin")
    /\ tp' = [tp EXCEPT ![p] = [k \in Stores |-> IF FilesOf(p, k) # {} THEN "new" ELSE "none"]]
    /\ UNCHANGED <<db, disk, retry, soft, werr, pa, todo, faults, crashed>>

\* NewDir.
MakeDir(p, k) ==
    /\ tp[p][k] = "new"
    /\ \/ /\ dirs' = [dirs EXCEPT ![p] = @ \cup {k}]
          /\ tp' = [tp EXCEPT ![p][k] = "move"]
          /\ UNCHANGED <<werr, faults>>
       \/ /\ Fault
          /\ werr' = [werr EXCEPT ![p] = TRUE]
          /\ tp' = [tp EXCEPT ![p][k] = "end"]
          /\ UNCHANGED dirs
    /\ UNCHANGED <<db, where, active, synced, main, pa, todo, crashed>>

\* One of the goroutines of wp_fpp_bc_movensync: sync and rename.
Move(p, k, i) ==
    /\ tp[p][k] = "move" /\ where[p][i] = "upload"
    /\ \/ where' = [where EXCEPT ![p][i] = "pending"] /\ UNCHANGED <<werr, faults>>
       \/ /\ Fault
          /\ where' = [where EXCEPT ![p][i] = "unmoved"]
          /\ werr' = [werr EXCEPT ![p] = TRUE]
    /\ UNCHANGED <<db, active, dirs, synced, main, tp, pa, todo, crashed>>

\* All have moved; wp_syncdir of the directory and of its parent, whose
\* failures are only logged.
SyncDirs(p, k) ==
    /\ tp[p][k] = "move"
    /\ \A i \in FilesOf(p, k) : where[p][i] # "upload"
    /\ tp' = [tp EXCEPT ![p][k] = "end"]
    /\ \/ ~NoFileSync /\ synced' = [synced EXCEPT ![p] = @ \cup {k}] /\ UNCHANGED faults
       \/ NoFileSync /\ UNCHANGED <<synced, faults>>
       \/ ~NoFileSync /\ Fault /\ UNCHANGED synced
    /\ UNCHANGED <<db, where, active, dirs, main, werr, pa, todo, crashed>>

-----------------------------------------------------------------------------
(***************************************************************************)
(* PA: from the pending directory to the store.                            *)
(***************************************************************************)

\* wp_act_fpp_bc_work_PA waits for TP and does nothing if it failed.
StartPA(p) ==
    /\ pa[p] = "wait"
    /\ DoneTP(p)
    /\ IF werr[p]
       THEN pa' = [pa EXCEPT ![p] = "end"] /\ UNCHANGED todo
       ELSE /\ pa' = [pa EXCEPT ![p] = "link"]
            /\ todo' = [todo EXCEPT ![p] = All(p)]
    /\ UNCHANGED <<db, disk, main, werr, tp, faults, crashed>>

\* HardlinkOrCopyIfNeededStable: a hard link, or where there are none a copy
\* renamed into place; a file that is there already is left as it is.  The
\* files go before the thumbnails; a failure does not stop the rest.
Link(p, i) ==
    /\ pa[p] = "link" /\ i \in todo[p]
    /\ i \in SrcOf[p] \/ todo[p] \subseteq ThmOf[p]
    /\ todo' = [todo EXCEPT ![p] = @ \ {i}]
    /\ \/ /\ i \in active \/ where[p][i] = "pending"
          /\ active' = active \cup {i}
          /\ UNCHANGED <<werr, faults>>
       \/ /\ Fault \/ (where[p][i] # "pending" /\ UNCHANGED faults)
          /\ werr' = [werr EXCEPT ![p] = TRUE]
          /\ UNCHANGED active
    /\ UNCHANGED <<db, where, dirs, synced, main, tp, pa, crashed>>

EndPA(p) ==
    /\ pa[p] = "link" /\ todo[p] = {}
    /\ pa' = [pa EXCEPT ![p] = "end"]
    /\ UNCHANGED <<db, disk, main, werr, tp, todo, faults, crashed>>

-----------------------------------------------------------------------------
(***************************************************************************)
(* The transaction.                                                        *)
(***************************************************************************)

\* err is set: the deferred Rollback is next.
Fail(p, retriable) == Goto(p, "rollback") /\ retry' = [retry EXCEPT ![p] = retriable]

\* A statement fails, of itself or with a conflict that is to be retried.
SqlFails(p) == Fault /\ Fail(p, FALSE)
Conflict(p) == Fail(p, TRUE) /\ UNCHANGED faults

\* BeginTx, makeDelTables, wp_registered_mod.
Begin(p) ==
    /\ pc[p] = "begin"
    /\ \/ /\ Goto(p, "insert")
          /\ stale' = stale \ {p}
          /\ UNCHANGED <<retry, faults>>
       \/ SqlFails(p) /\ UNCHANGED stale
    /\ UNCHANGED <<rows, cnt, queue, locked, disk, soft, work, crashed>>

\* insertNewThread or insertNewReply with files_after_insert: the counters are
\* locked, and who comes behind another transaction fails.
Insert(p) ==
    /\ pc[p] = "insert"
    /\ \A q \in Posts \ {p} : locked[q] \cap All(p) = {}
    /\ \/ /\ p \notin stale
          /\ locked' = [locked EXCEPT ![p] = All(p)]
          /\ Goto(p, "spawn")
          /\ UNCHANGED <<retry, faults>>
       \/ /\ p \in stale
          /\ Fail(p, TRUE)
          /\ UNCHANGED <<locked, faults>>
       \/ SqlFails(p) /\ UNCHANGED locked
    /\ UNCHANGED <<rows, cnt, queue, stale, disk, soft, work, crashed>>

\* wp_act_fpp_bc_spawn_PA: not more than one at a time.
SpawnPA(p) ==
    /\ pc[p] = "spawn"
    /\ DonePA(p)
    /\ pa' = [pa EXCEPT ![p] = IF HasFiles(p) THEN "wait" ELSE @]
    /\ Goto(p, "refs")
    /\ UNCHANGED <<db, disk, retry, soft, werr, tp, todo, faults, crashed>>

\* execModCmd and processRefsAfterPost, while PA is running.
Refs(p) ==
    /\ pc[p] = "refs"
    /\ \/ Goto(p, "files") /\ UNCHANGED <<retry, faults>>
       \/ SqlFails(p) \/ Conflict(p)
    /\ UNCHANGED <<db, disk, soft, work, crashed>>

\* (Wrong variant: commits without waiting for PA.)
AwaitFilesNot(p) ==
    /\ pc[p] = "files"
    /\ IF werr[p] THEN Fail(p, FALSE) ELSE Goto(p, "commit") /\ UNCHANGED retry
    /\ UNCHANGED <<db, disk, soft, work, faults, crashed>>

\* wg_PA.Wait and get_werr.
AwaitFiles(p) ==
    /\ pc[p] = "files"
    /\ DonePA(p)
    /\ IF werr[p] THEN Fail(p, FALSE) ELSE Goto(p, "commit") /\ UNCHANGED retry
    /\ UNCHANGED <<db, disk, soft, work, faults, crashed>>

\* (Wrong variant: ON CONFLICT DO NOTHING.)
CountedOnce(p) == [i \in Items |-> IF i \in All(p) /\ cnt[i] = -1 THEN 1 ELSE cnt[i]]

\* files_after_insert.
Counted(p) == [i \in Items |-> IF i \notin All(p) THEN cnt[i]
                               ELSE IF cnt[i] = -1 THEN 1 ELSE cnt[i] + 1]

\* The transactions that have read the counters of p, or that have begun.
Behind(p) == {q \in Posts \ {p} : pc[q] \in {"insert"} /\ All(q) \cap All(p) # {}}

Publish(p) ==
    /\ rows' = rows \cup {p}
    /\ cnt' = Counted(p)
    /\ locked' = [locked EXCEPT ![p] = {}]
    /\ stale' = stale \cup Behind(p)

\* tx.Commit.  When the connection goes while it is under way, the caller sees
\* an error whatever the database did.
Commit(p) ==
    /\ pc[p] = "commit"
    /\ \/ Publish(p) /\ Goto(p, "tidy") /\ UNCHANGED <<retry, faults>>
       \/ Fault /\ Publish(p) /\ Fail(p, FALSE)
       \/ (SqlFails(p) \/ Conflict(p)) /\ UNCHANGED <<rows, cnt, locked, stale>>
    /\ UNCHANGED <<queue, disk, soft, work, crashed>>

\* (Wrong variant: the transaction is left open.)
RollbackForgotten(p) ==
    /\ pc[p] = "rollback"
    /\ Goto(p, "drain")
    /\ UNCHANGED <<db, disk, retry, soft, work, faults, crashed>>

\* Rollback; another turn of the loop, or its end.
Rollback(p) ==
    /\ pc[p] = "rollback"
    /\ locked' = [locked EXCEPT ![p] = {}]
    /\ IF retry[p] /\ soft[p] < MaxRetries
       THEN Goto(p, "begin") /\ soft' = [soft EXCEPT ![p] = @ + 1]
       ELSE Goto(p, "drain") /\ UNCHANGED soft
    /\ UNCHANGED <<rows, cnt, queue, stale, disk, retry, work, faults, crashed>>

\* The deferred wait for the goroutines, after an error.
Drain(p) ==
    /\ pc[p] = "drain"
    /\ DoneTP(p) /\ DonePA(p)
    /\ Goto(p, "clean")
    /\ UNCHANGED <<db, disk, retry, soft, work, faults, crashed>>

-----------------------------------------------------------------------------
(***************************************************************************)
(* Afterwards.                                                             *)
(***************************************************************************)

Empty(p, k) == \A i \in FilesOf(p, k) : where[p][i] # "pending"

\* wp_err_cleanup removes what is left of the upload, wp_comm_cleanup those of
\* the pending directories that are empty.
Clean(p) ==
    /\ pc[p] = "clean"
    /\ where' = [where EXCEPT ![p] =
                    [i \in All(p) |-> IF @[i] \in {"upload", "unmoved"} THEN "gone" ELSE @[i]]]
    /\ dirs' = [dirs EXCEPT ![p] = {k \in @ : ~Empty(p, k)}]
    /\ Goto(p, "failed")
    /\ UNCHANGED <<db, active, synced, retry, soft, work, faults, crashed>>

\* wp_act_fpp_ac: a pending file is removed, or it cannot be.
Tidy(p) ==
    /\ pc[p] = "tidy"
    /\ \/ \E k \in Stores : \E i \in FilesOf(p, k) :
          /\ where[p][i] = "pending"
          /\ k = "src" \/ Empty(p, "src")
          /\ where' = [where EXCEPT ![p][i] = "removed"]
          /\ UNCHANGED <<pc, dirs, faults>>
       \/ /\ \A k \in Stores : Empty(p, k)
          /\ dirs' = [dirs EXCEPT ![p] = {}]
          /\ Goto(p, "done")
          /\ UNCHANGED <<where, faults>>
       \/ /\ Fault
          /\ dirs' = [dirs EXCEPT ![p] = {k \in @ : ~Empty(p, k)}]
          /\ Goto(p, "done")
          /\ UNCHANGED where
    /\ UNCHANGED <<db, active, synced, retry, soft, work, crashed>>

\* files_after_delete, which changes each counter of the post once.
Uncounted(p) == [i \in Items |-> IF i \in All(p) THEN cnt[i] - 1 ELSE cnt[i]]

\* (Wrong variant: WHEN (NEW.cnt < 0).)
NewlyNegative(p) == {i \in All(p) : cnt[i] - 1 < 0}

\* files_uniq_fname_update_delete.
NewlyUnused(p) == {i \in All(p) : cnt[i] - 1 <= 0}

\* A moderator's transaction deletes the post and with it its rows in
\* ib0.files, one statement for one post.
Delete(p) ==
    /\ p \in rows
    /\ \A q \in Posts : locked[q] \cap All(p) = {}
    /\ rows' = rows \ {p}
    /\ cnt' = Uncounted(p)
    /\ queue' = queue \cup NewlyUnused(p)
    /\ stale' = stale \cup Behind(p)
    /\ UNCHANGED <<locked, disk, main, work, faults, crashed>>

Running(p) == pc[p] \notin {"idle", "done", "failed", "dead"}

\* Of the file system a prefix of what was done is left, and all that was
\* synced: of what was linked, removed from pending and moved there, the latest
\* may be undone.  DeclareDir empties the directory of uploads at the next start.
Left(p, i, lost, unmoved) ==
    IF pc[p] = "idle" THEN where[p][i]
    ELSE IF \/ where[p][i] \in {"upload", "unmoved"}
            \/ p \in unmoved /\ \E k \in Stores \ synced[p] : i \in FilesOf(p, k)
    THEN "gone"
    ELSE IF where[p][i] = "removed" /\ i \in lost THEN "pending" ELSE where[p][i]

\* The machine crashes.  Open transactions are rolled back.
Crash ==
    /\ ~crashed
    /\ crashed' = TRUE
    /\ pc' = [p \in Posts |-> IF Running(p) THEN "dead" ELSE pc[p]]
    /\ locked' = [p \in Posts |-> {}]
    /\ tp' = [p \in Posts |-> [k \in Stores |-> "none"]]
    /\ pa' = [p \in Posts |-> "none"]
    /\ \E lost \in SUBSET active, unmoved \in SUBSET Posts :
          /\ active' = active \ lost
          /\ where' = [p \in Posts |-> [i \in All(p) |-> Left(p, i, lost, unmoved)]]
          /\ dirs' = [p \in Posts |-> dirs[p] \cup {k \in Stores :
                                \E i \in FilesOf(p, k) : where'[p][i] = "pending"}]
    /\ UNCHANGED <<rows, cnt, queue, stale, synced, retry, soft, werr, todo, faults>>

-----------------------------------------------------------------------------

Moving(p) == \E k \in Stores : MakeDir(p, k) \/ SyncDirs(p, k) \/ \E i \in FilesOf(p, k) : Move(p, k, i)
Linking(p) == StartPA(p) \/ EndPA(p) \/ \E i \in All(p) : Link(p, i)
Committing(p) ==
    \/ Begin(p) \/ Insert(p) \/ SpawnPA(p) \/ Refs(p) \/ AwaitFiles(p) \/ Commit(p)
    \/ Rollback(p) \/ Drain(p) \/ Clean(p) \/ Tidy(p)

Next ==
    \/ \E p \in Posts : SpawnTP(p) \/ Moving(p) \/ Linking(p) \/ Committing(p) \/ Delete(p)
    \/ Crash

Init ==
    /\ rows = {}
    /\ cnt = [i \in Items |-> -1]
    /\ queue = {}
    /\ locked = [p \in Posts |-> {}]
    /\ stale = {}
    /\ where = [p \in Posts |-> [i \in All(p) |-> "upload"]]
    /\ active = {}
    /\ dirs = [p \in Posts |-> {}]
    /\ synced = [p \in Posts |-> {}]
    /\ pc = [p \in Posts |-> "idle"]
    /\ retry = [p \in Posts |-> FALSE]
    /\ soft = [p \in Posts |-> 0]
    /\ werr = [p \in Posts |-> FALSE]
    /\ tp = [p \in Posts |-> [k \in Stores |-> "none"]]
    /\ pa = [p \in Posts |-> "none"]
    /\ todo = [p \in Posts |-> {}]
    /\ faults = 0
    /\ crashed = FALSE

Spec == Init /\ [][Next]_vars

\* Some goroutine goes on for as long as one can.
FairSpec ==
    Spec /\ WF_vars(\E p \in Posts : Moving(p) \/ Linking(p) \/ Committing(p))

-----------------------------------------------------------------------------
(***************************************************************************)
(* Properties.                                                             *)
(***************************************************************************)

Places == {"upload", "unmoved", "pending", "removed", "gone"}

\* Every variable keeps its type.
TypeOK ==
    /\ rows \subseteq Posts
    /\ cnt \in [Items -> {-1} \cup Nat]
    /\ queue \subseteq Items
    /\ locked \in [Posts -> SUBSET Items]
    /\ stale \subseteq Posts
    /\ where \in [Posts -> UNION {[All(p) -> Places] : p \in Posts}]
    /\ \A p \in Posts : where[p] \in [All(p) -> Places]
    /\ active \subseteq Items
    /\ dirs \in [Posts -> SUBSET Stores]
    /\ synced \in [Posts -> SUBSET Stores]
    /\ pc \in [Posts -> {"idle", "begin", "insert", "spawn", "refs", "files", "commit", "rollback",
                         "drain", "clean", "tidy", "failed", "done", "dead"}]
    /\ retry \in [Posts -> BOOLEAN]
    /\ soft \in [Posts -> 0 .. MaxRetries]
    /\ werr \in [Posts -> BOOLEAN]
    /\ tp \in [Posts -> [Stores -> {"none", "new", "move", "end"}]]
    /\ pa \in [Posts -> {"none", "wait", "link", "end"}]
    /\ todo \in [Posts -> SUBSET Items]
    /\ faults \in 0 .. MaxFaults
    /\ crashed \in BOOLEAN

\* A post that is in the database has all its files in the store; after a crash
\* they are there or in its pending directory, provided that this could be
\* synced ("before commit, ensure we've finished flushing files",
\* post_1w_5act_commit.go:167; "sync parent of pending dir to ensure that it
\* won't be gone", post_0c_3act_fpp_bc.go:37).
RowHasFiles ==
    \A p \in rows : \A k \in Stores : \A i \in FilesOf(p, k) :
        \/ i \in active
        \/ crashed /\ (where[p][i] = "pending" \/ k \notin synced[p])

\* The counters are the numbers of the posts that use the files, whatever was
\* committed, rolled back, retried and deleted; none is negative
\* (files_after_insert, files_after_delete).
CountsExact ==
    \A i \in Items : LET users == {p \in rows : i \in All(p)} IN
        IF cnt[i] = -1 THEN users = {} ELSE cnt[i] = Cardinality(users)

\* A file in the store is in use, or queued for the reaper, or was put there by
\* a post that has not been committed (yet): nothing else is left untracked
\* (post_1w_4act_process.go:82-83).
Tracked ==
    \A i \in active :
        \/ cnt[i] > 0
        \/ i \in queue
        \/ \E p \in Posts : i \in All(p) /\ pc[p] \notin {"idle", "tidy", "done"}

\* Every post is made or refused, however the goroutines, the retries and the
\* locks of others interleave.
Returns == \A p \in Posts : (pc[p] = "begin") ~> ~Running(p)
=============================================================================
