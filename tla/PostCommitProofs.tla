-------------------------- MODULE PostCommitProofs --------------------------
(***************************************************************************)
(* Proofs about the insertion of posts (PostCommit), about what posts      *)
(* refer to (PostRefs), about the forms they are sent in (FormParser) and  *)
(* about passing them on to other servers (PassingOn).                     *)
(*                                                                         *)
(* PostCommit, for any posts that share any files: a post                  *)
(* that is in the database has its files, the counters are exact, what is  *)
(* in the store is tracked, and the counters that an open transaction has  *)
(* touched are changed by nobody else.                                     *)
(*                                                                         *)
(* The invariant says of each post by itself how far the goroutines of TP  *)
(* and PA have come when the transaction is where it is (PostOK); what     *)
(* relates posts to each other are the counters and their locks.           *)
(*                                                                         *)
(* PostRefs, for any boards, posts and messages: at rest each post refers  *)
(* to what it would refer to if it came in now.  The invariant says of     *)
(* each open transaction which posts it has still to look at (Pending):    *)
(* the references of all others are right in what it sees (DoneOK).        *)
(*                                                                         *)
(* FormParser, for any form and any limits that make sense: what has been  *)
(* taken are the parts before the next one, in full (TakenOK), and their   *)
(* files are on the disk (FilesOK).                                        *)
(*                                                                         *)
(* PassingOn, for any article: each part that was eaten is in a file or is *)
(* the message (BodyOK), what is generated of it is eaten in the same way  *)
(* (GoodCopy), and so the next server keeps the same (StoredAgain).        *)
(***************************************************************************)
EXTENDS PostCommit, PostRefs, FormParser, PassingOn, FiniteSetTheorems, SequenceTheorems,
        WellFoundedInduction, TLAPS

\* TP has moved what it is done with, unless there was an error, and is done
\* with everything where there is nothing to do.
MovedOK(p) ==
    /\ \A k \in Stores : FilesOf(p, k) = {} => tp[p][k] = "none"
    /\ pc[p] \in {"begin", "insert", "spawn", "refs", "files", "commit", "rollback"} =>
          \A k \in Stores : tp[p][k] = "none" => FilesOf(p, k) = {}
    /\ ~werr[p] => \A k \in Stores : \A i \in FilesOf(p, k) :
          /\ tp[p][k] \in {"new", "move"} => where[p][i] \in {"upload", "pending", "removed"}
          /\ tp[p][k] = "end" => where[p][i] \in {"pending", "removed"}
    /\ ~DoneTP(p) =>
          pc[p] \in {"begin", "insert", "spawn", "refs", "files", "commit", "rollback", "drain"}

\* PA begins when TP has ended, and links what it has no more to do.
LinkedOK(p) ==
    /\ pa[p] \in {"link", "end"} => DoneTP(p)
    /\ pa[p] = "link" /\ ~werr[p] => All(p) \ todo[p] \subseteq active
    /\ pa[p] = "end" /\ ~werr[p] => All(p) \subseteq active
    /\ ~DonePA(p) => pc[p] \in {"begin", "insert", "spawn", "refs", "files", "rollback", "drain"}

\* The transaction ends after PA has, without an error, and only once.
CommitOK(p) ==
    /\ pc[p] = "idle" =>
          /\ pa[p] = "none"
          /\ \A k \in Stores : tp[p][k] = "none"
          /\ \A i \in All(p) : where[p][i] = "upload"
    /\ pc[p] \in {"refs", "files", "commit"} /\ HasFiles(p) => pa[p] # "none"
    /\ pc[p] = "commit" => DonePA(p) /\ ~werr[p]
    /\ p \in rows => pc[p] \in {"rollback", "drain", "clean", "tidy", "failed", "done", "dead"}
    /\ p \in rows /\ pc[p] = "rollback" => ~retry[p]

\* The files of a post that is in the database, before a crash and after it.
RowOK(p) ==
    p \in rows =>
        /\ DoneTP(p) /\ DonePA(p)
        /\ \A k \in Stores : \A i \in FilesOf(p, k) :
              \/ i \in active /\ where[p][i] \in {"pending", "removed"}
              \/ crashed /\ ~Running(p) /\ (i \in active \/ where[p][i] = "pending" \/ k \notin synced[p])

PostOK(p) == MovedOK(p) /\ LinkedOK(p) /\ CommitOK(p) /\ RowOK(p)

\* A transaction holds the counters of its post from its INSERT on, and no two
\* hold the same.
LocksOK ==
    /\ \A p \in Posts : pc[p] \in {"spawn", "refs", "files", "commit"} => locked[p] = All(p)
    /\ \A p, q \in Posts : p # q => locked[p] \cap locked[q] = {}

CommitInv ==
    TypeOK /\ (\A p \in Posts : PostOK(p)) /\ LocksOK /\ CountsExact /\ Tracked
-----------------------------------------------------------------------------
(***************************************************************************)
(* What a step of one post leaves alone.                                   *)
(***************************************************************************)

\* Nothing of q itself changes.
Apart(q) ==
    /\ pc'[q] = pc[q] /\ retry'[q] = retry[q]
    /\ werr'[q] = werr[q] /\ tp'[q] = tp[q] /\ pa'[q] = pa[q] /\ todo'[q] = todo[q]
    /\ where'[q] = where[q] /\ synced'[q] = synced[q]

\* Then q is as well off as it was, if nothing is taken from the store.
LEMMA ApartOK ==
    ASSUME NEW q \in Posts, PostOK(q), Apart(q), active \subseteq active', crashed' = crashed,
           q \in rows' => q \in rows
    PROVE  PostOK(q)'
<1>1. MovedOK(q)' /\ CommitOK(q)'
  BY DEF PostOK, Apart, MovedOK, CommitOK, DoneTP, DonePA
<1>2. LinkedOK(q)'
  BY DEF PostOK, Apart, LinkedOK, DoneTP, DonePA
<1>3. RowOK(q)'
  BY DEF PostOK, Apart, RowOK, DoneTP, DonePA, Running
<1>4. QED
  BY <1>1, <1>2, <1>3 DEF PostOK

\* A step of p.
LEMMA OthersOK ==
    ASSUME CommitInv, NEW p \in Posts, \A q \in Posts \ {p} : Apart(q),
           active \subseteq active', crashed' = crashed, rows' \subseteq rows \cup {p},
           PostOK(p)'
    PROVE  \A q \in Posts : PostOK(q)'
<1>1. SUFFICES ASSUME NEW q \in Posts, q # p
               PROVE  PostOK(q)'
  OBVIOUS
<1>2. PostOK(q) /\ Apart(q)
  BY <1>1 DEF CommitInv
<1>3. QED
  BY <1>1, <1>2, ApartOK

\* The counters, their locks and what is tracked, while nothing is committed,
\* linked or locked.
LEMMA BooksKept ==
    ASSUME CommitInv, UNCHANGED <<rows, cnt, queue, locked, active>>,
           \A q \in Posts :
              /\ pc[q] \notin {"idle", "tidy", "done"} => pc'[q] \notin {"idle", "tidy", "done"}
              /\ pc'[q] \in {"spawn", "refs", "files", "commit"} =>
                    pc[q] \in {"spawn", "refs", "files", "commit"}
    PROVE  LocksOK' /\ CountsExact' /\ Tracked'
<1>1. LocksOK'
  BY DEF CommitInv, LocksOK
<1>2. CountsExact'
  BY DEF CommitInv, CountsExact
<1>3. Tracked'
  BY DEF CommitInv, Tracked
<1>4. QED
  BY <1>1, <1>2, <1>3

\* The parts of a post.
LEMMA PartTypes ==
    ASSUME CommitInv, NEW p \in Posts
    PROVE  /\ where[p] \in [All(p) -> Places]
           /\ tp[p] \in [Stores -> {"none", "new", "move", "end"}]
           /\ pa[p] \in {"none", "wait", "link", "end"}
           /\ todo[p] \in SUBSET Items /\ werr[p] \in BOOLEAN /\ retry[p] \in BOOLEAN
           /\ All(p) \in SUBSET Items
           /\ \A k \in Stores : FilesOf(p, k) \subseteq All(p)
           /\ All(p) = FilesOf(p, "src") \cup FilesOf(p, "thm")
           /\ PostOK(p)
<1>1. /\ where[p] \in [All(p) -> Places]
      /\ tp[p] \in [Stores -> {"none", "new", "move", "end"}]
      /\ pa[p] \in {"none", "wait", "link", "end"}
      /\ todo[p] \in SUBSET Items /\ werr[p] \in BOOLEAN /\ retry[p] \in BOOLEAN
      /\ PostOK(p)
  BY DEF CommitInv, TypeOK
<1>2. All(p) \in SUBSET Items
  BY DEF Items
<1>3. /\ \A k \in Stores : FilesOf(p, k) \subseteq All(p)
      /\ All(p) = FilesOf(p, "src") \cup FilesOf(p, "thm")
  BY DEF All, FilesOf, Stores
<1>4. QED
  BY <1>1, <1>2, <1>3

\* One file is put elsewhere.
LEMMA WherePut ==
    ASSUME CommitInv, NEW p \in Posts, NEW w \in [All(p) -> Places],
           where' = [where EXCEPT ![p] = w]
    PROVE  /\ where' \in [Posts -> UNION {[All(q) -> Places] : q \in Posts}]
           /\ \A q \in Posts : where'[q] \in [All(q) -> Places]
           /\ where'[p] = w
           /\ \A q \in Posts \ {p} : where'[q] = where[q]
<1>1. /\ where \in [Posts -> UNION {[All(q) -> Places] : q \in Posts}]
      /\ \A q \in Posts : where[q] \in [All(q) -> Places]
  BY DEF CommitInv, TypeOK
<1>2. w \in UNION {[All(q) -> Places] : q \in Posts}
  OBVIOUS
<1>3. QED
  BY <1>1, <1>2

\* A post without files has no thumbnails either.
LEMMA NoFiles ==
    ASSUME NEW p \in Posts, ~HasFiles(p)
    PROVE  All(p) = {} /\ \A k \in Stores : FilesOf(p, k) = {}
BY PostAssumption DEF HasFiles, All, FilesOf

\* While TP is at work PA waits, and nothing is committed.
LEMMA Early ==
    ASSUME NEW p \in Posts, PostOK(p), ~DoneTP(p), pa[p] \in {"none", "wait", "link", "end"},
           tp[p] \in [Stores -> {"none", "new", "move", "end"}]
    PROVE  p \notin rows /\ pa[p] \notin {"link", "end"} /\ pc[p] \notin {"idle", "commit"}
<1>1. p \notin rows /\ pa[p] \notin {"link", "end"}
  BY DEF PostOK, RowOK, LinkedOK
<1>2. pc[p] # "idle"
  BY DEF PostOK, CommitOK, DoneTP
<1>3. pc[p] # "commit"
  <2>1. SUFFICES ASSUME pc[p] = "commit"
                 PROVE  FALSE
    OBVIOUS
  <2>2. pa[p] = "none"
    BY <1>1, <2>1 DEF PostOK, CommitOK, DonePA
  <2>3. ~HasFiles(p)
    BY <2>1, <2>2 DEF PostOK, CommitOK
  <2>4. \A k \in Stores : FilesOf(p, k) = {}
    BY <2>3, NoFiles
  <2>5. \A k \in Stores : tp[p][k] = "none"
    BY <2>4 DEF PostOK, MovedOK
  <2>6. QED
    BY <2>5 DEF DoneTP
<1>4. QED
  BY <1>1, <1>2, <1>3
-----------------------------------------------------------------------------
(***************************************************************************)
(* TP.                                                                     *)
(***************************************************************************)

\* spawn_TP begins with the post.
LEMMA SpawnTPStep ==
    ASSUME CommitInv, NEW p \in Posts, SpawnTP(p)
    PROVE  CommitInv'
<1> DEFINE new == [k \in Stores |-> IF FilesOf(p, k) # {} THEN "new" ELSE "none"]
<1>1. /\ pc[p] = "idle" /\ pc' = [pc EXCEPT ![p] = "begin"]
      /\ tp' = [tp EXCEPT ![p] = new]
      /\ UNCHANGED <<rows, cnt, queue, locked, stale, where, active, dirs, synced, retry, soft,
                     werr, pa, todo, faults, crashed>>
  BY DEF SpawnTP, Goto, db, disk
<1>2. TypeOK'
  <2>1. new \in [Stores -> {"none", "new", "move", "end"}]
    OBVIOUS
  <2>2. QED
    BY <1>1, <2>1 DEF CommitInv, TypeOK
<1>3. /\ pc'[p] = "begin" /\ tp'[p] = new
      /\ \A q \in Posts \ {p} : Apart(q)
  BY <1>1 DEF CommitInv, TypeOK, Apart
<1>4. PostOK(p)'
  <2>1. pa[p] = "none" /\ p \notin rows
    BY <1>1, PartTypes DEF PostOK, CommitOK
  <2>2. MovedOK(p)'
    <3>1. \A k \in Stores : \A i \in FilesOf(p, k) : where'[p][i] = "upload"
      BY <1>1, PartTypes DEF PostOK, CommitOK
    <3>2. \A k \in Stores : tp'[p][k] = IF FilesOf(p, k) # {} THEN "new" ELSE "none"
      BY <1>3
    <3>3. QED
      BY <1>3, <3>1, <3>2 DEF MovedOK
  <2>3. LinkedOK(p)' /\ CommitOK(p)' /\ RowOK(p)'
    BY <1>1, <1>3, <2>1 DEF LinkedOK, CommitOK, RowOK, DonePA
  <2>4. QED
    BY <2>2, <2>3 DEF PostOK
<1>5. \A q \in Posts : PostOK(q)'
  BY <1>1, <1>3, <1>4, OthersOK
<1>6. LocksOK' /\ CountsExact' /\ Tracked'
  BY <1>1, <1>3, BooksKept DEF Apart
<1>7. QED
  BY <1>2, <1>5, <1>6 DEF CommitInv

\* A directory is made, or all files of one have moved: the goroutine goes on.
LEMMA MovingStep ==
    ASSUME CommitInv, NEW p \in Posts, NEW k \in Stores, MakeDir(p, k) \/ SyncDirs(p, k)
    PROVE  CommitInv'
<1>1. /\ UNCHANGED <<rows, cnt, queue, locked, stale, where, active, pc, retry, soft, pa, todo,
                     crashed>>
      /\ tp[p][k] \in {"new", "move"}
      /\ faults' \in 0 .. MaxFaults
  BY PostAssumption DEF CommitInv, TypeOK, MakeDir, SyncDirs, Fault, db, main
<1>2. \/ /\ werr' = werr /\ tp' = [tp EXCEPT ![p][k] = "move"]
      \/ /\ werr' = [werr EXCEPT ![p] = TRUE] /\ tp' = [tp EXCEPT ![p][k] = "end"]
      \/ /\ tp[p][k] = "move" /\ \A i \in FilesOf(p, k) : where[p][i] # "upload"
         /\ werr' = werr /\ tp' = [tp EXCEPT ![p][k] = "end"]
  BY DEF MakeDir, SyncDirs
<1>3. /\ synced' \in {synced, [synced EXCEPT ![p] = @ \cup {k}]}
      /\ dirs' \in {dirs, [dirs EXCEPT ![p] = @ \cup {k}]}
  BY DEF MakeDir, SyncDirs
<1>4. /\ tp[p] \in [Stores -> {"none", "new", "move", "end"}] /\ werr[p] \in BOOLEAN
      /\ PostOK(p) /\ ~DoneTP(p)
  BY <1>1, PartTypes DEF DoneTP
<1>5. /\ tp' \in [Posts -> [Stores -> {"none", "new", "move", "end"}]]
      /\ \A q \in Posts \ {p} : tp'[q] = tp[q]
      /\ \A j \in Stores \ {k} : tp'[p][j] = tp[p][j]
      /\ tp'[p][k] = "move" \/ (tp'[p][k] = "end" /\ (werr'[p] \/ tp[p][k] = "move"))
  <2>1. tp \in [Posts -> [Stores -> {"none", "new", "move", "end"}]]
    BY DEF CommitInv, TypeOK
  <2>2. CASE tp' = [tp EXCEPT ![p][k] = "move"]
    BY <2>1, <2>2
  <2>3. CASE tp' = [tp EXCEPT ![p][k] = "end"] /\ (werr'[p] \/ tp[p][k] = "move")
    BY <2>1, <2>3
  <2>4. werr \in [Posts -> BOOLEAN]
    BY DEF CommitInv, TypeOK
  <2>5. QED
    BY <1>2, <2>2, <2>3, <2>4
<1>6. /\ werr' \in [Posts -> BOOLEAN] /\ (werr[p] => werr'[p])
      /\ \A q \in Posts \ {p} : werr'[q] = werr[q]
  BY <1>2 DEF CommitInv, TypeOK
<1>7. /\ synced' \in [Posts -> SUBSET Stores] /\ dirs' \in [Posts -> SUBSET Stores]
      /\ \A q \in Posts \ {p} : synced'[q] = synced[q]
  <2>1. synced \in [Posts -> SUBSET Stores] /\ dirs \in [Posts -> SUBSET Stores]
    BY DEF CommitInv, TypeOK
  <2>2. synced' \in [Posts -> SUBSET Stores] /\ \A q \in Posts \ {p} : synced'[q] = synced[q]
    BY <1>3, <2>1
  <2>3. dirs' \in [Posts -> SUBSET Stores]
    BY <1>3, <2>1
  <2>4. QED
    BY <2>2, <2>3
<1>8. TypeOK'
  BY <1>1, <1>5, <1>6, <1>7 DEF CommitInv, TypeOK
<1>9. \A q \in Posts \ {p} : Apart(q)
  BY <1>1, <1>5, <1>6, <1>7 DEF Apart
<1>10. /\ p \notin rows /\ pa[p] \notin {"link", "end"} /\ pc[p] \notin {"idle", "commit"}
  BY <1>4, PartTypes, Early
<1>11. PostOK(p)'
  <2>1. MovedOK(p)'
    <3>1. ASSUME ~werr'[p], NEW i \in FilesOf(p, k)
          PROVE  IF tp'[p][k] = "end" THEN where[p][i] \in {"pending", "removed"}
                                      ELSE where[p][i] \in {"upload", "pending", "removed"}
      <4>1. where[p][i] \in {"upload", "pending", "removed"}
        BY <1>1, <1>4, <1>6, <3>1 DEF PostOK, MovedOK
      <4>2. werr \in [Posts -> BOOLEAN]
        BY DEF CommitInv, TypeOK
      <4>3. tp'[p][k] = "end" => where[p][i] # "upload"
        BY <1>1, <1>2, <1>5, <1>6, <3>1, <4>2
      <4>4. QED
        BY <4>1, <4>3
    <3>2. FilesOf(p, k) # {}
      BY <1>1, <1>4 DEF PostOK, MovedOK
    <3>3. \A j \in Stores \ {k} : /\ FilesOf(p, j) = {} => tp'[p][j] = "none"
                                  /\ tp'[p][j] = "none" => tp[p][j] = "none"
      BY <1>4, <1>5 DEF PostOK, MovedOK
    <3>4. ~werr'[p] => \A j \in Stores \ {k} : \A i \in FilesOf(p, j) :
            /\ tp'[p][j] \in {"new", "move"} => where[p][i] \in {"upload", "pending", "removed"}
            /\ tp'[p][j] = "end" => where[p][i] \in {"pending", "removed"}
      BY <1>4, <1>5, <1>6 DEF PostOK, MovedOK
    <3>5. pc[p] \in {"begin", "insert", "spawn", "refs", "files", "commit", "rollback", "drain"}
      BY <1>4 DEF PostOK, MovedOK
    <3>6. pc[p] \in {"begin", "insert", "spawn", "refs", "files", "commit", "rollback"} =>
            \A j \in Stores : tp'[p][j] = "none" => FilesOf(p, j) = {}
      BY <1>4, <1>5 DEF PostOK, MovedOK
    <3>7. \A j \in Stores : FilesOf(p, j) = {} => tp'[p][j] = "none"
      BY <3>2, <3>3
    <3>8. ~werr'[p] => \A j \in Stores : \A i \in FilesOf(p, j) :
            /\ tp'[p][j] \in {"new", "move"} => where'[p][i] \in {"upload", "pending", "removed"}
            /\ tp'[p][j] = "end" => where'[p][i] \in {"pending", "removed"}
      <4>1. SUFFICES ASSUME ~werr'[p], NEW j \in Stores, NEW i \in FilesOf(p, j)
                     PROVE  /\ tp'[p][j] \in {"new", "move"} =>
                                  where[p][i] \in {"upload", "pending", "removed"}
                            /\ tp'[p][j] = "end" => where[p][i] \in {"pending", "removed"}
        BY <1>1
      <4>2. CASE j = k
        BY <3>1, <4>1, <4>2
      <4>3. CASE j # k
        BY <3>4, <4>1, <4>3
      <4>4. QED
        BY <4>2, <4>3
    <3>9. QED
      BY <1>1, <3>5, <3>6, <3>7, <3>8 DEF MovedOK
  <2>2. LinkedOK(p)' /\ CommitOK(p)' /\ RowOK(p)'
    BY <1>1, <1>4, <1>10 DEF PostOK, LinkedOK, CommitOK, RowOK, DonePA
  <2>3. QED
    BY <2>1, <2>2 DEF PostOK
<1>12. \A q \in Posts : PostOK(q)'
  BY <1>1, <1>9, <1>11, OthersOK
<1>13. LocksOK' /\ CountsExact' /\ Tracked'
  BY <1>1, BooksKept
<1>14. QED
  BY <1>8, <1>12, <1>13 DEF CommitInv

\* A file moves, or cannot be moved.
LEMMA MoveStep ==
    ASSUME CommitInv, NEW p \in Posts, NEW k \in Stores, NEW i \in FilesOf(p, k), Move(p, k, i)
    PROVE  CommitInv'
<1>1. /\ UNCHANGED <<rows, cnt, queue, locked, stale, active, dirs, synced, pc, retry, soft, tp,
                     pa, todo, crashed>>
      /\ tp[p][k] = "move" /\ where[p][i] = "upload"
      /\ faults' \in 0 .. MaxFaults
  BY PostAssumption DEF CommitInv, TypeOK, Move, Fault, db, main
<1>2. PICK place \in {"pending", "unmoved"} :
         /\ where' = [where EXCEPT ![p][i] = place]
         /\ werr' = IF place = "unmoved" THEN [werr EXCEPT ![p] = TRUE] ELSE werr
  BY DEF Move
<1>3. /\ where[p] \in [All(p) -> Places] /\ i \in All(p)
      /\ \A j \in Stores : FilesOf(p, j) \subseteq All(p)
      /\ tp[p] \in [Stores -> {"none", "new", "move", "end"}] /\ werr[p] \in BOOLEAN
      /\ PostOK(p) /\ ~DoneTP(p)
  BY <1>1, PartTypes DEF DoneTP
<1> DEFINE w == [where[p] EXCEPT ![i] = place]
<1>4. /\ where' \in [Posts -> UNION {[All(q) -> Places] : q \in Posts}]
      /\ \A q \in Posts : where'[q] \in [All(q) -> Places]
      /\ where'[p] = w
      /\ \A q \in Posts \ {p} : where'[q] = where[q]
  <2>1. w \in [All(p) -> Places]
    BY <1>3 DEF Places
  <2>2. where' = [where EXCEPT ![p] = w]
    BY <1>2
  <2>3. QED
    BY <2>1, <2>2, WherePut
<1>5. /\ werr' \in [Posts -> BOOLEAN] /\ (werr[p] => werr'[p])
      /\ place = "unmoved" => werr'[p]
      /\ \A q \in Posts \ {p} : werr'[q] = werr[q]
  BY <1>2 DEF CommitInv, TypeOK
<1>6. TypeOK'
  BY <1>1, <1>4, <1>5 DEF CommitInv, TypeOK
<1>7. \A q \in Posts \ {p} : Apart(q)
  BY <1>1, <1>4, <1>5 DEF Apart
<1>8. p \notin rows /\ pa[p] \notin {"link", "end"} /\ pc[p] \notin {"idle", "commit"}
  BY <1>3, PartTypes, Early
<1>9. PostOK(p)'
  <2>1. ~werr'[p] => ~werr[p] /\ \A j \in All(p) : where'[p][j] = where[p][j] \/ where'[p][j] = "pending"
    BY <1>3, <1>4, <1>5
  <2>2. MovedOK(p)'
    BY <1>1, <1>3, <2>1 DEF PostOK, MovedOK, DoneTP
  <2>3. LinkedOK(p)' /\ CommitOK(p)' /\ RowOK(p)'
    BY <1>1, <1>3, <1>8 DEF PostOK, LinkedOK, CommitOK, RowOK, DonePA
  <2>4. QED
    BY <2>2, <2>3 DEF PostOK
<1>10. \A q \in Posts : PostOK(q)'
  BY <1>1, <1>7, <1>9, OthersOK
<1>11. LocksOK' /\ CountsExact' /\ Tracked'
  BY <1>1, BooksKept
<1>12. QED
  BY <1>6, <1>10, <1>11 DEF CommitInv
-----------------------------------------------------------------------------
(***************************************************************************)
(* PA.                                                                     *)
(***************************************************************************)

\* PA waits for TP, links, and ends.
LEMMA LinkingStep ==
    ASSUME CommitInv, NEW p \in Posts,
           StartPA(p) \/ EndPA(p) \/ \E i \in All(p) : Link(p, i)
    PROVE  CommitInv'
<1>1. /\ UNCHANGED <<rows, cnt, queue, locked, stale, where, dirs, synced, pc, retry, soft, tp,
                     crashed>>
      /\ pa[p] \in {"wait", "link"}
      /\ faults' \in 0 .. MaxFaults
  BY PostAssumption DEF CommitInv, TypeOK, StartPA, EndPA, Link, Fault, db, disk, main
<1>2. /\ tp[p] \in [Stores -> {"none", "new", "move", "end"}] /\ werr[p] \in BOOLEAN
      /\ All(p) \in SUBSET Items /\ todo[p] \in SUBSET Items
      /\ PostOK(p)
  BY PartTypes
<1>3. /\ pa \in [Posts -> {"none", "wait", "link", "end"}] /\ todo \in [Posts -> SUBSET Items]
      /\ werr \in [Posts -> BOOLEAN] /\ active \subseteq Items
  BY DEF CommitInv, TypeOK
<1>4. /\ p \notin rows
      /\ pc[p] \in {"begin", "insert", "spawn", "refs", "files", "rollback", "drain"}
  BY <1>1, <1>2 DEF PostOK, RowOK, LinkedOK, DonePA
<1>5. ASSUME pa' \in [Posts -> {"none", "wait", "link", "end"}], todo' \in [Posts -> SUBSET Items],
             werr' \in [Posts -> BOOLEAN], active' \subseteq Items, active \subseteq active',
             \A q \in Posts \ {p} : pa'[q] = pa[q] /\ todo'[q] = todo[q] /\ werr'[q] = werr[q],
             werr[p] => werr'[p],
             pa'[p] \in {"link", "end"} /\ DoneTP(p),
             ~werr'[p] => IF pa'[p] = "link" THEN All(p) \ todo'[p] \subseteq active'
                                             ELSE All(p) \subseteq active',
             active' \subseteq active \cup All(p)
      PROVE  CommitInv'
  <2>1. TypeOK'
    BY <1>1, <1>5 DEF CommitInv, TypeOK
  <2>2. \A q \in Posts \ {p} : Apart(q)
    BY <1>1, <1>5 DEF Apart
  <2>3. LinkedOK(p)'
    BY <1>1, <1>4, <1>5 DEF LinkedOK, DoneTP
  <2>4. MovedOK(p)' /\ CommitOK(p)' /\ RowOK(p)'
    BY <1>1, <1>2, <1>4, <1>5 DEF PostOK, MovedOK, CommitOK, RowOK, DoneTP
  <2>5. \A q \in Posts : PostOK(q)'
    BY <1>1, <1>5, <2>2, <2>3, <2>4, OthersOK DEF PostOK
  <2>6. LocksOK' /\ CountsExact'
    BY <1>1 DEF CommitInv, LocksOK, CountsExact
  <2>7. Tracked'
    BY <1>1, <1>4, <1>5 DEF CommitInv, Tracked
  <2>8. QED
    BY <2>1, <2>5, <2>6, <2>7 DEF CommitInv
<1>6. CASE StartPA(p)
  <2>1. CASE werr[p]
    BY <1>2, <1>3, <1>5, <1>6, <2>1 DEF StartPA, disk
  <2>2. CASE ~werr[p]
    BY <1>2, <1>3, <1>5, <1>6, <2>2 DEF StartPA, disk
  <2>3. QED
    BY <2>1, <2>2
<1>7. CASE EndPA(p)
  BY <1>2, <1>3, <1>5, <1>7 DEF EndPA, disk, PostOK, LinkedOK
<1>8. ASSUME NEW i \in All(p), Link(p, i)
      PROVE  CommitInv'
  <2>1. /\ pa[p] = "link" /\ DoneTP(p) /\ UNCHANGED pa
        /\ todo' = [todo EXCEPT ![p] = @ \ {i}]
    BY <1>2, <1>8 DEF Link, PostOK, LinkedOK
  <2>2. ~werr[p] => All(p) \ todo[p] \subseteq active
    BY <1>2, <2>1 DEF PostOK, LinkedOK
  <2>3. CASE active' = active \cup {i} /\ UNCHANGED werr
    BY <1>2, <1>3, <1>5, <2>1, <2>2, <2>3
  <2>4. CASE active' = active /\ werr' = [werr EXCEPT ![p] = TRUE]
    BY <1>2, <1>3, <1>5, <2>1, <2>2, <2>4
  <2>5. QED
    BY <1>8, <2>3, <2>4 DEF Link
<1>9. QED
  BY <1>6, <1>7, <1>8
-----------------------------------------------------------------------------
(***************************************************************************)
(* The transaction.                                                        *)
(***************************************************************************)

Working == {"begin", "insert", "spawn", "refs", "files", "commit", "rollback", "drain"}

\* What the steps before the end of the transaction have in common.
LEMMA TurnStep ==
    ASSUME CommitInv, NEW p \in Posts, NEW label \in Working \cup {"clean"},
           pc[p] \in Working, pc' = [pc EXCEPT ![p] = label],
           UNCHANGED <<rows, cnt, queue, where, active, dirs, synced, werr, tp, todo, crashed>>,
           retry' \in {retry, [retry EXCEPT ![p] = TRUE], [retry EXCEPT ![p] = FALSE]},
           pa' \in {pa, [pa EXCEPT ![p] = "wait"]},
           locked' \in {locked, [locked EXCEPT ![p] = {}], [locked EXCEPT ![p] = All(p)]},
           stale' \subseteq Posts, soft' \in [Posts -> 0 .. MaxRetries], faults' \in 0 .. MaxFaults,
           label \in {"spawn", "refs", "files", "commit"} => locked'[p] = All(p),
           \A q \in Posts \ {p} : locked'[p] \cap locked[q] = {},
           PostOK(p)'
    PROVE  CommitInv'
<1>1. /\ pc \in [Posts -> Working \cup {"idle", "clean", "tidy", "failed", "done", "dead"}]
      /\ retry \in [Posts -> BOOLEAN] /\ pa \in [Posts -> {"none", "wait", "link", "end"}]
      /\ locked \in [Posts -> SUBSET Items]
  BY DEF CommitInv, TypeOK, Working
<1>2. /\ pc' \in [Posts -> Working \cup {"idle", "clean", "tidy", "failed", "done", "dead"}]
      /\ pc'[p] = label /\ \A q \in Posts \ {p} : pc'[q] = pc[q]
  BY <1>1
<1>3. retry' \in [Posts -> BOOLEAN] /\ \A q \in Posts \ {p} : retry'[q] = retry[q]
  BY <1>1
<1>4. /\ pa' \in [Posts -> {"none", "wait", "link", "end"}]
      /\ \A q \in Posts \ {p} : pa'[q] = pa[q]
  BY <1>1
<1>5. locked' \in [Posts -> SUBSET Items] /\ \A q \in Posts \ {p} : locked'[q] = locked[q]
  <2>1. All(p) \in SUBSET Items
    BY PartTypes
  <2>2. QED
    BY <1>1, <2>1
<1>6. TypeOK'
  BY <1>2, <1>3, <1>4, <1>5 DEF CommitInv, TypeOK, Working
<1>7. \A q \in Posts \ {p} : Apart(q)
  BY <1>2, <1>3, <1>4 DEF Apart
<1>8. \A q \in Posts : PostOK(q)'
  BY <1>7, OthersOK
<1>9. LocksOK'
  <2>1. ASSUME NEW q \in Posts, pc'[q] \in {"spawn", "refs", "files", "commit"}
        PROVE  locked'[q] = All(q)
    BY <1>2, <1>5, <2>1 DEF CommitInv, LocksOK
  <2>2. ASSUME NEW q \in Posts, NEW r \in Posts, q # r
        PROVE  locked'[q] \cap locked'[r] = {}
    <3>1. CASE q # p /\ r # p
      BY <1>5, <2>2, <3>1 DEF CommitInv, LocksOK
    <3>2. CASE q = p
      BY <1>5, <2>2, <3>2
    <3>3. CASE r = p
      <4>1. locked'[p] \cap locked'[q] = {}
        BY <1>5, <2>2, <3>3
      <4>2. QED
        BY <3>3, <4>1
    <3>4. QED
      BY <3>1, <3>2, <3>3
  <2>3. QED
    BY <2>1, <2>2 DEF LocksOK
<1>10. CountsExact' /\ Tracked'
  <2>1. CountsExact'
    BY DEF CommitInv, CountsExact
  <2>2. \A q \in Posts : pc[q] \notin {"idle", "tidy", "done"} => pc'[q] \notin {"idle", "tidy", "done"}
    BY <1>2 DEF Working
  <2>3. Tracked'
    BY <2>2 DEF CommitInv, Tracked
  <2>4. QED
    BY <2>1, <2>3
<1>11. QED
  BY <1>6, <1>8, <1>9, <1>10 DEF CommitInv

\* A post whose transaction goes on, as far as its files are concerned.
LEMMA OnwardOK ==
    ASSUME NEW p \in Posts, PostOK(p), pc[p] \in Working, pc'[p] \in Working \cup {"clean"},
           UNCHANGED <<rows, where, active, synced, werr, tp, todo, pa, crashed>>,
           pc[p] = "drain" => pc'[p] \in {"clean", "drain"},
           pc'[p] = "clean" => DoneTP(p) /\ DonePA(p),
           pc'[p] = "commit" => DonePA(p),
           CommitOK(p)'
    PROVE  PostOK(p)'
<1> USE DEF Working
<1>1. MovedOK(p)'
  BY DEF PostOK, MovedOK, DoneTP
<1>2. LinkedOK(p)'
  BY DEF PostOK, LinkedOK, DoneTP, DonePA
<1>3. RowOK(p)'
  BY DEF PostOK, RowOK, DoneTP, DonePA, Running
<1>4. QED
  BY <1>1, <1>2, <1>3 DEF PostOK

\* The types of the counters of the loop.
LEMMA LoopTypes ==
    ASSUME CommitInv, NEW p \in Posts
    PROVE  /\ pc \in [Posts -> Working \cup {"idle", "clean", "tidy", "failed", "done", "dead"}]
           /\ retry \in [Posts -> BOOLEAN] /\ soft \in [Posts -> 0 .. MaxRetries]
           /\ locked \in [Posts -> SUBSET Items] /\ stale \subseteq Posts
           /\ faults \in 0 .. MaxFaults
           /\ \A q \in Posts \ {p} : locked[p] \cap locked[q] = {}
           /\ pc[p] \in {"spawn", "refs", "files", "commit"} => locked[p] = All(p)
BY DEF CommitInv, TypeOK, Working, LocksOK

\* BeginTx, and the statements that run without the files.
LEMMA StatementStep ==
    ASSUME CommitInv, NEW p \in Posts, Begin(p) \/ Insert(p) \/ Refs(p)
    PROVE  CommitInv'
<1>1. /\ UNCHANGED <<rows, cnt, queue, where, active, dirs, synced, soft, werr, tp, pa, todo,
                     crashed>>
      /\ stale' \in {stale, stale \ {p}}
      /\ faults' \in 0 .. MaxFaults
  <2>1. faults \in 0 .. MaxFaults
    BY LoopTypes
  <2>2. faults' \in {faults} \/ (faults < MaxFaults /\ faults' = faults + 1)
    BY DEF Begin, Insert, Refs, SqlFails, Conflict, Fault
  <2>3. faults' \in 0 .. MaxFaults
    BY <2>1, <2>2, PostAssumption
  <2>4. QED
    BY <2>3 DEF Begin, Insert, Refs, db, disk, work
<1>2. \/ /\ pc[p] \in {"begin", "insert", "refs"}
         /\ pc' = [pc EXCEPT ![p] = "rollback"]
         /\ retry' \in {[retry EXCEPT ![p] = TRUE], [retry EXCEPT ![p] = FALSE]}
         /\ locked' = locked
      \/ /\ pc[p] = "begin" /\ pc' = [pc EXCEPT ![p] = "insert"]
         /\ retry' = retry /\ locked' = locked
      \/ /\ pc[p] = "refs" /\ pc' = [pc EXCEPT ![p] = "files"]
         /\ retry' = retry /\ locked' = locked
      \/ /\ pc[p] = "insert" /\ pc' = [pc EXCEPT ![p] = "spawn"]
         /\ retry' = retry /\ locked' = [locked EXCEPT ![p] = All(p)]
         /\ \A q \in Posts \ {p} : locked[q] \cap All(p) = {}
  <2>1. CASE Begin(p)
    BY <2>1 DEF Begin, SqlFails, Fail, Goto
  <2>2. CASE Insert(p)
    BY <2>2 DEF Insert, SqlFails, Fail, Goto
  <2>3. CASE Refs(p)
    BY <2>3 DEF Refs, SqlFails, Conflict, Fail, Goto, db
  <2>4. QED
    BY <2>1, <2>2, <2>3
<1>3. /\ PostOK(p) /\ p \notin rows
      /\ pc[p] \in {"begin", "insert", "refs"}
      /\ pc'[p] \in {"rollback", "insert", "files", "spawn"}
      /\ pc'[p] = "files" => pc[p] = "refs"
  BY <1>2, PartTypes, LoopTypes DEF PostOK, CommitOK
<1>4. PostOK(p)'
  <2>1. CommitOK(p)'
    BY <1>1, <1>3 DEF PostOK, CommitOK
  <2>2. QED
    BY <1>1, <1>3, <2>1, OnwardOK DEF Working
<1>5. locked \in [Posts -> SUBSET Items] /\ \A q \in Posts \ {p} : locked[p] \cap locked[q] = {}
  BY LoopTypes
<1>6. stale' \subseteq Posts /\ soft' \in [Posts -> 0 .. MaxRetries]
  BY <1>1, LoopTypes
<1>7. CASE pc' = [pc EXCEPT ![p] = "rollback"] /\ locked' = locked
           /\ retry' \in {[retry EXCEPT ![p] = TRUE], [retry EXCEPT ![p] = FALSE]}
  BY <1>1, <1>3, <1>4, <1>5, <1>6, <1>7, TurnStep DEF Working
<1>8. CASE pc' = [pc EXCEPT ![p] = "insert"] /\ locked' = locked /\ retry' = retry
  BY <1>1, <1>3, <1>4, <1>5, <1>6, <1>8, TurnStep DEF Working
<1>9. CASE pc[p] = "refs" /\ pc' = [pc EXCEPT ![p] = "files"] /\ locked' = locked /\ retry' = retry
  <2>1. locked[p] = All(p)
    BY <1>9, LoopTypes
  <2>2. QED
    BY <1>1, <1>3, <1>4, <1>5, <1>6, <1>9, <2>1, TurnStep DEF Working
<1>10. CASE /\ pc' = [pc EXCEPT ![p] = "spawn"] /\ retry' = retry
            /\ locked' = [locked EXCEPT ![p] = All(p)]
            /\ \A q \in Posts \ {p} : locked[q] \cap All(p) = {}
  <2>1. locked'[p] = All(p)
    BY <1>5, <1>10
  <2>2. \A q \in Posts \ {p} : locked'[p] \cap locked[q] = {}
    BY <1>10, <2>1
  <2>3. QED
    BY <1>1, <1>3, <1>4, <1>6, <1>10, <2>1, <2>2, TurnStep DEF Working
<1>11. QED
  BY <1>2, <1>7, <1>8, <1>9, <1>10

\* PA is begun when there is none at work.
LEMMA SpawnPAStep ==
    ASSUME CommitInv, NEW p \in Posts, SpawnPA(p)
    PROVE  CommitInv'
<1>1. /\ pc[p] = "spawn" /\ DonePA(p)
      /\ pc' = [pc EXCEPT ![p] = "refs"]
      /\ pa' = [pa EXCEPT ![p] = IF HasFiles(p) THEN "wait" ELSE @]
      /\ UNCHANGED <<rows, cnt, queue, locked, stale, where, active, dirs, synced, retry, soft,
                     werr, tp, todo, faults, crashed>>
  BY DEF SpawnPA, Goto, db, disk
<1>2. /\ pa \in [Posts -> {"none", "wait", "link", "end"}] /\ PostOK(p)
      /\ locked[p] = All(p)
      /\ \A q \in Posts \ {p} : locked[p] \cap locked[q] = {}
      /\ pc'[p] = "refs"
  BY <1>1, PartTypes, LoopTypes DEF CommitInv, TypeOK
<1>3. /\ pa' \in {pa, [pa EXCEPT ![p] = "wait"]}
      /\ pa'[p] = IF HasFiles(p) THEN "wait" ELSE pa[p]
  BY <1>1, <1>2
<1>4. p \notin rows
  BY <1>1, <1>2 DEF PostOK, CommitOK
<1>5. PostOK(p)'
  <2>1. MovedOK(p)'
    BY <1>1, <1>2 DEF PostOK, MovedOK, DoneTP
  <2>2. LinkedOK(p)'
    BY <1>1, <1>2, <1>3 DEF PostOK, LinkedOK, DoneTP, DonePA
  <2>3. CommitOK(p)' /\ RowOK(p)'
    BY <1>1, <1>2, <1>3, <1>4 DEF CommitOK, RowOK
  <2>4. QED
    BY <2>1, <2>2, <2>3 DEF PostOK
<1>6. soft' \in [Posts -> 0 .. MaxRetries] /\ faults' \in 0 .. MaxFaults /\ stale' \subseteq Posts
  BY <1>1, LoopTypes
<1>7. QED
  BY <1>1, <1>2, <1>3, <1>5, <1>6, TurnStep DEF Working

\* The wait for PA; a commit that fails; Rollback; the wait after an error.
LEMMA EndingStep ==
    ASSUME CommitInv, NEW p \in Posts,
           \/ AwaitFiles(p) \/ Rollback(p) \/ Drain(p)
           \/ /\ Commit(p)
              /\ SqlFails(p) \/ Conflict(p)
              /\ UNCHANGED <<rows, cnt, locked, stale>>
    PROVE  CommitInv'
<1>1. /\ UNCHANGED <<rows, cnt, queue, stale, where, active, dirs, synced, werr, tp, pa, todo,
                     crashed>>
      /\ faults' \in 0 .. MaxFaults
  <2>1. faults \in 0 .. MaxFaults
    BY LoopTypes
  <2>2. faults' \in {faults} \/ (faults < MaxFaults /\ faults' = faults + 1)
    BY DEF AwaitFiles, Rollback, Drain, SqlFails, Conflict, Fault
  <2>3. faults' \in 0 .. MaxFaults
    BY <2>1, <2>2, PostAssumption
  <2>4. QED
    BY <2>3 DEF AwaitFiles, Rollback, Drain, Commit, db, disk, work
<1>2. /\ pc \in [Posts -> Working \cup {"idle", "clean", "tidy", "failed", "done", "dead"}]
      /\ retry \in [Posts -> BOOLEAN] /\ soft \in [Posts -> 0 .. MaxRetries]
      /\ locked \in [Posts -> SUBSET Items] /\ stale' \subseteq Posts
      /\ \A q \in Posts \ {p} : locked[p] \cap locked[q] = {}
      /\ PostOK(p) /\ werr[p] \in BOOLEAN
  BY <1>1, PartTypes, LoopTypes
<1>3. CASE /\ pc[p] \in {"files", "commit"} /\ pc' = [pc EXCEPT ![p] = "rollback"]
           /\ retry' \in {[retry EXCEPT ![p] = TRUE], [retry EXCEPT ![p] = FALSE]}
           /\ UNCHANGED <<soft, locked>>
  <2>1. p \notin rows /\ pc'[p] = "rollback"
    BY <1>2, <1>3 DEF PostOK, CommitOK
  <2>2. CommitOK(p)'
    BY <1>1, <2>1 DEF CommitOK
  <2>3. PostOK(p)'
    BY <1>1, <1>2, <1>3, <2>1, <2>2, OnwardOK DEF Working
  <2>4. QED
    BY <1>1, <1>2, <1>3, <2>3, TurnStep DEF Working
<1>4. CASE /\ pc[p] = "files" /\ DonePA(p) /\ ~werr[p] /\ pc' = [pc EXCEPT ![p] = "commit"]
           /\ UNCHANGED <<soft, locked, retry>>
  <2>1. p \notin rows /\ pc'[p] = "commit" /\ locked[p] = All(p)
    BY <1>2, <1>4, LoopTypes DEF PostOK, CommitOK
  <2>2. CommitOK(p)'
    BY <1>1, <1>2, <1>4, <2>1 DEF PostOK, CommitOK, DonePA
  <2>3. PostOK(p)'
    BY <1>1, <1>2, <1>4, <2>1, <2>2, OnwardOK DEF Working
  <2>4. QED
    BY <1>1, <1>2, <1>4, <2>1, <2>3, TurnStep DEF Working
<1>5. CASE Rollback(p)
  <2>1. /\ pc[p] = "rollback" /\ retry' = retry
        /\ locked' = [locked EXCEPT ![p] = {}]
        /\ \/ /\ retry[p] /\ soft[p] < MaxRetries
              /\ pc' = [pc EXCEPT ![p] = "begin"] /\ soft' = [soft EXCEPT ![p] = @ + 1]
           \/ pc' = [pc EXCEPT ![p] = "drain"] /\ soft' = soft
    BY <1>5 DEF Rollback, Goto
  <2>2. locked'[p] = {} /\ pc'[p] \in {"begin", "drain"} /\ (pc'[p] = "begin" => p \notin rows)
    BY <1>2, <2>1 DEF PostOK, CommitOK
  <2>3. soft' \in [Posts -> 0 .. MaxRetries]
    BY <1>2, <2>1, PostAssumption
  <2>4. CommitOK(p)'
    BY <1>1, <1>2, <2>1, <2>2 DEF PostOK, CommitOK
  <2>5. PostOK(p)'
    BY <1>1, <1>2, <2>1, <2>2, <2>4, OnwardOK DEF Working
  <2>6. CASE pc' = [pc EXCEPT ![p] = "begin"]
    BY <1>1, <1>2, <2>1, <2>2, <2>3, <2>5, <2>6, TurnStep DEF Working
  <2>7. CASE pc' = [pc EXCEPT ![p] = "drain"]
    BY <1>1, <1>2, <2>1, <2>2, <2>3, <2>5, <2>7, TurnStep DEF Working
  <2>8. QED
    BY <2>1, <2>6, <2>7
<1>6. CASE Drain(p)
  <2>1. /\ pc[p] = "drain" /\ DoneTP(p) /\ DonePA(p)
        /\ pc' = [pc EXCEPT ![p] = "clean"]
        /\ UNCHANGED <<locked, retry, soft>>
    BY <1>6 DEF Drain, Goto, db
  <2>2. pc'[p] = "clean"
    BY <1>2, <2>1
  <2>3. CommitOK(p)'
    BY <1>1, <2>2 DEF CommitOK
  <2>4. PostOK(p)'
    BY <1>1, <1>2, <2>1, <2>2, <2>3, OnwardOK DEF Working
  <2>5. QED
    BY <1>1, <1>2, <2>1, <2>4, TurnStep DEF Working
<1>7. QED
  <2>1. CASE AwaitFiles(p)
    <3>1. CASE werr[p]
      BY <1>3, <2>1, <3>1 DEF AwaitFiles, Fail, Goto, db
    <3>2. CASE ~werr[p]
      BY <1>4, <2>1, <3>2 DEF AwaitFiles, Goto, db
    <3>3. QED
      BY <3>1, <3>2
  <2>2. CASE Commit(p) /\ (SqlFails(p) \/ Conflict(p)) /\ UNCHANGED <<rows, cnt, locked, stale>>
    BY <1>3, <2>2 DEF Commit, SqlFails, Conflict, Fail, Goto
  <2>3. QED
    BY <1>5, <1>6, <2>1, <2>2
-----------------------------------------------------------------------------
(***************************************************************************)
(* The counters.                                                           *)
(***************************************************************************)

Users(i) == {p \in rows : i \in All(p)}

\* One more post, or one less, among those that use a file.
LEMMA UsersFinite ==
    ASSUME CommitInv, NEW i
    PROVE  IsFiniteSet(Users(i)) /\ Cardinality(Users(i)) \in Nat
<1>1. Users(i) \subseteq Posts
  BY DEF CommitInv, TypeOK, Users
<1>2. IsFiniteSet(Users(i))
  BY <1>1, FS_Subset, PostAssumption
<1>3. QED
  BY <1>2, FS_CardinalityType

\* The commit of a post counts each of its files once more.
LEMMA PublishCounts ==
    ASSUME CommitInv, NEW p \in Posts, p \notin rows, rows' = rows \cup {p}, cnt' = Counted(p)
    PROVE  /\ CountsExact' /\ cnt' \in [Items -> {-1} \cup Nat]
           /\ \A i \in Items : cnt'[i] >= cnt[i]
           /\ \A i \in All(p) : cnt'[i] > 0
<1>1. cnt \in [Items -> {-1} \cup Nat] /\ All(p) \subseteq Items
  BY PartTypes DEF CommitInv, TypeOK
<1>2. \A i \in Items : cnt'[i] = IF i \notin All(p) THEN cnt[i]
                                 ELSE IF cnt[i] = -1 THEN 1 ELSE cnt[i] + 1
  BY DEF Counted
<1>3. cnt' \in [Items -> {-1} \cup Nat]
  BY <1>1 DEF Counted
<1>4. ASSUME NEW i \in Items
      PROVE  IF cnt'[i] = -1 THEN Users(i)' = {} ELSE cnt'[i] = Cardinality(Users(i)')
  <2>1. /\ cnt[i] \in {-1} \cup Nat
        /\ IF cnt[i] = -1 THEN Users(i) = {} ELSE cnt[i] = Cardinality(Users(i))
    BY <1>1 DEF CommitInv, CountsExact, Users
  <2>2. CASE i \notin All(p)
    <3>1. Users(i)' = Users(i)
      BY <2>2 DEF Users
    <3>2. QED
      BY <1>2, <2>1, <2>2, <3>1
  <2>3. CASE i \in All(p)
    <3>1. Users(i)' = Users(i) \cup {p} /\ p \notin Users(i)
      BY <2>3 DEF Users
    <3>2. Cardinality(Users(i) \cup {p}) = Cardinality(Users(i)) + 1
      BY <3>1, UsersFinite, FS_AddElement
    <3>3. CASE cnt[i] = -1
      <4>1. Cardinality(Users(i)) = 0
        BY <2>1, <3>3, FS_EmptySet
      <4>2. QED
        BY <1>2, <2>3, <3>1, <3>2, <3>3, <4>1
    <3>4. CASE cnt[i] # -1
      BY <1>2, <2>1, <2>3, <3>1, <3>2, <3>4
    <3>5. QED
      BY <3>3, <3>4
  <2>4. QED
    BY <2>2, <2>3
<1>5. CountsExact'
  BY <1>4 DEF CountsExact, Users
<1>6. QED
  BY <1>1, <1>2, <1>3, <1>5

\* Its deletion counts each of them once less.
LEMMA DeleteCounts ==
    ASSUME CommitInv, NEW p \in rows, rows' = rows \ {p}, cnt' = Uncounted(p)
    PROVE  /\ CountsExact' /\ cnt' \in [Items -> {-1} \cup Nat]
           /\ \A i \in Items \ All(p) : cnt'[i] = cnt[i]
           /\ \A i \in All(p) : cnt'[i] > 0 \/ i \in NewlyUnused(p)
<1>1. /\ cnt \in [Items -> {-1} \cup Nat] /\ p \in Posts
      /\ All(p) \subseteq Items
  BY PartTypes DEF CommitInv, TypeOK
<1>2. \A i \in Items : cnt'[i] = IF i \in All(p) THEN cnt[i] - 1 ELSE cnt[i]
  BY DEF Uncounted
<1>3. ASSUME NEW i \in Items
      PROVE  /\ IF cnt'[i] = -1 THEN Users(i)' = {} ELSE cnt'[i] = Cardinality(Users(i)')
             /\ cnt'[i] \in {-1} \cup Nat
  <2>1. /\ cnt[i] \in {-1} \cup Nat
        /\ IF cnt[i] = -1 THEN Users(i) = {} ELSE cnt[i] = Cardinality(Users(i))
    BY <1>1 DEF CommitInv, CountsExact, Users
  <2>2. CASE i \notin All(p)
    <3>1. Users(i)' = Users(i)
      BY <2>2 DEF Users
    <3>2. QED
      BY <1>2, <2>1, <2>2, <3>1
  <2>3. CASE i \in All(p)
    <3>1. Users(i)' = Users(i) \ {p} /\ p \in Users(i)
      BY <2>3 DEF Users
    <3>2. /\ IsFiniteSet(Users(i)) /\ Cardinality(Users(i)) \in Nat
          /\ Cardinality(Users(i) \ {p}) = Cardinality(Users(i)) - 1
          /\ Cardinality(Users(i) \ {p}) \in Nat
      <4>1. IsFiniteSet(Users(i)) /\ Cardinality(Users(i)) \in Nat
        BY UsersFinite
      <4>2. /\ IsFiniteSet(Users(i) \ {p})
            /\ Cardinality(Users(i) \ {p}) = Cardinality(Users(i)) - 1
        BY <3>1, <4>1, FS_RemoveElement
      <4>3. QED
        BY <4>1, <4>2, FS_CardinalityType
    <3>3. cnt[i] = Cardinality(Users(i))
      BY <2>1, <3>1
    <3>4. QED
      BY <1>2, <2>3, <3>1, <3>2, <3>3
  <2>4. QED
    BY <2>2, <2>3
<1>4. CountsExact'
  BY <1>3 DEF CountsExact, Users
<1>5. cnt' \in [Items -> {-1} \cup Nat]
  BY <1>3 DEF Uncounted
<1>6. \A i \in All(p) : cnt'[i] > 0 \/ i \in NewlyUnused(p)
  <2>1. \A i \in All(p) : cnt'[i] = cnt[i] - 1 /\ cnt[i] - 1 \in Int
    BY <1>1, <1>2
  <2>2. QED
    BY <2>1 DEF NewlyUnused
<1>7. QED
  BY <1>1, <1>2, <1>4, <1>5, <1>6

\* The commit, whether it is heard of or not: PA has linked the files before.
LEMMA PublishStep ==
    ASSUME CommitInv, NEW p \in Posts, pc[p] = "commit", Publish(p),
           \/ Goto(p, "tidy") /\ UNCHANGED <<retry, faults>>
           \/ Fault /\ Fail(p, FALSE),
           UNCHANGED <<queue, disk, soft, work, crashed>>
    PROVE  CommitInv'
<1>1. /\ \/ pc' = [pc EXCEPT ![p] = "tidy"] /\ retry' = retry
         \/ pc' = [pc EXCEPT ![p] = "rollback"] /\ retry' = [retry EXCEPT ![p] = FALSE]
      /\ UNCHANGED <<queue, where, active, dirs, synced, soft, werr, tp, pa, todo, crashed>>
      /\ rows' = rows \cup {p} /\ cnt' = Counted(p)
      /\ locked' = [locked EXCEPT ![p] = {}]
      /\ stale' = stale \cup Behind(p)
  BY DEF Publish, Fail, Goto, disk, work
<1>2. /\ pc \in [Posts -> Working \cup {"idle", "clean", "tidy", "failed", "done", "dead"}]
      /\ retry \in [Posts -> BOOLEAN] /\ locked \in [Posts -> SUBSET Items]
      /\ faults' \in 0 .. MaxFaults
  <2>1. faults \in 0 .. MaxFaults
    BY LoopTypes
  <2>2. faults' = faults \/ (faults < MaxFaults /\ faults' = faults + 1)
    BY DEF Fault
  <2>3. faults' \in 0 .. MaxFaults
    BY <2>1, <2>2, PostAssumption
  <2>4. QED
    BY <2>3, LoopTypes
<1>3. /\ tp[p] \in [Stores -> {"none", "new", "move", "end"}]
      /\ pa[p] \in {"none", "wait", "link", "end"} /\ PostOK(p)
      /\ All(p) = FilesOf(p, "src") \cup FilesOf(p, "thm")
      /\ \A k \in Stores : FilesOf(p, k) \subseteq All(p)
  BY PartTypes
<1>4. p \notin rows /\ DonePA(p) /\ ~werr[p]
  BY <1>3 DEF PostOK, CommitOK
<1>5. DoneTP(p) /\ All(p) \subseteq active
  <2>1. CASE HasFiles(p)
    <3>1. pa[p] = "end"
      BY <1>3, <1>4, <2>1 DEF PostOK, CommitOK, DonePA
    <3>2. QED
      BY <1>3, <1>4, <3>1 DEF PostOK, LinkedOK
  <2>2. CASE ~HasFiles(p)
    <3>1. All(p) = {} /\ \A k \in Stores : FilesOf(p, k) = {}
      BY <2>2, NoFiles
    <3>2. QED
      BY <1>3, <3>1 DEF PostOK, MovedOK, DoneTP
  <2>3. QED
    BY <2>1, <2>2
<1>6. \A k \in Stores : \A i \in FilesOf(p, k) : where[p][i] \in {"pending", "removed"}
  BY <1>3, <1>4, <1>5 DEF PostOK, MovedOK, DoneTP
<1>7. /\ pc' \in [Posts -> Working \cup {"idle", "clean", "tidy", "failed", "done", "dead"}]
      /\ retry' \in [Posts -> BOOLEAN] /\ locked' \in [Posts -> SUBSET Items]
      /\ pc'[p] \in {"tidy", "rollback"} /\ (pc'[p] = "rollback" => ~retry'[p])
      /\ locked'[p] = {}
      /\ \A q \in Posts \ {p} : pc'[q] = pc[q] /\ retry'[q] = retry[q] /\ locked'[q] = locked[q]
  <2>1. pc'[p] = "rollback" => ~retry'[p]
    BY <1>1, <1>2
  <2>2. /\ pc' \in [Posts -> Working \cup {"idle", "clean", "tidy", "failed", "done", "dead"}]
        /\ pc'[p] \in {"tidy", "rollback"} /\ \A q \in Posts \ {p} : pc'[q] = pc[q]
    BY <1>1, <1>2 DEF Working
  <2>3. retry' \in [Posts -> BOOLEAN] /\ \A q \in Posts \ {p} : retry'[q] = retry[q]
    BY <1>1, <1>2
  <2>4. /\ locked' \in [Posts -> SUBSET Items] /\ locked'[p] = {}
        /\ \A q \in Posts \ {p} : locked'[q] = locked[q]
    BY <1>1, <1>2
  <2>5. QED
    BY <2>1, <2>2, <2>3, <2>4
<1>8. /\ CountsExact' /\ cnt' \in [Items -> {-1} \cup Nat]
      /\ \A i \in Items : cnt'[i] >= cnt[i]
      /\ \A i \in All(p) : cnt'[i] > 0
  BY <1>1, <1>4, PublishCounts
<1>9. TypeOK'
  <2>1. Behind(p) \subseteq Posts
    BY DEF Behind
  <2>2. QED
    BY <1>1, <1>2, <1>7, <1>8, <2>1 DEF CommitInv, TypeOK, Working
<1>10. PostOK(p)'
  <2>1. MovedOK(p)'
    BY <1>1, <1>3, <1>5, <1>7 DEF PostOK, MovedOK, DoneTP
  <2>2. LinkedOK(p)'
    BY <1>1, <1>3, <1>4, <1>5 DEF PostOK, LinkedOK, DoneTP, DonePA
  <2>3. CommitOK(p)'
    BY <1>1, <1>7 DEF CommitOK
  <2>4. RowOK(p)'
    BY <1>1, <1>3, <1>4, <1>5, <1>6 DEF RowOK, DoneTP, DonePA
  <2>5. QED
    BY <2>1, <2>2, <2>3, <2>4 DEF PostOK
<1>11. \A q \in Posts : PostOK(q)'
  <2>1. \A q \in Posts \ {p} : Apart(q)
    BY <1>1, <1>7 DEF Apart
  <2>2. QED
    BY <1>1, <1>10, <2>1, OthersOK
<1>12. LocksOK'
  <2>1. \A q, r \in Posts : q # r => locked'[q] \cap locked'[r] = {}
    BY <1>7 DEF CommitInv, LocksOK
  <2>2. QED
    BY <1>7, <2>1 DEF CommitInv, LocksOK
<1>13. Tracked'
  <2>1. SUFFICES ASSUME NEW i \in active
                 PROVE  \/ cnt'[i] > 0
                        \/ i \in queue
                        \/ \E q \in Posts : i \in All(q) /\ pc'[q] \notin {"idle", "tidy", "done"}
    BY <1>1 DEF Tracked
  <2>2. i \in Items /\ cnt[i] \in {-1} \cup Nat /\ cnt'[i] \in {-1} \cup Nat
    BY <1>8 DEF CommitInv, TypeOK
  <2>3. CASE cnt[i] > 0
    BY <1>8, <2>2, <2>3
  <2>4. ASSUME NEW q \in Posts, i \in All(q), pc[q] \notin {"idle", "tidy", "done"}
        PROVE  \/ cnt'[i] > 0
               \/ \E r \in Posts : i \in All(r) /\ pc'[r] \notin {"idle", "tidy", "done"}
    <3>1. CASE q = p
      BY <1>8, <2>4, <3>1
    <3>2. CASE q # p
      BY <1>7, <2>4, <3>2
    <3>3. QED
      BY <3>1, <3>2
  <2>5. QED
    BY <2>3, <2>4 DEF CommitInv, Tracked
<1>14. QED
  BY <1>8, <1>9, <1>11, <1>12, <1>13 DEF CommitInv
-----------------------------------------------------------------------------
(***************************************************************************)
(* Afterwards.                                                             *)
(***************************************************************************)

\* What is left is cleaned up, or the pending files are removed one by one.
LEMMA AfterStep ==
    ASSUME CommitInv, NEW p \in Posts, Clean(p) \/ Tidy(p)
    PROVE  CommitInv'
<1>1. /\ UNCHANGED <<rows, cnt, queue, locked, stale, active, synced, retry, soft, werr, tp, pa,
                     todo, crashed>>
      /\ faults' \in 0 .. MaxFaults
      /\ pc[p] \in {"clean", "tidy"}
  BY LoopTypes, PostAssumption DEF Clean, Tidy, Fault, db, work
<1>2. /\ pc \in [Posts -> Working \cup {"idle", "clean", "tidy", "failed", "done", "dead"}]
      /\ where[p] \in [All(p) -> Places] /\ PostOK(p)
      /\ tp[p] \in [Stores -> {"none", "new", "move", "end"}]
      /\ \A k \in Stores : FilesOf(p, k) \subseteq All(p)
  BY LoopTypes, PartTypes
<1>3. /\ pc' \in [Posts -> Working \cup {"idle", "clean", "tidy", "failed", "done", "dead"}]
      /\ \A q \in Posts \ {p} : pc'[q] = pc[q]
      /\ \/ pc[p] = "clean" /\ pc'[p] = "failed"
         \/ pc[p] = "tidy" /\ pc'[p] \in {"tidy", "done"}
  <2>1. \/ pc[p] = "clean" /\ pc' = [pc EXCEPT ![p] = "failed"]
        \/ pc[p] = "tidy" /\ (pc' = pc \/ pc' = [pc EXCEPT ![p] = "done"])
    BY DEF Clean, Tidy, Goto
  <2>2. QED
    BY <1>2, <2>1
<1>4. DoneTP(p) /\ DonePA(p)
  BY <1>1, <1>2 DEF PostOK, MovedOK, LinkedOK
<1>5. PICK w \in [All(p) -> Places] :
         /\ where' = [where EXCEPT ![p] = w]
         /\ \A i \in All(p) : where[p][i] \in {"pending", "removed"} => w[i] \in {"pending", "removed"}
  <2>1. CASE Clean(p)
    <3> DEFINE w == [i \in All(p) |-> IF where[p][i] \in {"upload", "unmoved"} THEN "gone"
                                      ELSE where[p][i]]
    <3>1. w \in [All(p) -> Places]
      BY <1>2 DEF Places
    <3>2. where' = [where EXCEPT ![p] = w]
      BY <2>1 DEF Clean
    <3>3. QED
      BY <3>1, <3>2
  <2>2. ASSUME NEW k \in Stores, NEW i \in FilesOf(p, k), where' = [where EXCEPT ![p][i] = "removed"]
        PROVE  \E w \in [All(p) -> Places] :
                  /\ where' = [where EXCEPT ![p] = w]
                  /\ \A j \in All(p) :
                        where[p][j] \in {"pending", "removed"} => w[j] \in {"pending", "removed"}
    <3> DEFINE w == [where[p] EXCEPT ![i] = "removed"]
    <3>1. w \in [All(p) -> Places]
      BY <1>2, <2>2 DEF Places
    <3>2. where' = [where EXCEPT ![p] = w]
      BY <2>2
    <3>3. \A j \in All(p) : where[p][j] \in {"pending", "removed"} => w[j] \in {"pending", "removed"}
      BY <1>2, <2>2
    <3>4. QED
      BY <3>1, <3>2, <3>3
  <2>3. CASE where' = where
    <3>1. where \in [Posts -> UNION {[All(q) -> Places] : q \in Posts}]
      BY DEF CommitInv, TypeOK
    <3>2. where' = [where EXCEPT ![p] = where[p]]
      BY <2>3, <3>1
    <3>3. QED
      BY <1>2, <3>2
  <2>4. QED
    BY <2>1, <2>2, <2>3 DEF Tidy
<1>6. /\ where' \in [Posts -> UNION {[All(q) -> Places] : q \in Posts}]
      /\ \A q \in Posts : where'[q] \in [All(q) -> Places]
      /\ where'[p] = w
      /\ \A q \in Posts \ {p} : where'[q] = where[q]
  BY <1>5, WherePut
<1>7. dirs' \in [Posts -> SUBSET Stores]
  <2>1. dirs \in [Posts -> SUBSET Stores]
    BY DEF CommitInv, TypeOK
  <2>2. \/ dirs' = dirs
        \/ dirs' = [dirs EXCEPT ![p] = {}]
        \/ dirs' = [dirs EXCEPT ![p] = {k \in @ : ~Empty(p, k)}]
    BY DEF Clean, Tidy
  <2>3. QED
    BY <2>1, <2>2
<1>8. TypeOK'
  BY <1>1, <1>3, <1>6, <1>7 DEF CommitInv, TypeOK, Working
<1>9. PostOK(p)'
  <2>1. MovedOK(p)'
    <3>1. \A k \in Stores : tp[p][k] \in {"none", "end"}
      BY <1>4 DEF DoneTP
    <3>2. \A k \in Stores : \A i \in FilesOf(p, k) : i \in All(p)
      BY <1>2
    <3>3. QED
      BY <1>1, <1>2, <1>3, <1>5, <1>6, <3>1, <3>2 DEF PostOK, MovedOK, DoneTP
  <2>2. LinkedOK(p)'
    BY <1>1, <1>2, <1>4 DEF PostOK, LinkedOK, DoneTP, DonePA
  <2>3. CommitOK(p)'
    BY <1>1, <1>2, <1>3 DEF PostOK, CommitOK
  <2>4. RowOK(p)'
    <3>1. p \in rows => \A k \in Stores : \A i \in FilesOf(p, k) :
             i \in active /\ where[p][i] \in {"pending", "removed"}
      BY <1>1, <1>2 DEF PostOK, RowOK, Running
    <3>2. p \in rows => \A k \in Stores : \A i \in FilesOf(p, k) :
             i \in active /\ where'[p][i] \in {"pending", "removed"}
      BY <1>2, <1>5, <1>6, <3>1
    <3>3. QED
      BY <1>1, <1>4, <3>2 DEF RowOK, DoneTP, DonePA
  <2>5. QED
    BY <2>1, <2>2, <2>3, <2>4 DEF PostOK
<1>10. \A q \in Posts : PostOK(q)'
  <2>1. \A q \in Posts \ {p} : Apart(q)
    BY <1>1, <1>3, <1>6 DEF Apart
  <2>2. QED
    BY <1>1, <1>9, <2>1, OthersOK
<1>11. LocksOK' /\ CountsExact' /\ Tracked'
  <2>1. \A q \in Posts :
          /\ pc[q] \notin {"idle", "tidy", "done"} => pc'[q] \notin {"idle", "tidy", "done"}
          /\ pc'[q] \in {"spawn", "refs", "files", "commit"} =>
                pc[q] \in {"spawn", "refs", "files", "commit"}
    BY <1>3
  <2>2. QED
    BY <1>1, <2>1, BooksKept
<1>12. QED
  BY <1>8, <1>10, <1>11 DEF CommitInv

\* A moderator deletes a post.
LEMMA DeleteStep ==
    ASSUME CommitInv, NEW p \in Posts, Delete(p)
    PROVE  CommitInv'
<1>1. /\ UNCHANGED <<locked, where, active, dirs, synced, pc, retry, soft, werr, tp, pa, todo,
                     faults, crashed>>
      /\ p \in rows /\ rows' = rows \ {p} /\ cnt' = Uncounted(p)
      /\ queue' = queue \cup NewlyUnused(p) /\ stale' = stale \cup Behind(p)
  BY DEF Delete, disk, main, work
<1>2. /\ CountsExact' /\ cnt' \in [Items -> {-1} \cup Nat]
      /\ \A i \in Items \ All(p) : cnt'[i] = cnt[i]
      /\ \A i \in All(p) : cnt'[i] > 0 \/ i \in NewlyUnused(p)
  BY <1>1, DeleteCounts
<1>3. TypeOK'
  <2>1. Behind(p) \subseteq Posts /\ NewlyUnused(p) \subseteq Items
    BY PartTypes DEF Behind, NewlyUnused
  <2>2. QED
    BY <1>1, <1>2, <2>1 DEF CommitInv, TypeOK
<1>4. \A q \in Posts : PostOK(q)'
  BY <1>1, ApartOK DEF CommitInv, Apart
<1>5. LocksOK'
  BY <1>1 DEF CommitInv, LocksOK
<1>6. Tracked'
  <2>1. \A i \in active : i \in Items
    BY DEF CommitInv, TypeOK
  <2>2. QED
    BY <1>1, <1>2, <2>1 DEF CommitInv, Tracked
<1>7. QED
  BY <1>2, <1>3, <1>4, <1>5, <1>6 DEF CommitInv

\* A file of a post is either one of the post itself or a thumbnail.
LEMMA OneStore ==
    ASSUME NEW p \in Posts, NEW k \in Stores, NEW j \in Stores, NEW i \in FilesOf(p, k),
           i \in FilesOf(p, j)
    PROVE  j = k
<1>1. SrcOf[p] \cap ThmOf[p] = {}
  BY PostAssumption
<1>2. QED
  BY <1>1 DEF FilesOf, Stores

\* The machine crashes: what was linked may be gone, but then it is pending, or
\* its directory had not been synced.
LEMMA CrashStep ==
    ASSUME CommitInv, Crash
    PROVE  CommitInv'
<1>1. /\ ~crashed /\ crashed' = TRUE
      /\ pc' = [p \in Posts |-> IF Running(p) THEN "dead" ELSE pc[p]]
      /\ locked' = [p \in Posts |-> {}]
      /\ tp' = [p \in Posts |-> [k \in Stores |-> "none"]]
      /\ pa' = [p \in Posts |-> "none"]
      /\ UNCHANGED <<rows, cnt, queue, stale, synced, retry, soft, werr, todo, faults>>
  BY DEF Crash
<1>2. PICK lost \in SUBSET active, unmoved \in SUBSET Posts :
          /\ active' = active \ lost
          /\ where' = [p \in Posts |-> [i \in All(p) |-> Left(p, i, lost, unmoved)]]
          /\ dirs' = [p \in Posts |-> dirs[p] \cup {k \in Stores :
                                \E i \in FilesOf(p, k) : where'[p][i] = "pending"}]
  BY DEF Crash
<1>3. \A p \in Posts : /\ where[p] \in [All(p) -> Places]
                       /\ pc[p] \in Working \cup {"idle", "clean", "tidy", "failed", "done", "dead"}
                       /\ \A k \in Stores : FilesOf(p, k) \subseteq All(p)
                       /\ PostOK(p)
  BY LoopTypes, PartTypes
<1>4. \A p \in Posts : /\ pc'[p] \in {"idle", "failed", "done", "dead"}
                       /\ pc'[p] \in {pc[p], "dead"}
                       /\ pc[p] \in {"idle", "failed", "done"} => pc'[p] = pc[p]
                       /\ tp'[p] = [k \in Stores |-> "none"]
                       /\ pa'[p] = "none" /\ locked'[p] = {}
  BY <1>1, <1>3 DEF Running, Working
<1>5. \A p \in Posts : \A i \in All(p) : where'[p][i] = Left(p, i, lost, unmoved)
  BY <1>2
<1>6. TypeOK'
  <2>1. /\ pc' \in [Posts -> {"idle", "failed", "done", "dead"}]
        /\ locked' \in [Posts -> SUBSET Items]
        /\ tp' \in [Posts -> [Stores -> {"none", "new", "move", "end"}]]
        /\ pa' \in [Posts -> {"none", "wait", "link", "end"}]
    BY <1>1, <1>4
  <2>2. /\ active' \subseteq Items
        /\ dirs' \in [Posts -> SUBSET Stores]
    BY <1>2 DEF CommitInv, TypeOK
  <2>3. \A p \in Posts : where'[p] \in [All(p) -> Places]
    <3>1. \A p \in Posts : \A i \in All(p) : Left(p, i, lost, unmoved) \in Places
      BY <1>3 DEF Left, Places
    <3>2. QED
      BY <1>2, <3>1
  <2>4. where' \in [Posts -> UNION {[All(p) -> Places] : p \in Posts}]
    BY <1>2, <2>3
  <2>5. QED
    BY <1>1, <2>1, <2>2, <2>3, <2>4 DEF CommitInv, TypeOK
<1>7. ASSUME NEW p \in Posts
      PROVE  PostOK(p)'
  <2>1. MovedOK(p)' /\ LinkedOK(p)'
    BY <1>4 DEF MovedOK, LinkedOK, DoneTP, DonePA
  <2>2. CommitOK(p)'
    <3>1. pc[p] = "idle" => \A i \in All(p) : where[p][i] = "upload"
      BY <1>3 DEF PostOK, CommitOK
    <3>2. pc[p] = "idle" => \A i \in All(p) : where'[p][i] = "upload"
      BY <1>5, <3>1 DEF Left
    <3>3. p \in rows => pc[p] # "idle"
      BY <1>3 DEF PostOK, CommitOK
    <3>4. QED
      BY <1>1, <1>4, <3>2, <3>3 DEF CommitOK
  <2>3. RowOK(p)'
    <3>1. SUFFICES ASSUME p \in rows, NEW k \in Stores, NEW i \in FilesOf(p, k)
                   PROVE  i \in active' \/ where'[p][i] = "pending" \/ k \notin synced[p]
      BY <1>1, <1>4 DEF RowOK, DoneTP, DonePA, Running
    <3>2. /\ i \in active /\ where[p][i] \in {"pending", "removed"}
          /\ pc[p] # "idle"
      BY <1>1, <1>3, <3>1 DEF PostOK, RowOK, CommitOK
    <3>3. where'[p][i] = Left(p, i, lost, unmoved)
      BY <1>3, <1>5, <3>1
    <3>4. CASE \E j \in Stores \ synced[p] : i \in FilesOf(p, j)
      BY <3>1, <3>4, OneStore
    <3>5. CASE ~ \E j \in Stores \ synced[p] : i \in FilesOf(p, j)
      BY <1>2, <3>2, <3>3, <3>5 DEF Left
    <3>6. QED
      BY <3>4, <3>5
  <2>4. QED
    BY <2>1, <2>2, <2>3 DEF PostOK
<1>8. LocksOK' /\ CountsExact'
  BY <1>1, <1>4 DEF CommitInv, LocksOK, CountsExact
<1>9. Tracked'
  BY <1>1, <1>2, <1>4 DEF CommitInv, Tracked
<1>10. QED
  BY <1>6, <1>7, <1>8, <1>9 DEF CommitInv
-----------------------------------------------------------------------------
(***************************************************************************)
(* The theorems.                                                           *)
(***************************************************************************)

\* Nothing has been posted.
LEMMA CommitInit == Init => CommitInv
<1> SUFFICES ASSUME Init
             PROVE  CommitInv
  OBVIOUS
<1> USE DEF Init
<1>1. TypeOK
  <2>1. \A p \in Posts : where[p] \in [All(p) -> Places]
    BY DEF Places
  <2>2. where \in [Posts -> UNION {[All(p) -> Places] : p \in Posts}]
    BY <2>1
  <2>3. /\ soft \in [Posts -> 0 .. MaxRetries] /\ faults \in 0 .. MaxFaults
        /\ cnt \in [Items -> {-1} \cup Nat]
    BY PostAssumption
  <2>4. /\ dirs \in [Posts -> SUBSET Stores] /\ synced \in [Posts -> SUBSET Stores]
        /\ locked \in [Posts -> SUBSET Items] /\ todo \in [Posts -> SUBSET Items]
        /\ tp \in [Posts -> [Stores -> {"none", "new", "move", "end"}]]
    OBVIOUS
  <2>5. QED
    BY <2>1, <2>2, <2>3, <2>4 DEF TypeOK
<1>2. \A p \in Posts : PostOK(p)
  BY DEF PostOK, MovedOK, LinkedOK, CommitOK, RowOK, DoneTP, DonePA
<1>3. LocksOK /\ CountsExact /\ Tracked
  BY DEF LocksOK, CountsExact, Tracked
<1>4. QED
  BY <1>1, <1>2, <1>3 DEF CommitInv

\* Every step keeps the invariant.
LEMMA CommitStep == CommitInv /\ [Next]_vars => CommitInv'
<1> SUFFICES ASSUME CommitInv, [Next]_vars
             PROVE  CommitInv'
  OBVIOUS
<1>1. ASSUME NEW p \in Posts, SpawnTP(p) \/ Moving(p) \/ Linking(p) \/ Committing(p) \/ Delete(p)
      PROVE  CommitInv'
  <2>1. CASE SpawnTP(p)
    BY <2>1, SpawnTPStep
  <2>2. CASE Moving(p)
    BY <2>2, MovingStep, MoveStep DEF Moving
  <2>3. CASE Linking(p)
    BY <2>3, LinkingStep DEF Linking
  <2>4. CASE Commit(p)
    <3>1. /\ pc[p] = "commit" /\ UNCHANGED <<queue, disk, soft, work, crashed>>
          /\ \/ Publish(p) /\ Goto(p, "tidy") /\ UNCHANGED <<retry, faults>>
             \/ Fault /\ Publish(p) /\ Fail(p, FALSE)
             \/ (SqlFails(p) \/ Conflict(p)) /\ UNCHANGED <<rows, cnt, locked, stale>>
      BY <2>4 DEF Commit
    <3>2. QED
      BY <2>4, <3>1, PublishStep, EndingStep
  <2>5. CASE Committing(p) /\ ~Commit(p)
    BY <2>5, StatementStep, SpawnPAStep, EndingStep, AfterStep DEF Committing
  <2>6. CASE Delete(p)
    BY <2>6, DeleteStep
  <2>7. QED
    BY <1>1, <2>1, <2>2, <2>3, <2>4, <2>5, <2>6
<1>2. CASE UNCHANGED vars
  <2>1. UNCHANGED <<rows, cnt, queue, locked, stale, where, active, dirs, synced, pc, retry, soft,
                    werr, tp, pa, todo, faults, crashed>>
    BY <1>2 DEF vars, db, disk, main, work
  <2>2. TypeOK'
    BY <2>1 DEF CommitInv, TypeOK
  <2>3. \A p \in Posts : PostOK(p)'
    BY <2>1, ApartOK DEF CommitInv, Apart
  <2>4. LocksOK' /\ CountsExact' /\ Tracked'
    BY <2>1, BooksKept
  <2>5. QED
    BY <2>2, <2>3, <2>4 DEF CommitInv
<1>3. QED
  BY <1>1, <1>2, CrashStep DEF Next

\* The goroutines and the transaction of each post keep pace, and the counters
\* agree (wp_act_commit, wp_act_fpp_bc_work_PA, wp_fpp_bc_movensync).
THEOREM CommitInvariance == Spec => []CommitInv
BY CommitInit, CommitStep, PTL DEF Spec

\* Every variable of the commit keeps its type.
THEOREM CommitTypes == Spec => []TypeOK
<1>1. CommitInv => TypeOK
  BY DEF CommitInv
<1>2. QED
  BY <1>1, CommitInvariance, PTL

\* A post in the database has its files in the store, or after a crash in its
\* pending directory if that could be synced (post_1w_5act_commit.go).
THEOREM FilesBeforeRow == Spec => []RowHasFiles
<1>1. CommitInv => RowHasFiles
  BY DEF CommitInv, TypeOK, PostOK, RowOK, RowHasFiles
<1>2. QED
  BY <1>1, CommitInvariance, PTL

\* The counters of init_triggers_files.sql are the numbers of the posts that
\* use the files.
THEOREM CountersExact == Spec => []CountsExact
<1>1. CommitInv => CountsExact
  BY DEF CommitInv
<1>2. QED
  BY <1>1, CommitInvariance, PTL

\* What is in the store is used, queued to be reaped, or of a post that is not
\* committed.
THEOREM NothingUntracked == Spec => []Tracked
<1>1. CommitInv => Tracked
  BY DEF CommitInv
<1>2. QED
  BY <1>1, CommitInvariance, PTL

\* A counter that a transaction has touched is changed by no other before the
\* transaction has ended.
OwnCounters ==
    [][\A p \in Posts : \A i \in locked[p] : cnt'[i] # cnt[i] => p \in rows' \ rows]_vars

\* No update of a counter is lost (files_after_insert, files_after_delete): it
\* is the transaction itself that changes what it has locked, with its post.
THEOREM LockedCounters == Spec => OwnCounters
<1>1. ASSUME CommitInv, [Next]_vars
      PROVE  [\A p \in Posts : \A i \in locked[p] : cnt'[i] # cnt[i] => p \in rows' \ rows]_vars
  <2>1. SUFFICES ASSUME Next, NEW p \in Posts, NEW i \in locked[p], cnt'[i] # cnt[i]
                 PROVE  p \in rows' \ rows
    BY <1>1
  <2>2. PICK q \in Posts : SpawnTP(q) \/ Moving(q) \/ Linking(q) \/ Committing(q) \/ Delete(q)
    BY <2>1 DEF Next, Crash
  <2>3. cnt \in [Items -> {-1} \cup Nat] /\ i \in Items
    BY <1>1 DEF CommitInv, TypeOK
  <2>4. CASE Delete(q)
    <3>1. cnt' = Uncounted(q) /\ locked[p] \cap All(q) = {}
      BY <2>4 DEF Delete
    <3>2. QED
      BY <2>1, <2>3, <3>1 DEF Uncounted
  <2>5. CASE Publish(q) /\ pc[q] = "commit"
    <3>1. locked[q] = All(q) /\ q \notin rows
      BY <1>1, <2>5 DEF CommitInv, LocksOK, PostOK, CommitOK
    <3>2. cnt' = Counted(q) /\ rows' = rows \cup {q}
      BY <2>5 DEF Publish
    <3>3. i \in All(q)
      BY <2>1, <2>3, <3>2 DEF Counted
    <3>4. p = q
      BY <1>1, <3>1, <3>3 DEF CommitInv, LocksOK
    <3>5. QED
      BY <3>1, <3>2, <3>4
  <2>6. CASE UNCHANGED cnt
    BY <2>1, <2>6
  <2>7. QED
    <3>1. Delete(q) \/ (Publish(q) /\ pc[q] = "commit") \/ UNCHANGED cnt
      <4>1. SpawnTP(q) \/ Moving(q) \/ Linking(q) => UNCHANGED cnt
        BY DEF SpawnTP, Moving, MakeDir, SyncDirs, Move, Linking, StartPA, EndPA, Link, db
      <4>2. Commit(q) => (Publish(q) /\ pc[q] = "commit") \/ UNCHANGED cnt
        BY DEF Commit
      <4>3. Committing(q) /\ ~Commit(q) => UNCHANGED cnt
        BY DEF Committing, Begin, Insert, SpawnPA, Refs, AwaitFiles, Rollback, Drain, Clean, Tidy, db
      <4>4. QED
        BY <2>2, <4>1, <4>2, <4>3
    <3>2. QED
      BY <2>4, <2>5, <2>6, <3>1
<1>2. QED
  BY <1>1, CommitInvariance, PTL DEF Spec, OwnCounters
-----------------------------------------------------------------------------
(* What posts refer to. *)

\* The post p may refer to n, if n is on board b.
May(p, n, b) == \E r \in Xrefs(p) : MayBe(r, n, b)

\* A set of numbers that is not empty has a least one.
LEMMA HasLeast ==
    ASSUME NEW S, S \subseteq Nat, S # {}
    PROVE  \E x \in S : \A y \in S : x <= y
<1>1. IsWellFoundedOn(OpToRel(<, Nat), Nat)
  BY NatLessThanWellFounded
<1>2. PICK x \in S : \A y \in S : <<y, x>> \notin OpToRel(<, Nat)
  BY <1>1, WFMin
<1>3. \A y \in S : ~(y < x)
  BY <1>2 DEF OpToRel
<1>4. QED
  BY <1>3

\* A set with 0 and with the successor of each of its numbers has all numbers.
LEMMA Induct ==
    ASSUME NEW S, 0 \in S, \A n \in Nat : n \in S => n + 1 \in S
    PROVE  Nat \subseteq S
<1> DEFINE Out == {n \in Nat : n \notin S}
<1>1. SUFFICES ASSUME Out # {} PROVE FALSE
  OBVIOUS
<1>2. PICK x \in Out : \A y \in Out : x <= y
  BY <1>1, HasLeast
<1>3. x # 0 /\ x - 1 \in Nat /\ x - 1 \notin Out /\ (x - 1) + 1 = x
  BY <1>2
<1>4. QED
  BY <1>3

\* From each value in V, op makes the next.
StepIn(V, op) == \A i \in Nat, v \in V : op[<<i, v>>] \in V

\* g begins with v0, and each value is what op makes of the last.
Run(V, v0, op, g) ==
    g \in [Nat -> V] /\ g[0] = v0 /\ \A i \in Nat : g[i + 1] = op[<<i, g[i]>>]

\* A function on the numbers may be given by its first value and by the step
\* from each value to the next.
LEMMA Recursion ==
    ASSUME NEW V, NEW v0 \in V, NEW op, StepIn(V, op)
    PROVE  \E g : Run(V, v0, op, g)
<1> USE DEF StepIn
<1> DEFINE A(n) == {h \in [0 .. n -> V] : h[0] = v0 /\ \A i \in 0 .. n - 1 : h[i + 1] = op[<<i, h[i]>>]}
<1>1. Nat \subseteq {n \in Nat : A(n) # {}}
  <2>1. [i \in 0 .. 0 |-> v0] \in A(0)
    OBVIOUS
  <2>2. ASSUME NEW n \in Nat, A(n) # {} PROVE A(n + 1) # {}
    <3>1. PICK h \in A(n) : TRUE
      BY <2>2
    <3>2. h[n] \in V /\ op[<<n, h[n]>>] \in V
      BY <3>1
    <3> DEFINE k == [i \in 0 .. n + 1 |-> IF i = n + 1 THEN op[<<n, h[n]>>] ELSE h[i]]
    <3>3. k \in [0 .. n + 1 -> V] /\ k[0] = v0
      BY <3>1, <3>2
    <3>4. \A i \in 0 .. (n + 1) - 1 : k[i + 1] = op[<<i, k[i]>>]
      <4>1. TAKE i \in 0 .. (n + 1) - 1
      <4>2. CASE i = n
        <5>1. k[n + 1] = op[<<n, h[n]>>] /\ k[n] = h[n]
          OBVIOUS
        <5> HIDE DEF k
        <5>2. QED
          BY <4>2, <5>1
      <4>3. CASE i # n
        <5>1. h[i + 1] = op[<<i, h[i]>>] /\ k[i + 1] = h[i + 1] /\ k[i] = h[i]
          BY <3>1, <4>3
        <5> HIDE DEF k
        <5>2. QED
          BY <5>1
      <4>4. QED
        BY <4>2, <4>3
    <3>5. QED
      BY <3>3, <3>4
  <2>3. QED
    <3> HIDE DEF A
    <3> DEFINE S == {n \in Nat : A(n) # {}}
    <3>1. 0 \in S /\ \A n \in Nat : n \in S => n + 1 \in S
      BY <2>1, <2>2
    <3> HIDE DEF S
    <3>2. Nat \subseteq S
      BY <3>1, Induct
    <3>3. QED
      BY <3>2 DEF S
<1>2. ASSUME NEW n \in Nat, NEW m \in Nat, NEW h \in A(n), NEW k \in A(m)
      PROVE  \A i \in Nat : i <= n /\ i <= m => h[i] = k[i]
  <2> DEFINE S == {i \in Nat : i <= n /\ i <= m => h[i] = k[i]}
  <2>1. 0 \in S
    OBVIOUS
  <2>2. ASSUME NEW i \in Nat, i \in S PROVE i + 1 \in S
    <3>1. SUFFICES ASSUME i + 1 <= n, i + 1 <= m PROVE h[i + 1] = k[i + 1]
      OBVIOUS
    <3>2. h[i] = k[i] /\ i \in 0 .. n - 1 /\ i \in 0 .. m - 1
      BY <2>2, <3>1
    <3>3. h[i + 1] = op[<<i, h[i]>>] /\ k[i + 1] = op[<<i, k[i]>>]
      BY <3>2
    <3>4. QED
      BY <3>2, <3>3
  <2>3. Nat \subseteq S
    <3> HIDE DEF S
    <3> QED
      BY <2>1, <2>2, Induct
  <2>4. QED
    BY <2>3
<1> DEFINE of(n) == CHOOSE h \in A(n) : TRUE
<1> DEFINE g == [n \in Nat |-> of(n)[n]]
<1>3. \A n \in Nat : of(n) \in A(n)
  <2> HIDE DEF A
  <2> QED
    BY <1>1
<1>4. g \in [Nat -> V] /\ g[0] = v0
  <2>1. ASSUME NEW n \in Nat PROVE of(n)[n] \in V
    <3> HIDE DEF of
    <3> QED
      BY <1>3
  <2>2. of(0)[0] = v0
    <3> HIDE DEF of
    <3> QED
      BY <1>3
  <2> HIDE DEF of
  <2>3. QED
    BY <2>1, <2>2
<1>5. ASSUME NEW i \in Nat PROVE g[i + 1] = op[<<i, g[i]>>]
  <2>1. of(i + 1) \in A(i + 1) /\ of(i) \in A(i)
    <3> HIDE DEF of, A
    <3> QED
      BY <1>3
  <2> HIDE DEF of
  <2>2. of(i + 1)[i + 1] = op[<<i, of(i + 1)[i]>>]
    BY <2>1
  <2>3. of(i + 1)[i] = of(i)[i]
    <3> HIDE DEF A
    <3> QED
      BY <1>2, <2>1
  <2>4. QED
    BY <2>2, <2>3
<1>6. QED
  <2> HIDE DEF g
  <2> QED
    BY <1>4, <1>5 DEF Run

\* s has the members of S, each at one place, in the order of key.
SortedBy(s, S, key) ==
    /\ s \in [1 .. Cardinality(S) -> S] /\ Cardinality(S) \in Nat
    /\ \A x \in S : \E i \in 1 .. Cardinality(S) : s[i] = x
    /\ \A i, j \in 1 .. Cardinality(S) : i < j => key[s[i]] < key[s[j]]

\* Sorted does so where no two members have one key.
LEMMA SortedIs ==
    ASSUME NEW S, NEW key, IsFiniteSet(S), \A x \in S : key[x] \in Int,
           \A x, y \in S : key[x] = key[y] => x = y
    PROVE  SortedBy(Sorted(S, key), S, key)
<1> DEFINE Below(x) == {y \in S : key[y] < key[x]}
           n == Cardinality(S)
           c == [x \in S |-> Cardinality(Below(x))]
<1>1. n \in Nat
  BY FS_CardinalityType
<1>2. ASSUME NEW x \in S
      PROVE  IsFiniteSet(Below(x)) /\ Cardinality(Below(x)) \in 0 .. n - 1
  <2>1. Below(x) \in SUBSET (S \ {x})
    OBVIOUS
  <2>2. IsFiniteSet(S \ {x}) /\ Cardinality(S \ {x}) = n - 1
    BY FS_RemoveElement
  <2> HIDE DEF Below, n
  <2>3. IsFiniteSet(Below(x)) /\ Cardinality(Below(x)) <= n - 1
    BY <2>1, <2>2, FS_Subset
  <2>4. Cardinality(Below(x)) \in Nat
    BY <2>3, FS_CardinalityType
  <2>5. QED
    BY <1>1, <2>3, <2>4
<1>3. ASSUME NEW x \in S, NEW y \in S, key[x] < key[y]
      PROVE  c[x] < c[y]
  <2>1. Below(x) \in SUBSET Below(y) /\ x \in Below(y) /\ x \notin Below(x)
    BY <1>3
  <2> HIDE DEF Below, n
  <2>2. IsFiniteSet(Below(y)) /\ Cardinality(Below(y)) \in Nat /\ Cardinality(Below(x)) \in Nat
    BY <1>1, <1>2
  <2>3. Cardinality(Below(x)) <= Cardinality(Below(y)) /\ Cardinality(Below(x)) # Cardinality(Below(y))
    BY <2>1, <2>2, FS_Subset
  <2>4. QED
    BY <2>2, <2>3
<1>4. c \in Injection(S, 0 .. n - 1)
  <2>1. c \in [S -> 0 .. n - 1]
    <3> HIDE DEF Below, n
    <3> QED
      BY <1>2
  <2>2. \A x, y \in S : c[x] = c[y] => x = y
    <3> HIDE DEF c
    <3>1. SUFFICES ASSUME NEW x \in S, NEW y \in S, c[x] = c[y], x # y PROVE FALSE
      OBVIOUS
    <3>2. key[x] < key[y] \/ key[y] < key[x]
      BY <3>1
    <3>3. c[x] \in Int /\ c[y] \in Int
      BY <2>1
    <3>4. QED
      BY <1>3, <3>1, <3>2, <3>3
  <2> HIDE DEF c
  <2>3. QED
    BY <2>1, <2>2 DEF Injection, IsInjective
<1>5. c \in Surjection(S, 0 .. n - 1)
  <2>1. IsFiniteSet(0 .. n - 1) /\ Cardinality(0 .. n - 1) = n
    BY <1>1, FS_Interval
  <2> HIDE DEF c
  <2>2. QED
    BY <1>4, <2>1, FS_Injection
<1>6. ASSUME NEW i \in 1 .. n
      PROVE  /\ Sorted(S, key)[i] \in S /\ c[Sorted(S, key)[i]] = i - 1
  <2>1. i - 1 \in 0 .. n - 1
    BY <1>1
  <2>2. \E x \in S : c[x] = i - 1
    <3> HIDE DEF c
    <3> QED
      BY <1>5, <2>1 DEF Surjection
  <2>3. \E x \in S : Cardinality({y \in S : key[y] < key[x]}) = i - 1
    BY <2>2
  <2>4. Sorted(S, key)[i] = CHOOSE x \in S : Cardinality({y \in S : key[y] < key[x]}) = i - 1
    BY DEF Sorted
  <2>5. /\ Sorted(S, key)[i] \in S
        /\ Cardinality({y \in S : key[y] < key[Sorted(S, key)[i]]}) = i - 1
    BY <2>3, <2>4
  <2>6. QED
    BY <2>5
<1>7. Sorted(S, key) \in [1 .. n -> S]
  <2> DEFINE at(i) == CHOOSE x \in S : Cardinality({y \in S : key[y] < key[x]}) = i - 1
  <2>1. Sorted(S, key) = [i \in 1 .. n |-> at(i)]
    BY DEF Sorted
  <2> HIDE DEF n, at, c
  <2>2. \A i \in 1 .. n : at(i) \in S
    BY <1>6, <2>1
  <2>3. QED
    BY <2>1, <2>2
<1>8. \A x \in S : \E i \in 1 .. n : Sorted(S, key)[i] = x
  <2> SUFFICES ASSUME NEW x \in S PROVE \E i \in 1 .. n : Sorted(S, key)[i] = x
    OBVIOUS
  <2> HIDE DEF c, n
  <2>1. c[x] \in 0 .. n - 1
    BY <1>4 DEF Injection
  <2>2. c[x] + 1 \in 1 .. n /\ (c[x] + 1) - 1 = c[x]
    BY <1>1, <2>1
  <2>3. Sorted(S, key)[c[x] + 1] \in S /\ c[Sorted(S, key)[c[x] + 1]] = c[x]
    BY <1>6, <2>2
  <2>4. QED
    BY <1>4, <2>2, <2>3 DEF Injection, IsInjective
<1>9. \A i, j \in 1 .. n : i < j => key[Sorted(S, key)[i]] < key[Sorted(S, key)[j]]
  <2> SUFFICES ASSUME NEW i \in 1 .. n, NEW j \in 1 .. n, i < j
               PROVE key[Sorted(S, key)[i]] < key[Sorted(S, key)[j]]
    OBVIOUS
  <2> DEFINE x == Sorted(S, key)[i]
             y == Sorted(S, key)[j]
  <2>1. x \in S /\ y \in S /\ c[x] = i - 1 /\ c[y] = j - 1
    BY <1>6
  <2> HIDE DEF x, y, c, n
  <2>2. key[x] \in Int /\ key[y] \in Int /\ c[x] < c[y]
    BY <1>1, <2>1
  <2>3. QED
    <3>1. CASE key[x] = key[y]
      BY <2>1, <2>2, <3>1
    <3>2. CASE key[y] < key[x]
      <4>1. c[y] < c[x]
        BY <1>3, <2>1, <3>2
      <4>2. QED
        BY <1>1, <2>1, <2>2, <4>1
    <3>3. QED
      BY <2>2, <3>1, <3>2 DEF x, y
<1>10. QED
  BY <1>1, <1>7, <1>8, <1>9 DEF SortedBy

\* The references that are taken from a message are matches in it.
LEMMA ParsedIs ==
    ASSUME RefsAssumption, NEW found \in Messages
    PROVE  Parsed(found) \in Seq(found)
<1> DEFINE inOrder == Sorted(found, [m \in found |-> m.start])
           n == Cardinality(found)
           W == {inOrder[i] : i \in Nat}
           next(sofar, m) == IF sofar # <<>> /\ Last(sofar).end > m.start THEN sofar ELSE Append(sofar, m)
           op == [x \in Nat \X Seq(W) |-> next(x[2], inOrder[x[1] + 1])]
           apart[i \in Nat] ==
               IF i = 0 THEN <<>>
               ELSE LET sofar == apart[i - 1]
                        m == inOrder[i]
                    IN  IF sofar # <<>> /\ Last(sofar).end > m.start
                        THEN sofar ELSE Append(sofar, m)
           F(f) == [i \in Nat |-> IF i = 0 THEN <<>> ELSE next(f[i - 1], inOrder[i])]
           all == apart[Len(inOrder)]
<1>1. /\ inOrder \in [1 .. n -> found] /\ n \in Nat
  <2> DEFINE key == [m \in found |-> m.start]
  <2>1. IsFiniteSet(found) /\ \A m \in found : key[m] \in Int
    BY DEF RefsAssumption
  <2>2. \A m, k \in found : key[m] = key[k] => m = k
    BY DEF RefsAssumption
  <2> HIDE DEF key
  <2>3. SortedBy(Sorted(found, key), found, key)
    BY <2>1, <2>2, SortedIs
  <2>4. QED
    BY <2>3 DEF SortedBy, key
<1>2. ASSUME NEW sofar \in Seq(W), NEW m \in W PROVE next(sofar, m) \in Seq(W)
  <2> HIDE DEF W
  <2> QED
    OBVIOUS
<1>3. StepIn(Seq(W), op)
  <2>1. \A i \in Nat : inOrder[i + 1] \in W
    OBVIOUS
  <2> HIDE DEF W, next, inOrder
  <2>2. QED
    BY <1>2, <2>1 DEF StepIn
<1>4. PICK g : Run(Seq(W), <<>>, op, g)
  <2> HIDE DEF W, op
  <2>1. <<>> \in Seq(W)
    OBVIOUS
  <2>2. QED
    BY <1>3, <2>1, Recursion
<1>5. g \in [Nat -> Seq(W)] /\ g[0] = <<>> /\ \A i \in Nat : g[i + 1] = op[<<i, g[i]>>]
  <2> HIDE DEF W, op
  <2> QED
    BY <1>4 DEF Run
<1>6. \A i \in Nat : g[i + 1] = next(g[i], inOrder[i + 1])
  <2> TAKE i \in Nat
  <2>1. g[i] \in Seq(W)
    BY <1>5
  <2> HIDE DEF W, next, inOrder
  <2>2. op[<<i, g[i]>>] = next(g[i], inOrder[i + 1])
    BY <2>1
  <2> HIDE DEF op
  <2>3. QED
    BY <1>5, <2>2
<1>7. g = F(g)
  <2> HIDE DEF W, next, inOrder, op
  <2>1. ASSUME NEW i \in Nat PROVE g[i] = IF i = 0 THEN <<>> ELSE next(g[i - 1], inOrder[i])
    <3>1. CASE i = 0
      BY <1>5, <3>1
    <3>2. CASE i # 0
      <4>1. i - 1 \in Nat /\ (i - 1) + 1 = i
        BY <3>2
      <4>2. QED
        BY <1>6, <3>2, <4>1
    <3>3. QED
      BY <3>1, <3>2
  <2>2. g = [i \in Nat |-> g[i]]
    BY <1>5
  <2>3. QED
    BY <2>1, <2>2
<1>8. apart = F(apart)
  <2>1. apart = CHOOSE f : f = F(f)
    OBVIOUS
  <2> HIDE DEF F, apart
  <2>2. QED
    BY <1>7, <2>1
<1>9. \A i \in Nat : i <= n => apart[i] \in Seq(found)
  <2> DEFINE S == {i \in Nat : i <= n => apart[i] \in Seq(found)}
  <2>1. 0 \in S /\ \A i \in Nat : i \in S => i + 1 \in S
    <3>1. apart[0] = <<>>
      BY <1>8
    <3>2. ASSUME NEW i \in Nat, i \in S, i + 1 <= n PROVE apart[i + 1] \in Seq(found)
      <4>1. apart[i] \in Seq(found) /\ inOrder[i + 1] \in found
        BY <1>1, <3>2
      <4>2. apart[i + 1] = next(apart[i], inOrder[i + 1])
        <5> HIDE DEF apart, next, inOrder
        <5>1. (i + 1) - 1 = i /\ i + 1 \in Nat /\ i + 1 # 0
          OBVIOUS
        <5>2. QED
          BY <1>8, <5>1
      <4> HIDE DEF apart, inOrder
      <4>3. QED
        BY <4>1, <4>2
    <3> HIDE DEF apart, n, inOrder
    <3>3. 0 \in S
      <4>1. apart[0] \in Seq(found)
        BY <3>1
      <4>2. QED
        BY <4>1
    <3>4. ASSUME NEW i \in Nat, i \in S PROVE i + 1 \in S
      <4>1. i + 1 <= n => apart[i + 1] \in Seq(found)
        BY <3>2, <3>4
      <4>2. QED
        BY <4>1
    <3> HIDE DEF S
    <3>5. QED
      BY <3>3, <3>4
  <2> HIDE DEF S
  <2>2. Nat \subseteq S
    BY <2>1, Induct
  <2>3. QED
    BY <2>2 DEF S
<1>10. Len(inOrder) = n
  BY <1>1
<1>11. all \in Seq(found)
  <2> HIDE DEF apart, inOrder, n
  <2>1. QED
    BY <1>1, <1>9, <1>10
<1>12. Parsed(found) = SubSeq(all, 1, IF Len(all) < MaxRefs THEN Len(all) ELSE MaxRefs)
  BY DEF Parsed
<1>13. QED
  <2> HIDE DEF all
  <2>1. Len(all) \in Nat /\ MaxRefs \in Nat
    BY <1>11 DEF RefsAssumption
  <2>2. QED
    BY <1>11, <1>12, <2>1

\* Posts have numbers, each its own.
ViewOK(view) ==
    /\ NoPost \notin DOMAIN view
    /\ \A n \in DOMAIN view : view[n].num \in Nat
    /\ \A n, m \in DOMAIN view : view[n].num = view[m].num => n = m

\* One of the posts that a reference may be is chosen if there are any.
LEMMA PickIs ==
    ASSUME NEW view, ViewOK(view), NEW r, NEW b, NEW irt
    PROVE  /\ Meant(view, r) = {} => PickOnIncoming(view, r, b, irt) = NoPost
           /\ Meant(view, r) # {} =>
                 /\ PickOnIncoming(view, r, b, irt) \in Meant(view, r)
                 /\ PickOnIncoming(view, r, b, irt) # NoPost
<1> DEFINE may == Meant(view, r)
           one(n) == Rank(n \in irt)
           two(n) == Rank(view[n].board = b)
           num(n) == view[n].num
           key == [n \in may |-> <<one(n), two(n), num(n)>>]
<1>1. PickOnIncoming(view, r, b, irt) = Pick(may, key)
  BY DEF PickOnIncoming
<1>2. /\ may \subseteq DOMAIN view
      /\ \A n \in may : one(n) \in {0, 1} /\ two(n) \in {0, 1} /\ num(n) \in Nat
      /\ \A n, m \in may : num(n) = num(m) => n = m
  BY DEF ViewOK, Meant, Rank
<1>3. ASSUME may # {} PROVE \E n \in may : \A m \in may \ {n} : Before(key[n], key[m])
  <2> HIDE DEF may, one, two, num
  <2> DEFINE A == {one(n) : n \in may}
  <2>1. PICK i \in A : \A j \in A : i <= j
    <3>1. A \subseteq Nat /\ A # {}
      BY <1>2, <1>3
    <3> HIDE DEF A
    <3>2. QED
      BY <3>1, HasLeast
  <2> DEFINE first == {n \in may : one(n) = i}
             B == {two(n) : n \in first}
  <2>2. PICK j \in B : \A l \in B : j <= l
    <3>1. B \subseteq Nat /\ B # {}
      BY <1>2, <2>1
    <3> HIDE DEF B
    <3>2. QED
      BY <3>1, HasLeast
  <2> DEFINE second == {n \in first : two(n) = j}
             C == {num(n) : n \in second}
  <2>3. PICK k \in C : \A l \in C : k <= l
    <3>1. C \subseteq Nat /\ C # {}
      BY <1>2, <2>2
    <3> HIDE DEF C
    <3>2. QED
      BY <3>1, HasLeast
  <2>4. PICK n \in second : num(n) = k
    BY <2>3
  <2>5. n \in may /\ one(n) = i /\ two(n) = j
    BY <2>4
  <2>6. ASSUME NEW m \in may \ {n} PROVE Before(key[n], key[m])
    <3>1. key[n] = <<one(n), two(n), num(n)>> /\ key[m] = <<one(m), two(m), num(m)>>
      BY <2>5, <2>6
    <3>2. i <= one(m) /\ one(m) \in Nat /\ two(m) \in Nat /\ num(m) \in Nat /\ num(n) \in Nat
             /\ i \in Nat /\ j \in Nat
      BY <1>2, <2>1, <2>5, <2>6
    <3>3. one(m) = i => j <= two(m)
      BY <2>2, <2>6
    <3>4. one(m) = i /\ two(m) = j => num(n) < num(m)
      <4>1. SUFFICES ASSUME one(m) = i, two(m) = j PROVE num(n) < num(m)
        OBVIOUS
      <4>2. num(m) \in C
        BY <2>6, <4>1
      <4>3. num(m) # num(n)
        BY <1>2, <2>5, <2>6
      <4>4. QED
        BY <2>3, <2>4, <3>2, <4>2, <4>3
    <3> HIDE DEF key, A, B, C, first, second
    <3> DEFINE x == <<one(n), two(n), num(n)>>
               y == <<one(m), two(m), num(m)>>
    <3>5. \E l \in 1 .. 3 : x[l] < y[l] /\ \A h \in 1 .. l - 1 : x[h] = y[h]
      <4>1. CASE one(n) < one(m)
        <5>1. x[1] < y[1]
          BY <4>1
        <5>2. 1 .. 1 - 1 = {}
          OBVIOUS
        <5> HIDE DEF x, y
        <5>3. QED
          BY <5>1, <5>2
      <4>2. CASE one(n) = one(m) /\ two(n) < two(m)
        <5>1. x[2] < y[2] /\ x[1] = y[1]
          BY <4>2
        <5>2. 1 .. 2 - 1 = {1}
          OBVIOUS
        <5> HIDE DEF x, y
        <5>3. QED
          BY <5>1, <5>2
      <4>3. CASE one(n) = one(m) /\ two(n) = two(m) /\ num(n) < num(m)
        <5>1. x[3] < y[3] /\ x[1] = y[1] /\ x[2] = y[2]
          BY <4>3
        <5>2. 1 .. 3 - 1 = {1, 2}
          OBVIOUS
        <5> HIDE DEF x, y
        <5>3. QED
          BY <5>1, <5>2
      <4>4. QED
        BY <2>5, <3>2, <3>3, <3>4, <4>1, <4>2, <4>3
    <3>6. DOMAIN x = 1 .. 3
      OBVIOUS
    <3> HIDE DEF x, y
    <3>7. Before(x, y)
      BY <3>5, <3>6 DEF Before
    <3>8. QED
      BY <3>1, <3>7 DEF x, y
  <2> HIDE DEF key, second, first
  <2>7. QED
    BY <2>5, <2>6
<1>4. may = {} => Pick(may, key) = NoPost
  BY DEF Pick
<1>5. may # {} => Pick(may, key) \in may
  <2> HIDE DEF may, key
  <2> QED
    BY <1>3 DEF Pick
<1>6. NoPost \notin may
  BY <1>2 DEF ViewOK
<1>7. QED
  <2> HIDE DEF key
  <2> QED
    BY <1>1, <1>4, <1>5, <1>6

\* V and W show the same posts that p may refer to.
SameFor(V, W, p) ==
    /\ \A n \in DOMAIN V : May(p, n, V[n].board) => n \in DOMAIN W /\ W[n] = V[n]
    /\ \A n \in DOMAIN W : May(p, n, W[n].board) => n \in DOMAIN V /\ V[n] = W[n]

\* What a post refers to depends on the posts that it may refer to.
LEMMA Relevance ==
    ASSUME RefsAssumption, NEW V, NEW W, ViewOK(V), NEW p, p.found \in Messages, SameFor(V, W, p)
    PROVE  Incoming(V, p) = Incoming(W, p)
<1> DEFINE refs == Parsed(p.found)
           to(X) == [i \in DOMAIN refs |-> PickOnIncoming(X, refs[i], p.board, p.irt)]
           there(X) == {i \in DOMAIN refs : OnlyBoard(refs[i]) \/ to(X)[i] # NoPost}
           order(X) == Sorted(there(X), [i \in there(X) |-> i])
           entry(X, i) == IF OnlyBoard(refs[i]) THEN BoardEntry(refs[i])
                          ELSE Entry(X, refs[i], to(X)[i], p.board, p.thread)
<1>1. \A X : Incoming(X, p) = [k \in DOMAIN order(X) |-> entry(X, order(X)[k])]
  BY DEF Incoming
<1>2. ASSUME NEW i \in DOMAIN refs
      PROVE  /\ Meant(V, refs[i]) = Meant(W, refs[i])
             /\ \A n \in Meant(V, refs[i]) : V[n] = W[n]
  <2>1. refs[i] \in Xrefs(p)
    BY DEF Xrefs, Range
  <2>2. \A n, b : MayBe(refs[i], n, b) => May(p, n, b)
    BY <2>1 DEF May
  <2> HIDE DEF refs
  <2>3. QED
    BY <2>2 DEF Meant, SameFor
<1>3. ASSUME NEW i \in DOMAIN refs
      PROVE  PickOnIncoming(V, refs[i], p.board, p.irt) = PickOnIncoming(W, refs[i], p.board, p.irt)
  <2> DEFINE M(X) == Meant(X, refs[i])
             key(X) == [n \in M(X) |-> <<Rank(n \in p.irt), Rank(X[n].board = p.board), X[n].num>>]
  <2>1. M(V) = M(W) /\ \A n \in M(V) : V[n] = W[n]
    BY <1>2
  <2> HIDE DEF M
  <2>2. key(V) = key(W)
    BY <2>1
  <2> HIDE DEF key
  <2>3. \A X : PickOnIncoming(X, refs[i], p.board, p.irt) = Pick(M(X), key(X))
    BY DEF PickOnIncoming, M, key
  <2>4. QED
    BY <2>1, <2>2, <2>3
<1>4. to(V) = to(W)
  <2> HIDE DEF refs
  <2> QED
    BY <1>3
<1>5. there(V) = there(W) /\ order(V) = order(W)
  <2> HIDE DEF to, refs
  <2> QED
    BY <1>4
<1>6. DOMAIN order(V) = 1 .. Cardinality(there(V)) /\ \A k \in DOMAIN order(V) : order(V)[k] \in there(V)
  <2> DEFINE key == [i \in there(V) |-> i]
  <2>1. refs \in Seq(p.found)
    BY ParsedIs
  <2>2. IsFiniteSet(there(V)) /\ there(V) \subseteq Nat
    <3> HIDE DEF refs
    <3>1. DOMAIN refs = 1 .. Len(refs) /\ Len(refs) \in Nat
      BY <2>1
    <3>2. IsFiniteSet(1 .. Len(refs)) /\ 1 .. Len(refs) \subseteq Nat
      BY <3>1, FS_Interval
    <3>3. there(V) \in SUBSET (1 .. Len(refs))
      BY <3>1
    <3> HIDE DEF there
    <3>4. QED
      BY <3>2, <3>3, FS_Subset
  <2> HIDE DEF there
  <2>3. /\ \A x \in there(V) : key[x] \in Int
        /\ \A x, y \in there(V) : key[x] = key[y] => x = y
    BY <2>2
  <2> HIDE DEF key
  <2>4. SortedBy(Sorted(there(V), key), there(V), key)
    BY <2>2, <2>3, SortedIs
  <2>5. QED
    BY <2>4 DEF SortedBy, key
<1>7. ASSUME NEW i \in there(V) PROVE entry(V, i) = entry(W, i)
  <2>1. CASE OnlyBoard(refs[i])
    BY <2>1
  <2>2. CASE ~OnlyBoard(refs[i])
    <3>1. i \in DOMAIN refs /\ to(V)[i] # NoPost
      BY <2>2
    <3> DEFINE n == PickOnIncoming(V, refs[i], p.board, p.irt)
    <3>2. n # NoPost /\ to(V)[i] = n /\ to(W)[i] = n
      BY <1>4, <3>1
    <3> HIDE DEF n
    <3>3. n \in Meant(V, refs[i])
      <4> HIDE DEF refs
      <4> QED
        BY <3>2, PickIs DEF n
    <3>4. V[n] = W[n]
      BY <1>2, <3>1, <3>3
    <3> HIDE DEF refs, to
    <3>5. Entry(V, refs[i], n, p.board, p.thread) = Entry(W, refs[i], n, p.board, p.thread)
      BY <3>4 DEF Entry
    <3>6. QED
      BY <3>2, <3>5
  <2>3. QED
    BY <2>1, <2>2
<1>8. QED
  <2> HIDE DEF entry, order, there
  <2> QED
    BY <1>1, <1>5, <1>6, <1>7

\* e is what p has for one of its references.
EntryOf(view, p, e) ==
    \E r \in Xrefs(p) :
        \/ OnlyBoard(r) /\ e = BoardEntry(r)
        \/ \E n \in Meant(view, r) : e = Entry(view, r, n, p.board, p.thread)

\* What is found for a post is a list, an entry for each of some of its references
\* (ProcessReferencesOnIncoming).
LEMMA IncomingIs ==
    ASSUME RefsAssumption, NEW view, ViewOK(view), NEW p, p.found \in Messages
    PROVE  /\ \E n \in Nat : DOMAIN Incoming(view, p) = 1 .. n
           /\ \A i \in DOMAIN Incoming(view, p) : EntryOf(view, p, Incoming(view, p)[i])
<1> DEFINE refs == Parsed(p.found)
           to == [i \in DOMAIN refs |-> PickOnIncoming(view, refs[i], p.board, p.irt)]
           there == {i \in DOMAIN refs : OnlyBoard(refs[i]) \/ to[i] # NoPost}
           key == [i \in there |-> i]
           order == Sorted(there, key)
           entry(i) == IF OnlyBoard(refs[i]) THEN BoardEntry(refs[i])
                       ELSE Entry(view, refs[i], to[i], p.board, p.thread)
<1>1. Incoming(view, p) = [k \in DOMAIN order |-> entry(order[k])]
  BY DEF Incoming
<1>2. \E n \in Nat : DOMAIN order = 1 .. n /\ \A k \in 1 .. n : order[k] \in there
  <2>1. refs \in Seq(p.found)
    BY ParsedIs
  <2>2. IsFiniteSet(there) /\ there \subseteq Nat
    <3> HIDE DEF refs
    <3>1. DOMAIN refs = 1 .. Len(refs) /\ Len(refs) \in Nat
      BY <2>1
    <3>2. IsFiniteSet(1 .. Len(refs)) /\ 1 .. Len(refs) \subseteq Nat
      BY <3>1, FS_Interval
    <3>3. there \in SUBSET (1 .. Len(refs))
      BY <3>1
    <3> HIDE DEF there
    <3>4. QED
      BY <3>2, <3>3, FS_Subset
  <2> HIDE DEF there
  <2>3. /\ \A x \in there : key[x] \in Int
        /\ \A x, y \in there : key[x] = key[y] => x = y
    BY <2>2
  <2> HIDE DEF key
  <2>4. SortedBy(order, there, key)
    BY <2>2, <2>3, SortedIs
  <2> HIDE DEF order
  <2>5. QED
    BY <2>4 DEF SortedBy
<1>3. ASSUME NEW i \in there PROVE EntryOf(view, p, entry(i))
  <2>1. refs[i] \in Xrefs(p)
    BY DEF Xrefs, Range
  <2>2. CASE OnlyBoard(refs[i])
    <3>1. entry(i) = BoardEntry(refs[i])
      BY <2>2
    <3> HIDE DEF entry, refs
    <3>2. QED
      BY <2>1, <2>2, <3>1 DEF EntryOf
  <2>3. CASE ~OnlyBoard(refs[i])
    <3> DEFINE n == PickOnIncoming(view, refs[i], p.board, p.irt)
    <3>1. n # NoPost /\ entry(i) = Entry(view, refs[i], n, p.board, p.thread)
      BY <2>3
    <3> HIDE DEF entry, refs
    <3>2. n \in Meant(view, refs[i])
      BY <3>1, PickIs
    <3> HIDE DEF n
    <3>3. QED
      BY <2>1, <3>1, <3>2 DEF EntryOf
  <2>4. QED
    BY <2>2, <2>3
<1>4. PICK n \in Nat : DOMAIN order = 1 .. n /\ \A k \in 1 .. n : order[k] \in there
  BY <1>2
<1>5. DOMAIN Incoming(view, p) = 1 .. n
      /\ \A k \in 1 .. n : Incoming(view, p)[k] = entry(order[k])
  <2> HIDE DEF order, entry
  <2> QED
    BY <1>1, <1>4
<1>6. QED
  <2> HIDE DEF order, entry, there
  <2> QED
    BY <1>3, <1>4, <1>5

\* All that p may ever have referred to is on its own board.
LocalPost(p) == \A x \in seen : May(p, x[2], x[1]) => x[1] = p.board

\* The posts whose references are right.
Kept(p) == ~crossed \/ LocalPost(p)

\* A post that a transaction of b may have to look at.
Concerns(b, p) == p.board = b \/ \E x \in seen : x[1] = b /\ May(p, x[2], b)

\* A row of bposts, with a name that was given on its board.
PostRow(n, p) ==
    /\ n \in PostNames /\ p.board \in Boards /\ p.found \in Messages
    /\ p.num \in Nat /\ 0 < p.num /\ p.num <= begun
    /\ <<p.board, n>> \in seen

\* t is a thread of b.
ThreadOf(b, t) == t \in DOMAIN posts /\ posts[t].board = b /\ posts[t].thread = t

\* The committed posts: each has a number of its own and belongs to a thread of
\* its board.
PostsOK ==
    /\ posts = [n \in DOMAIN posts |-> posts[n]] /\ IsFiniteSet(DOMAIN posts)
    /\ activRefs = [n \in DOMAIN posts |-> activRefs[n]]
    /\ begun \in Nat /\ crossed \in BOOLEAN
    /\ \A n \in DOMAIN posts : PostRow(n, posts[n]) /\ ThreadOf(posts[n].board, posts[n].thread)
    /\ \A n, m \in DOMAIN posts : posts[n].num = posts[m].num => n = m

\* The fields of a transaction.
IsTx(t) ==
    t = [at |-> t.at, new |-> t.new, gone |-> t.gone, wrote |-> t.wrote, todo |-> t.todo,
         off |-> t.off, page |-> t.page, full |-> t.full, now |-> t.now, fresh |-> t.fresh]

\* Whoever has p's number now is p.
OneRow(p) ==
    /\ p.num <= begun
    /\ \A n \in DOMAIN posts : posts[n].num = p.num => posts[n] = p
    /\ \A c \in Boards : \A n \in DOMAIN tx[c].new :
           tx[c].new[n].num = p.num => tx[c].new[n] = p

\* The post that comes.
NewOK(b) ==
    LET new == tx[b].new
    IN  /\ new = [n \in DOMAIN new |-> new[n]]
        /\ \A n, m \in DOMAIN new : n = m
        /\ \A n \in DOMAIN new :
               /\ PostRow(n, new[n]) /\ new[n].board = b /\ n \notin DOMAIN posts
               /\ new[n].thread # n => ThreadOf(b, new[n].thread)
               /\ \A m \in DOMAIN posts : posts[m].num # new[n].num
               /\ tx[b].gone = {}

\* The posts that go, whole threads with the first of them.
GoneOK(b) ==
    LET gone == tx[b].gone
    IN  /\ gone \subseteq DOMAIN posts
        /\ \A n \in gone : posts[n].board = b
        /\ \A n \in DOMAIN posts : posts[n].thread \in gone => n \in gone

\* What has been written belongs to posts that b has to look at.
WroteOK(b) ==
    LET wrote == tx[b].wrote
    IN  /\ wrote = [n \in DOMAIN wrote |-> wrote[n]]
        /\ \A n \in DOMAIN wrote : n \in DOMAIN View(b) /\ Concerns(b, View(b)[n])
        /\ tx[b].at # "declare" => DOMAIN tx[b].new \subseteq DOMAIN wrote

\* A post that is looked at is one that b has to look at, and its number is its
\* own.
Looked(b, x) == x.post.num \in Nat /\ OneRow(x.post) /\ Concerns(b, x.post)

\* x is a post as it was when the page was taken, and is still.
Still(b, x) == x.name \in DOMAIN View(b) /\ View(b)[x.name] = x.post

\* The posts that are looked at.
PageOK(b) ==
    LET t == tx[b]
    IN  /\ t.off \in Nat /\ t.full \in BOOLEAN
        /\ t.todo \in Seq(DOMAIN t.new \cup t.gone)
        /\ \A x \in t.page :
               /\ x = [name |-> x.name, post |-> x.post, was |-> x.was, left |-> x.left]
               /\ x.left \in BOOLEAN /\ Looked(b, x)
               /\ x.left /\ Still(b, x) /\ Kept(x.post) => x.was = RefsOf(b)[x.name]
        /\ \A x, y \in t.page : x.name = y.name => x = y
        /\ t.at \in {"declare", "find"} => t.page = {}
        /\ t.at = "declare" => DOMAIN t.new # {} /\ DOMAIN t.wrote = {} /\ t.off = 0 /\ t.todo = <<>>
        /\ t.at \in {"fix", "update"} => t.todo # <<>>
        /\ t.at \in {"fix", "update"} /\ t.full => t.page # {}
        /\ t.at = "update" =>
               /\ Looked(b, t.now)
               /\ \A x \in t.page : x.name = t.now.name => ~x.left
               /\ Still(b, t.now) /\ Kept(t.now.post) =>
                      t.fresh = Incoming(View(b), t.now.post)

\* Post m, which is p, is still to be looked at.
Pending(b, m, p) ==
    LET t == tx[b]
    IN  \/ t.at = "declare" /\ \E n \in DOMAIN t.new : m = n \/ May(p, n, b)
        \/ \E i \in DOMAIN t.todo : i > 1 /\ May(p, t.todo[i], b)
        \/ t.todo # <<>> /\ May(p, t.todo[1], b) /\
           \/ t.at = "find" /\ p.num > t.off
           \/ t.at \in {"fix", "update"} /\
              \/ \E x \in t.page : x.left /\ x.name = m /\ x.post = p
              \/ t.full /\ \A x \in t.page : x.post.num < p.num
           \/ t.at = "update" /\ t.now.name = m /\ t.now.post = p

\* The references of all others are right.
DoneOK(b) ==
    \A m \in DOMAIN View(b) :
        Kept(View(b)[m]) /\ ~Pending(b, m, View(b)[m]) =>
            RefsOf(b)[m] = Incoming(View(b), View(b)[m])

\* What is right of the transaction of b by itself.
TxOK(b) ==
    /\ IsTx(tx[b]) /\ tx[b].at \in {"none", "declare", "find", "fix", "update"}
    /\ tx[b].at = "none" => tx[b] = NoTx
    /\ NewOK(b) /\ GoneOK(b) /\ WroteOK(b) /\ PageOK(b)

\* Transactions of two boards do not touch the same rows.
BoardsApart(b, c) ==
    /\ DOMAIN tx[b].new \cap DOMAIN tx[c].new = {}
    /\ \A n \in DOMAIN tx[b].new, m \in DOMAIN tx[c].new : tx[b].new[n].num # tx[c].new[m].num
    /\ DOMAIN tx[b].wrote \cap (DOMAIN tx[c].wrote \cup tx[c].gone) = {}
    /\ Held(b) /\ Held(c) => crossed

\* The references of the committed posts are right.
CommittedOK ==
    \A n \in DOMAIN posts :
        Kept(posts[n]) => activRefs[n] = Incoming(posts, posts[n])

\* The invariant.
RefsInv ==
    /\ PostsOK /\ tx = [b \in Boards |-> tx[b]]
    /\ \A b \in Boards : TxOK(b)
    /\ \A b, c \in Boards : b # c => BoardsApart(b, c)
    /\ CommittedOK
    /\ \A b \in Boards : Held(b) => DoneOK(b)

\* What b sees of the posts, and of what they refer to.
LEMMA ViewIs ==
    ASSUME NEW b
    PROVE  /\ DOMAIN View(b) = DOMAIN tx[b].new \cup (DOMAIN posts \ tx[b].gone)
           /\ \A n \in DOMAIN tx[b].new : View(b)[n] = tx[b].new[n]
           /\ \A n \in DOMAIN posts \ tx[b].gone :
                  n \notin DOMAIN tx[b].new => View(b)[n] = posts[n]
           /\ DOMAIN RefsOf(b) = DOMAIN tx[b].wrote \cup DOMAIN activRefs
           /\ \A n \in DOMAIN tx[b].wrote : RefsOf(b)[n] = tx[b].wrote[n]
           /\ \A n \in DOMAIN activRefs : n \notin DOMAIN tx[b].wrote => RefsOf(b)[n] = activRefs[n]
  BY DEF View, RefsOf, WrittenOn, Minus

\* The posts that are committed have numbers of their own.
LEMMA PostsView ==
    ASSUME RefsAssumption, PostsOK
    PROVE  /\ ViewOK(posts) /\ DOMAIN activRefs = DOMAIN posts
           /\ \A n \in DOMAIN posts : PostRow(n, posts[n])
<1>1. DOMAIN activRefs = DOMAIN posts
  <2>1. activRefs = [n \in DOMAIN posts |-> activRefs[n]]
    BY DEF PostsOK
  <2> DEFINE f == [n \in DOMAIN posts |-> activRefs[n]]
  <2>2. DOMAIN f = DOMAIN posts
    OBVIOUS
  <2> HIDE DEF f
  <2>3. QED
    BY <2>1, <2>2 DEF f
<1>2. \A n \in DOMAIN posts : PostRow(n, posts[n])
  BY DEF PostsOK
<1>3. ViewOK(posts)
  <2>1. \A n, m \in DOMAIN posts : posts[n].num = posts[m].num => n = m
    BY DEF PostsOK
  <2>2. QED
    BY <1>2, <2>1 DEF ViewOK, PostRow, RefsAssumption
<1>4. QED
  BY <1>1, <1>2, <1>3

\* So have those that a transaction sees, and each is from its own board's
\* transaction or committed.
LEMMA TxView ==
    ASSUME RefsAssumption, PostsOK, NEW b \in Boards, NewOK(b)
    PROVE  /\ ViewOK(View(b))
           /\ \A n \in DOMAIN View(b) : PostRow(n, View(b)[n])
           /\ \A n \in DOMAIN View(b) :
                  \/ n \in DOMAIN tx[b].new /\ View(b)[n] = tx[b].new[n] /\ View(b)[n].board = b
                        /\ n \notin DOMAIN posts
                  \/ n \in DOMAIN posts \ tx[b].gone /\ View(b)[n] = posts[n] /\ n \notin DOMAIN tx[b].new
<1>1. /\ DOMAIN View(b) = DOMAIN tx[b].new \cup (DOMAIN posts \ tx[b].gone)
      /\ \A n \in DOMAIN tx[b].new : View(b)[n] = tx[b].new[n]
      /\ \A n \in DOMAIN posts \ tx[b].gone : n \notin DOMAIN tx[b].new => View(b)[n] = posts[n]
  BY ViewIs
<1>2. /\ \A n, m \in DOMAIN tx[b].new : n = m
      /\ \A n \in DOMAIN tx[b].new :
               /\ PostRow(n, tx[b].new[n]) /\ tx[b].new[n].board = b /\ n \notin DOMAIN posts
               /\ \A m \in DOMAIN posts : posts[m].num # tx[b].new[n].num
  BY DEF NewOK
<1>3. /\ ViewOK(posts) /\ \A n \in DOMAIN posts : PostRow(n, posts[n])
  BY PostsView
<1>4. \A n \in DOMAIN View(b) :
         \/ n \in DOMAIN tx[b].new /\ View(b)[n] = tx[b].new[n] /\ View(b)[n].board = b
               /\ n \notin DOMAIN posts
         \/ n \in DOMAIN posts \ tx[b].gone /\ View(b)[n] = posts[n] /\ n \notin DOMAIN tx[b].new
  BY <1>1, <1>2
<1>5. \A n \in DOMAIN View(b) : PostRow(n, View(b)[n])
  BY <1>2, <1>3, <1>4
<1>6. \A n, m \in DOMAIN View(b) : View(b)[n].num = View(b)[m].num => n = m
  <2> TAKE n \in DOMAIN View(b), m \in DOMAIN View(b)
  <2>1. CASE n \in DOMAIN tx[b].new
    BY <1>2, <1>4, <2>1
  <2>2. CASE m \in DOMAIN tx[b].new
    BY <1>2, <1>4, <2>2
  <2>3. CASE n \notin DOMAIN tx[b].new /\ m \notin DOMAIN tx[b].new
    BY <1>3, <1>4, <2>3 DEF ViewOK
  <2>4. QED
    BY <2>1, <2>2, <2>3
<1>7. ViewOK(View(b))
  BY <1>5, <1>6 DEF ViewOK, PostRow, RefsAssumption
<1>8. QED
  BY <1>4, <1>5, <1>7

\* Another transaction begins, goes on or is given up: what b has is as right
\* as it was.
LEMMA OthersKept ==
    ASSUME RefsAssumption, RefsInv, NEW b \in Boards, NEW t, tx' = [tx EXCEPT ![b] = t],
           posts' = posts, activRefs' = activRefs, begun' \in Nat, begun <= begun',
           seen \subseteq seen', crossed' \in BOOLEAN, crossed => crossed',
           \A n \in DOMAIN t.new :
               \/ t.new[n].num = begun + 1
               \/ n \in DOMAIN tx[b].new /\ t.new[n] = tx[b].new[n]
    PROVE  /\ PostsOK' /\ CommittedOK' /\ tx' = [c \in Boards |-> tx'[c]] /\ tx'[b] = t
           /\ \A p : Kept(p)' => Kept(p)
           /\ \A c, p : Concerns(c, p) => Concerns(c, p)'
           /\ \A p : OneRow(p) /\ p.num \in Nat => OneRow(p)'
           /\ \A n, p : PostRow(n, p) => PostRow(n, p)'
           /\ \A c \in Boards \ {b} :
                 /\ TxOK(c)' /\ (Held(c)' => DoneOK(c)') /\ tx'[c] = tx[c]
                 /\ \A d \in Boards \ {b} : c # d => BoardsApart(c, d)'
<1>1. /\ PostsOK /\ tx = [c \in Boards |-> tx[c]] /\ CommittedOK
      /\ \A c \in Boards : TxOK(c) /\ (Held(c) => DoneOK(c))
      /\ \A c, d \in Boards : c # d => BoardsApart(c, d)
  BY DEF RefsInv
<1>2. /\ tx' = [c \in Boards |-> tx'[c]] /\ tx'[b] = t
      /\ \A c \in Boards \ {b} : tx'[c] = tx[c]
  BY <1>1
<1>3. \A p : Kept(p)' => Kept(p)
  BY DEF Kept, LocalPost, May
<1>4. \A c, p : Concerns(c, p) => Concerns(c, p)'
  BY DEF Concerns, May
<1>5. begun \in Nat
  BY <1>1 DEF PostsOK
<1>6. ASSUME NEW n, NEW p, PostRow(n, p) PROVE PostRow(n, p)'
  BY <1>5, <1>6 DEF PostRow
<1>7. PostsOK'
  <2>1. /\ (posts = [n \in DOMAIN posts |-> posts[n]])' /\ IsFiniteSet(DOMAIN posts)'
        /\ (activRefs = [n \in DOMAIN posts |-> activRefs[n]])'
    BY <1>1 DEF PostsOK
  <2>2. \A n \in DOMAIN posts : PostRow(n, posts[n])' /\ ThreadOf(posts[n].board, posts[n].thread)'
    BY <1>1, <1>6 DEF PostsOK, ThreadOf
  <2>3. \A n, m \in DOMAIN posts : posts[n].num = posts[m].num => n = m
    BY <1>1 DEF PostsOK
  <2>4. QED
    BY <2>1, <2>2, <2>3 DEF PostsOK
<1>8. CommittedOK'
  BY <1>1, <1>3 DEF CommittedOK
<1>9. ASSUME NEW p, OneRow(p), p.num \in Nat PROVE OneRow(p)'
  <2>1. p.num <= begun /\ p.num <= begun' /\ p.num # begun + 1
    BY <1>5, <1>9 DEF OneRow
  <2>2. ASSUME NEW c \in Boards, NEW n \in DOMAIN tx'[c].new, tx'[c].new[n].num = p.num
        PROVE  tx'[c].new[n] = p
    <3>1. CASE c = b
      <4>1. n \in DOMAIN tx[b].new /\ tx'[c].new[n] = tx[b].new[n]
        BY <1>2, <2>1, <2>2, <3>1
      <4>2. QED
        BY <1>9, <2>2, <3>1, <4>1 DEF OneRow
    <3>2. CASE c # b
      BY <1>2, <1>9, <2>2, <3>2 DEF OneRow
    <3>3. QED
      BY <3>1, <3>2
  <2>3. \A n \in DOMAIN posts' : posts'[n].num = p.num => posts'[n] = p
    BY <1>9 DEF OneRow
  <2>4. QED
    BY <2>1, <2>2, <2>3 DEF OneRow
<1>10. ASSUME NEW c \in Boards \ {b}
       PROVE  /\ TxOK(c)' /\ (Held(c)' => DoneOK(c)')
              /\ \A d \in Boards \ {b} : c # d => BoardsApart(c, d)'
  <2>1. tx'[c] = tx[c] /\ View(c)' = View(c) /\ RefsOf(c)' = RefsOf(c)
    BY <1>2 DEF View, RefsOf
  <2>2. TxOK(c)
    BY <1>1
  <2>3. NewOK(c)'
    <3>1. NewOK(c)
      BY <2>2 DEF TxOK
    <3> DEFINE new == tx[c].new
    <3>2. /\ new = [n \in DOMAIN new |-> new[n]]
          /\ \A n, m \in DOMAIN new : n = m
          /\ \A n \in DOMAIN new :
               /\ PostRow(n, new[n]) /\ new[n].board = c /\ n \notin DOMAIN posts
               /\ new[n].thread # n => ThreadOf(c, new[n].thread)
               /\ \A m \in DOMAIN posts : posts[m].num # new[n].num
               /\ tx[c].gone = {}
      BY <3>1 DEF NewOK
    <3>3. \A n \in DOMAIN new : PostRow(n, new[n])' /\ (ThreadOf(c, new[n].thread) => ThreadOf(c, new[n].thread)')
      <4>1. TAKE n \in DOMAIN new
      <4>2. PostRow(n, new[n])
        BY <3>2
      <4> DEFINE p == new[n]
      <4>3. PostRow(n, p)'
        <5>1. new' = new
          BY <2>1
        <5>2. QED
          BY <1>5, <4>2, <5>1 DEF PostRow
      <4>4. QED
        BY <2>1, <4>3 DEF ThreadOf
    <3>4. QED
      BY <2>1, <3>2, <3>3 DEF NewOK
  <2>4. GoneOK(c)'
    BY <2>1, <2>2 DEF TxOK, GoneOK
  <2>5. WroteOK(c)'
    <3>1. WroteOK(c)
      BY <2>2 DEF TxOK
    <3>2. \A n \in DOMAIN tx[c].wrote : Concerns(c, View(c)[n]) => Concerns(c, View(c)[n])'
      BY <2>1 DEF Concerns, May
    <3>3. QED
      BY <2>1, <3>1, <3>2 DEF WroteOK
  <2>6. PageOK(c)'
    <3>1. PageOK(c)
      BY <2>2 DEF TxOK
    <3>2. \A x : Looked(c, x) => Looked(c, x)'
      BY <1>4, <1>9 DEF Looked
    <3>3. \A x : Still(c, x)' <=> Still(c, x)
      BY <2>1 DEF Still
    <3>4. \A p : Incoming(View(c), p)' = Incoming(View(c), p)
      BY <2>1
    <3>5. Looked(c, tx[c].now) => Looked(c, tx[c].now)'
      BY <2>1, <3>2
    <3>6. \A x \in tx[c].page : Kept(x.post)' => Kept(x.post)
      BY <1>3
    <3>7. /\ (Kept(tx[c].now.post)' => Kept(tx[c].now.post))
          /\ (Still(c, tx[c].now)' <=> Still(c, tx[c].now))
          /\ Incoming(View(c), tx[c].now.post)' = Incoming(View(c), tx[c].now.post)
      BY <1>3, <2>1, <3>3, <3>4
    <3>8. QED
      BY <2>1, <3>1, <3>2, <3>3, <3>5, <3>6, <3>7 DEF PageOK
  <2>7. TxOK(c)'
    BY <2>1, <2>2, <2>3, <2>4, <2>5, <2>6 DEF TxOK, IsTx
  <2>8. Held(c)' => DoneOK(c)'
    <3>1. SUFFICES ASSUME Held(c)' PROVE DoneOK(c)'
      OBVIOUS
    <3>2. DoneOK(c)
      BY <1>1, <2>1, <3>1 DEF Held
    <3>3. \A m, p : Pending(c, m, p)' <=> Pending(c, m, p)
      BY <2>1 DEF Pending, May
    <3>4. \A p : Incoming(View(c), p)' = Incoming(View(c), p)
      BY <2>1
    <3>5. ASSUME NEW m \in DOMAIN View(c), Kept(View(c)[m])', ~Pending(c, m, View(c)[m])'
          PROVE  RefsOf(c)[m] = Incoming(View(c), View(c)[m])
      <4>1. Kept(View(c)[m]) /\ ~Pending(c, m, View(c)[m])
        BY <1>3, <2>1, <3>3, <3>5
      <4>2. QED
        BY <3>2, <4>1 DEF DoneOK
    <3>6. QED
      BY <2>1, <3>5 DEF DoneOK
  <2>9. \A d \in Boards \ {b} : c # d => BoardsApart(c, d)'
    BY <1>1, <1>2 DEF BoardsApart, Held
  <2>10. QED
    BY <2>7, <2>8, <2>9
<1>11. QED
  BY <1>2, <1>3, <1>4, <1>6, <1>7, <1>8, <1>9, <1>10

\* A step of b's transaction is right if what it leaves b is.
LEMMA OwnStep ==
    ASSUME RefsAssumption, RefsInv, NEW b \in Boards, NEW t, tx' = [tx EXCEPT ![b] = t],
           posts' = posts, activRefs' = activRefs, begun' \in Nat, begun <= begun',
           seen \subseteq seen', crossed' \in BOOLEAN, crossed => crossed',
           \A n \in DOMAIN t.new :
               \/ t.new[n].num = begun + 1
               \/ n \in DOMAIN tx[b].new /\ t.new[n] = tx[b].new[n],
           TxOK(b)', Held(b)' => DoneOK(b)',
           \A c \in Boards \ {b} : BoardsApart(b, c)' /\ BoardsApart(c, b)'
    PROVE  RefsInv'
<1>1. /\ PostsOK' /\ CommittedOK' /\ tx' = [c \in Boards |-> tx'[c]]
      /\ \A c \in Boards \ {b} :
            /\ TxOK(c)' /\ (Held(c)' => DoneOK(c)')
            /\ \A d \in Boards \ {b} : c # d => BoardsApart(c, d)'
  BY OthersKept
<1>2. \A c \in Boards : TxOK(c)' /\ (Held(c)' => DoneOK(c)')
  BY <1>1
<1>3. \A c, d \in Boards : c # d => BoardsApart(c, d)'
  BY <1>1
<1>4. QED
  BY <1>1, <1>2, <1>3 DEF RefsInv

\* It holds in the beginning.
LEMMA RefsBegin == RefsAssumption /\ RefsInit => RefsInv
<1> SUFFICES ASSUME RefsAssumption, RefsInit PROVE RefsInv
  OBVIOUS
<1> USE DEF RefsInit
<1>1. DOMAIN posts = {} /\ DOMAIN activRefs = {} /\ \A b \in Boards : tx[b] = NoTx
  OBVIOUS
<1>2. /\ NoTx.at = "none" /\ DOMAIN NoTx.new = {} /\ NoTx.gone = {} /\ DOMAIN NoTx.wrote = {}
      /\ NoTx.page = {} /\ NoTx.todo = <<>> /\ NoTx.off = 0 /\ NoTx.full = FALSE /\ IsTx(NoTx)
      /\ NoTx.new = <<>> /\ NoTx.wrote = <<>>
  BY DEF NoTx, IsTx
<1>3. PostsOK
  <2>1. IsFiniteSet({})
    BY FS_EmptySet
  <2>2. posts = [n \in DOMAIN posts |-> posts[n]] /\ activRefs = [n \in DOMAIN posts |-> activRefs[n]]
    <3>1. \A f : <<>> = [n \in {} |-> f[n]]
      OBVIOUS
    <3>2. QED
      BY <1>1, <3>1
  <2>3. begun \in Nat /\ crossed \in BOOLEAN
    OBVIOUS
  <2>4. QED
    BY <1>1, <2>1, <2>2, <2>3 DEF PostsOK
<1>4. ASSUME NEW b \in Boards PROVE TxOK(b) /\ ~Held(b)
  <2>1. DOMAIN View(b) = {}
    BY <1>1, <1>2, <1>4, ViewIs
  <2>2. PageOK(b)
    <3>1. tx[b] = NoTx
      BY <1>1
    <3>2. \A S : <<>> \in Seq(S)
      OBVIOUS
    <3>3. tx[b].full \in BOOLEAN
      BY <1>2, <3>1, Zenon
    <3>4. tx[b].todo \in Seq(DOMAIN tx[b].new \cup tx[b].gone)
      BY <1>2, <3>1, <3>2, Zenon
    <3>5. tx[b].off \in Nat
      BY <1>2, <3>1
    <3>6. tx[b].page = {} /\ tx[b].at \notin {"declare", "fix", "update"}
      BY <1>2, <3>1
    <3>7. QED
      BY <3>3, <3>4, <3>5, <3>6 DEF PageOK
  <2>3. NewOK(b) /\ GoneOK(b) /\ WroteOK(b)
    BY <1>1, <1>2, <1>4 DEF NewOK, GoneOK, WroteOK
  <2>4. QED
    BY <1>1, <1>2, <1>4, <2>2, <2>3 DEF TxOK, Held
<1>5. \A b, c \in Boards : BoardsApart(b, c)
  BY <1>1, <1>2, <1>4 DEF BoardsApart
<1>6. CommittedOK
  BY <1>1 DEF CommittedOK
<1>7. QED
  BY <1>3, <1>4, <1>5, <1>6 DEF RefsInv

\* InsertNewThread and InsertNewReply keep it: the post has a name and a number
\* that no other has, and all posts that may refer to it are still to be looked
\* at.
LEMMA InsertStep ==
    ASSUME RefsAssumption, RefsInv, NEW b \in Boards, NEW n \in PostNames, NEW th,
           th = n \/ ThreadOf(b, th), InsertBPost(b, n, th)
    PROVE  RefsInv'
<1>1. /\ PostsOK /\ CommittedOK /\ tx = [c \in Boards |-> tx[c]]
      /\ \A c \in Boards : TxOK(c)
      /\ \A c, d \in Boards : c # d => BoardsApart(c, d)
  BY DEF RefsInv
<1>2. begun \in Nat /\ crossed \in BOOLEAN
  BY <1>1 DEF PostsOK
<1>3. PICK found \in Messages :
          BeginTx(b, [NoTx EXCEPT
                  !.at = "declare",
                  !.new = Only(n, [board |-> b, thread |-> th, num |-> begun + 1, found |-> found,
                                   irt |-> InReplyTo(posts, found, b, th)])])
  BY DEF InsertBPost
<1>4. PICK row : row = [board |-> b, thread |-> th, num |-> begun + 1, found |-> found,
                        irt |-> InReplyTo(posts, found, b, th)]
  OBVIOUS
<1>5. PICK t : t = [NoTx EXCEPT !.at = "declare", !.new = Only(n, row)]
  OBVIOUS
<1>6. /\ ~Held(b) /\ n \notin DOMAIN posts \cup Uncommitted
      /\ begun' = begun + 1 /\ seen' = seen \cup {<<b, n>>} /\ posts' = posts /\ activRefs' = activRefs
  BY DEF InsertBPost
<1>7. /\ tx' = [tx EXCEPT ![b] = t]
      /\ crossed' = (crossed \/ \E c \in Boards \ {b} : Held(c))
  BY <1>3, <1>4, <1>5 DEF BeginTx
<1>8. /\ t.at = "declare" /\ t.new = Only(n, row) /\ t.gone = {} /\ t.wrote = <<>> /\ t.todo = <<>>
      /\ t.off = 0 /\ t.page = {} /\ t.full = FALSE /\ IsTx(t)
  <2>1. t = [at |-> "declare", new |-> Only(n, row), gone |-> {}, wrote |-> <<>>, todo |-> <<>>,
             off |-> 0, page |-> {}, full |-> FALSE, now |-> NoPost, fresh |-> <<>>]
    BY <1>5 DEF NoTx
  <2>2. QED
    BY <2>1 DEF IsTx
<1>9. DOMAIN Only(n, row) = {n} /\ Only(n, row)[n] = row
  BY DEF Only
<1>10. /\ row.board = b /\ row.thread = th /\ row.num = begun + 1 /\ row.found = found
  BY <1>4
<1>11. tx'[b] = t
  BY <1>1, <1>7
<1>12. /\ begun' \in Nat /\ begun <= begun' /\ seen \subseteq seen' /\ crossed' \in BOOLEAN
       /\ (crossed => crossed')
       /\ \A m \in DOMAIN t.new : t.new[m].num = begun + 1
  BY <1>2, <1>6, <1>7, <1>8, <1>9, <1>10
<1>13. /\ \A p : Kept(p)' => Kept(p)
       /\ \A c \in Boards \ {b} : tx'[c] = tx[c]
  BY <1>1, <1>6, <1>7, <1>12, OthersKept
<1>14. PostRow(n, row)'
  <2>1. /\ n \in PostNames /\ row.board \in Boards /\ row.found \in Messages
        /\ row.num \in Nat /\ 0 < row.num /\ row.num <= begun' /\ <<row.board, n>> \in seen'
    BY <1>2, <1>6, <1>10
  <2>2. QED
    BY <2>1 DEF PostRow
<1>15. PostsOK' /\ \A k, p : PostRow(k, p) => PostRow(k, p)'
  BY <1>1, <1>6, <1>7, <1>12, OthersKept
<1>16. PICK W : W = View(b)'
  OBVIOUS
<1>17. /\ DOMAIN W = DOMAIN posts \cup {n} /\ W[n] = row
       /\ \A m \in DOMAIN posts : W[m] = posts[m] /\ m # n
       /\ RefsOf(b)' = activRefs
  <2>1. W = WrittenOn(t.new, Minus(posts, t.gone)) /\ RefsOf(b)' = WrittenOn(t.wrote, activRefs)
    BY <1>16, <1>6, <1>11 DEF View, RefsOf
  <2>2. activRefs = [m \in DOMAIN posts |-> activRefs[m]]
    BY <1>1 DEF PostsOK
  <2>3. WrittenOn(<<>>, activRefs) = activRefs
    BY <2>2 DEF WrittenOn
  <2>4. QED
    BY <1>6, <1>8, <1>9, <2>1, <2>3 DEF WrittenOn, Minus
<1>18. TxOK(b)'
  <2>1. NewOK(b)'
    <3>1. t.new = [m \in DOMAIN t.new |-> t.new[m]]
      BY <1>8 DEF Only
    <3>2. row.thread # n => ThreadOf(b, row.thread)'
      BY <1>6, <1>10 DEF ThreadOf
    <3>3. \A m \in DOMAIN posts : posts[m].num # row.num
      <4>1. \A m \in DOMAIN posts : posts[m].num \in Nat /\ posts[m].num <= begun
        BY <1>1 DEF PostsOK, PostRow
      <4>2. QED
        BY <1>2, <1>10, <4>1
    <3>4. QED
      BY <1>6, <1>8, <1>9, <1>10, <1>11, <1>14, <3>1, <3>2, <3>3 DEF NewOK
  <2>2. GoneOK(b)'
    BY <1>8, <1>11 DEF GoneOK
  <2>3. WroteOK(b)'
    <3>1. t.wrote = [m \in DOMAIN t.wrote |-> t.wrote[m]] /\ DOMAIN t.wrote = {}
      BY <1>8
    <3>2. QED
      BY <1>8, <1>11, <3>1 DEF WroteOK
  <2>4. PageOK(b)'
    <3>1. \A S : <<>> \in Seq(S)
      OBVIOUS
    <3>2. t.full \in BOOLEAN
      BY <1>8, Zenon
    <3>3. t.todo \in Seq(DOMAIN t.new \cup t.gone)
      BY <1>8, <3>1, Zenon
    <3>4. /\ t.off \in Nat
          /\ t.page = {} /\ t.at = "declare" /\ DOMAIN t.new # {} /\ DOMAIN t.wrote = {} /\ t.off = 0
          /\ t.todo = <<>>
      BY <1>8, <1>9
    <3>5. QED
      BY <1>11, <3>2, <3>3, <3>4 DEF PageOK
  <2>5. QED
    BY <1>8, <1>11, <2>1, <2>2, <2>3, <2>4 DEF TxOK
<1>19. DoneOK(b)'
  <2>1. ASSUME NEW m \in DOMAIN W, Kept(W[m])', ~Pending(b, m, W[m])'
        PROVE  activRefs[m] = Incoming(W, W[m])
    <3>1. m # n /\ ~May(W[m], n, b)
      BY <1>8, <1>9, <1>11, <2>1 DEF Pending, May
    <3>2. m \in DOMAIN posts /\ W[m] = posts[m] /\ W[m].found \in Messages
      BY <1>1, <1>17, <3>1 DEF PostsOK, PostRow
    <3>3. Kept(posts[m])
      BY <1>13, <2>1, <3>2
    <3>4. activRefs[m] = Incoming(posts, W[m])
      BY <1>1, <3>2, <3>3 DEF CommittedOK
    <3>5. SameFor(posts, W, W[m])
      BY <1>10, <1>17, <3>1 DEF SameFor
    <3>6. Incoming(posts, W[m]) = Incoming(W, W[m])
      BY <1>1, <3>2, <3>5, PostsView, Relevance
    <3>7. QED
      BY <3>4, <3>6
  <2>2. QED
    BY <1>16, <1>17, <2>1 DEF DoneOK
<1>20. ASSUME NEW c \in Boards \ {b} PROVE BoardsApart(b, c)' /\ BoardsApart(c, b)'
  <2>1. tx'[c] = tx[c] /\ DOMAIN tx[c].new \cap {n} = {}
    BY <1>6, <1>13 DEF Uncommitted
  <2>2. \A m \in DOMAIN tx[c].new : tx[c].new[m].num # row.num
    <3>1. \A m \in DOMAIN tx[c].new : PostRow(m, tx[c].new[m])
      BY <1>1 DEF TxOK, NewOK
    <3>2. \A m \in DOMAIN tx[c].new : tx[c].new[m].num \in Nat /\ tx[c].new[m].num <= begun
      BY <3>1 DEF PostRow
    <3>3. QED
      BY <1>2, <1>10, <3>2
  <2>3. Held(c)' => crossed'
    BY <1>7, <2>1 DEF Held
  <2>4. DOMAIN tx[c].wrote \cap {n} = {}
    <3>1. \A m \in DOMAIN tx[c].wrote : m \in DOMAIN View(c)
      BY <1>1 DEF TxOK, WroteOK
    <3>2. DOMAIN View(c) = DOMAIN tx[c].new \cup (DOMAIN posts \ tx[c].gone)
      BY ViewIs
    <3>3. QED
      BY <1>6, <2>1, <3>1, <3>2
  <2>5. DOMAIN t.wrote = {} /\ t.gone = {} /\ DOMAIN t.new = {n} /\ t.new[n] = row
    BY <1>8, <1>9
  <2>6. QED
    BY <1>11, <2>1, <2>2, <2>3, <2>5 DEF BoardsApart
<1>21. QED
  BY <1>6, <1>7, <1>12, <1>18, <1>19, <1>20, OwnStep

\* deleteByMsgID keeps it: whole threads go, and all posts that may refer to one
\* of them are still to be looked at.
LEMMA DeleteRefsStep ==
    ASSUME RefsAssumption, RefsInv, NEW b \in Boards, DeleteByMsgID(b)
    PROVE  RefsInv'
<1>1. /\ PostsOK /\ CommittedOK /\ tx = [c \in Boards |-> tx[c]]
      /\ \A c \in Boards : TxOK(c)
      /\ \A c, d \in Boards : c # d => BoardsApart(c, d)
  BY DEF RefsInv
<1>2. begun \in Nat /\ crossed \in BOOLEAN
  BY <1>1 DEF PostsOK
<1> DEFINE Nuked(n) == {n} \cup {m \in DOMAIN posts : posts[m].thread = n}
           Begun(nuked) == [NoTx EXCEPT !.at = "find", !.gone = nuked,
                                        !.todo = Sorted(nuked, [m \in nuked |-> posts[m].num])]
<1>3. PICK n \in DOMAIN posts \ Uncommitted :
          /\ posts[n].board = b /\ Nuked(n) \cap Uncommitted = {}
          /\ \A m \in Nuked(n) : ~RowLocked(b, m)
          /\ BeginTx(b, Begun(Nuked(n)))
  BY DEF DeleteByMsgID
<1>4. PICK nuked : nuked = Nuked(n)
  OBVIOUS
<1>5. PICK key : key = [m \in nuked |-> posts[m].num]
  OBVIOUS
<1>6. PICK t : t = [NoTx EXCEPT !.at = "find", !.gone = nuked, !.todo = Sorted(nuked, key)]
  OBVIOUS
<1>7. /\ ~Held(b) /\ begun' = begun + 1 /\ seen' = seen /\ posts' = posts /\ activRefs' = activRefs
  BY DEF DeleteByMsgID
<1>8. /\ tx' = [tx EXCEPT ![b] = t]
      /\ crossed' = (crossed \/ \E c \in Boards \ {b} : Held(c))
  BY <1>3, <1>4, <1>5, <1>6 DEF BeginTx
<1>9. /\ t.at = "find" /\ t.new = <<>> /\ t.gone = nuked /\ t.wrote = <<>> /\ t.todo = Sorted(nuked, key)
      /\ t.off = 0 /\ t.page = {} /\ t.full = FALSE /\ IsTx(t)
  <2>1. t = [at |-> "find", new |-> <<>>, gone |-> nuked, wrote |-> <<>>, todo |-> Sorted(nuked, key),
             off |-> 0, page |-> {}, full |-> FALSE, now |-> NoPost, fresh |-> <<>>]
    BY <1>6 DEF NoTx
  <2>2. QED
    BY <2>1 DEF IsTx
<1>10. /\ nuked \subseteq DOMAIN posts /\ n \in nuked /\ nuked \cap Uncommitted = {}
       /\ \A m \in nuked : ~RowLocked(b, m)
       /\ \A m \in nuked : m = n \/ posts[m].thread = n
       /\ \A m \in DOMAIN posts : posts[m].thread = n => m \in nuked
  BY <1>3, <1>4
<1>11. posts[n].board = b
  BY <1>3
<1> HIDE DEF Nuked, Begun
<1>12. tx'[b] = t
  BY <1>1, <1>8
<1>13. /\ begun' \in Nat /\ begun <= begun' /\ seen \subseteq seen' /\ crossed' \in BOOLEAN
       /\ (crossed => crossed') /\ DOMAIN t.new = {}
  BY <1>2, <1>7, <1>8, <1>9
<1>14. /\ \A p : Kept(p)' => Kept(p)
       /\ \A c \in Boards \ {b} : tx'[c] = tx[c]
  BY <1>1, <1>7, <1>8, <1>13, OthersKept
<1>15. \A m \in DOMAIN posts : PostRow(m, posts[m]) /\ ThreadOf(posts[m].board, posts[m].thread)
  BY <1>1 DEF PostsOK
<1>16. /\ \A m \in nuked : posts[m].board = b
       /\ \A m \in DOMAIN posts : posts[m].thread \in nuked => m \in nuked
  <2>1. ASSUME NEW m \in nuked PROVE posts[m].board = b
    BY <1>10, <1>11, <1>15 DEF ThreadOf
  <2>2. ASSUME NEW m \in DOMAIN posts, posts[m].thread \in nuked PROVE m \in nuked
    <3>1. posts[posts[m].thread].thread = posts[m].thread
      BY <1>15 DEF ThreadOf
    <3>2. posts[m].thread = n
      BY <1>10, <2>2, <3>1
    <3>3. QED
      BY <1>10, <3>2
  <2>3. QED
    BY <2>1, <2>2
<1>17. SortedBy(t.todo, nuked, key)
  <2>1. nuked \in SUBSET DOMAIN posts /\ IsFiniteSet(DOMAIN posts)
    BY <1>1, <1>10 DEF PostsOK
  <2>2. IsFiniteSet(nuked)
    BY <2>1, FS_Subset
  <2>3. /\ \A x \in nuked : key[x] \in Int
        /\ \A x, y \in nuked : key[x] = key[y] => x = y
    <3>1. \A x \in nuked : key[x] = posts[x].num /\ x \in DOMAIN posts
      BY <1>5, <1>10
    <3>2. \A x \in DOMAIN posts : posts[x].num \in Nat
      BY <1>15 DEF PostRow
    <3>3. \A x, y \in DOMAIN posts : posts[x].num = posts[y].num => x = y
      BY <1>1 DEF PostsOK
    <3>4. QED
      BY <3>1, <3>2, <3>3
  <2>4. QED
    BY <1>9, <2>2, <2>3, SortedIs
<1>18. PICK W : W = View(b)'
  OBVIOUS
<1>19. /\ DOMAIN W = DOMAIN posts \ nuked
       /\ \A m \in DOMAIN W : W[m] = posts[m]
       /\ RefsOf(b)' = activRefs
  <2>1. W = WrittenOn(t.new, Minus(posts, t.gone)) /\ RefsOf(b)' = WrittenOn(t.wrote, activRefs)
    BY <1>18, <1>7, <1>12 DEF View, RefsOf
  <2>2. activRefs = [m \in DOMAIN posts |-> activRefs[m]]
    BY <1>1 DEF PostsOK
  <2>3. WrittenOn(<<>>, activRefs) = activRefs
    BY <2>2 DEF WrittenOn
  <2>4. QED
    BY <1>9, <1>10, <2>1, <2>3 DEF WrittenOn, Minus
<1>20. TxOK(b)'
  <2>1. NewOK(b)'
    <3>1. t.new = [m \in DOMAIN t.new |-> t.new[m]]
      BY <1>9
    <3>2. QED
      BY <1>12, <1>13, <3>1 DEF NewOK
  <2>2. GoneOK(b)'
    BY <1>7, <1>9, <1>10, <1>12, <1>16 DEF GoneOK
  <2>3. WroteOK(b)'
    <3>1. t.wrote = [m \in DOMAIN t.wrote |-> t.wrote[m]] /\ DOMAIN t.wrote = {}
      BY <1>9
    <3>2. QED
      BY <1>12, <1>13, <3>1 DEF WroteOK
  <2>4. PageOK(b)'
    <3>1. t.full \in BOOLEAN
      BY <1>9, Zenon
    <3>2. t.todo \in Seq(DOMAIN t.new \cup t.gone)
      <4>1. t.todo \in [1 .. Cardinality(nuked) -> nuked] /\ Cardinality(nuked) \in Nat
        BY <1>17 DEF SortedBy
      <4>2. t.todo \in Seq(nuked)
        BY <4>1
      <4>3. DOMAIN t.new \cup t.gone = nuked
        BY <1>9, <1>13
      <4>4. QED
        BY <4>2, <4>3
    <3>3. t.off \in Nat /\ t.page = {} /\ t.at = "find"
      BY <1>9
    <3>4. QED
      BY <1>12, <3>1, <3>2, <3>3 DEF PageOK
  <2>5. QED
    BY <1>9, <1>12, <2>1, <2>2, <2>3, <2>4 DEF TxOK
<1>21. DoneOK(b)'
  <2>1. ASSUME NEW m \in DOMAIN W, Kept(W[m])', ~Pending(b, m, W[m])'
        PROVE  activRefs[m] = Incoming(W, W[m])
    <3>1. m \in DOMAIN posts /\ W[m] = posts[m] /\ W[m].found \in Messages /\ W[m].num > 0
      BY <1>15, <1>19 DEF PostRow
    <3>2. ASSUME NEW k \in nuked PROVE ~May(W[m], k, b)
      <4>1. PICK i \in 1 .. Cardinality(nuked) : t.todo[i] = k
        BY <1>17 DEF SortedBy
      <4>2. Cardinality(nuked) \in Nat /\ DOMAIN t.todo = 1 .. Cardinality(nuked)
        BY <1>17 DEF SortedBy
      <4>3. t.todo # <<>>
        BY <4>1, <4>2
      <4>4. ~ \E j \in DOMAIN t.todo : j > 1 /\ May(W[m], t.todo[j], b)
        BY <1>12, <2>1 DEF Pending, May
      <4>5. ~May(W[m], t.todo[1], b)
        BY <1>9, <1>12, <2>1, <3>1, <4>3 DEF Pending, May
      <4>6. QED
        BY <4>1, <4>2, <4>4, <4>5
    <3>3. Kept(posts[m])
      BY <1>14, <2>1, <3>1
    <3>4. activRefs[m] = Incoming(posts, W[m])
      BY <1>1, <3>1, <3>3 DEF CommittedOK
    <3>5. SameFor(posts, W, W[m])
      BY <1>16, <1>19, <3>2 DEF SameFor
    <3>6. Incoming(posts, W[m]) = Incoming(W, W[m])
      BY <1>1, <3>1, <3>5, PostsView, Relevance
    <3>7. QED
      BY <3>4, <3>6
  <2>2. QED
    BY <1>18, <1>19, <2>1 DEF DoneOK
<1>22. ASSUME NEW c \in Boards \ {b} PROVE BoardsApart(b, c)' /\ BoardsApart(c, b)'
  <2>1. tx'[c] = tx[c] /\ DOMAIN tx[c].wrote \cap nuked = {}
    BY <1>10, <1>14 DEF RowLocked
  <2>2. Held(c)' => crossed'
    BY <1>8, <2>1 DEF Held
  <2>3. DOMAIN t.wrote = {} /\ t.gone = nuked
    BY <1>9
  <2>4. QED
    BY <1>12, <1>13, <2>1, <2>2, <2>3 DEF BoardsApart
<1>23. QED
  BY <1>7, <1>8, <1>13, <1>20, <1>21, <1>22, OwnStep

\* What b's transaction is, where it goes on by itself.
LEMMA OwnTx ==
    ASSUME RefsAssumption, RefsInv, NEW b \in Boards, NEW t, Go(b, t),
           \A n \in DOMAIN t.new : n \in DOMAIN tx[b].new /\ t.new[n] = tx[b].new[n]
    PROVE  /\ tx'[b] = t /\ TxOK(b) /\ (Held(b) => DoneOK(b))
           /\ ViewOK(View(b)) /\ \A n \in DOMAIN View(b) : PostRow(n, View(b)[n])
           /\ PostsOK /\ (t.new = tx[b].new /\ t.gone = tx[b].gone => View(b)' = View(b))
           /\ (t.wrote = tx[b].wrote => RefsOf(b)' = RefsOf(b))
           /\ \A p : Kept(p)' <=> Kept(p)
           /\ \A c, p : Concerns(c, p)' <=> Concerns(c, p)
           /\ \A p : OneRow(p) /\ p.num \in Nat => OneRow(p)'
           /\ \A c \in Boards \ {b} : tx'[c] = tx[c] /\ TxOK(c) /\ BoardsApart(b, c) /\ BoardsApart(c, b)
           /\ TxOK(b)' /\ (Held(b)' => DoneOK(b)')
                /\ (\A c \in Boards \ {b} : BoardsApart(b, c)' /\ BoardsApart(c, b)') => RefsInv'
<1>1. /\ PostsOK /\ tx = [c \in Boards |-> tx[c]]
      /\ \A c \in Boards : TxOK(c) /\ (Held(c) => DoneOK(c))
      /\ \A c, d \in Boards : c # d => BoardsApart(c, d)
  BY DEF RefsInv
<1>2. /\ tx' = [tx EXCEPT ![b] = t] /\ posts' = posts /\ activRefs' = activRefs
      /\ begun' = begun /\ seen' = seen /\ crossed' = crossed
  BY DEF Go
<1>3. begun \in Nat /\ crossed \in BOOLEAN
  BY <1>1 DEF PostsOK
<1>4. tx'[b] = t /\ \A c \in Boards \ {b} : tx'[c] = tx[c]
  BY <1>1, <1>2
<1>5. begun' \in Nat /\ begun <= begun' /\ seen \subseteq seen' /\ crossed' \in BOOLEAN /\ (crossed => crossed')
  BY <1>2, <1>3
<1>6. /\ \A p : Kept(p)' <=> Kept(p)
      /\ \A c, p : Concerns(c, p)' <=> Concerns(c, p)
  BY <1>2 DEF Kept, LocalPost, Concerns, May
<1>7. \A p : OneRow(p) /\ p.num \in Nat => OneRow(p)'
  BY <1>2, <1>5, OthersKept
<1>8. ViewOK(View(b)) /\ \A n \in DOMAIN View(b) : PostRow(n, View(b)[n])
  BY <1>1, TxView DEF TxOK
<1>9. /\ (t.new = tx[b].new /\ t.gone = tx[b].gone => View(b)' = View(b))
      /\ (t.wrote = tx[b].wrote => RefsOf(b)' = RefsOf(b))
  BY <1>2, <1>4 DEF View, RefsOf
<1>10. TxOK(b)' /\ (Held(b)' => DoneOK(b)')
         /\ (\A c \in Boards \ {b} : BoardsApart(b, c)' /\ BoardsApart(c, b)') => RefsInv'
  BY <1>2, <1>5, OwnStep
<1>11. QED
  BY <1>1, <1>4, <1>6, <1>7, <1>8, <1>9, <1>10

\* NewOK and GoneOK are about what is added and deleted alone.
LEMMA SameRows ==
    ASSUME RefsAssumption, RefsInv, NEW b \in Boards, NEW t, Go(b, t),
           t.new = tx[b].new, t.gone = tx[b].gone
    PROVE  NewOK(b)' /\ GoneOK(b)'
<1>1. TxOK(b) /\ tx'[b] = t
  BY OwnTx
<1>2. posts' = posts /\ begun' = begun /\ seen' = seen
  BY DEF Go
<1>3. \A n \in DOMAIN tx[b].new : PostRow(n, tx[b].new[n])' <=> PostRow(n, tx[b].new[n])
  BY <1>1, <1>2 DEF PostRow
<1>4. QED
  BY <1>1, <1>2, <1>3 DEF TxOK, NewOK, GoneOK, ThreadOf

\* ProcessRefsAfterPost keeps it up to the fixup: the own references of the post
\* are right.
LEMMA DeclareStep ==
    ASSUME RefsAssumption, RefsInv, NEW b \in Boards, Declare(b)
    PROVE  RefsInv'
<1>1. PICK n : n = CHOOSE m \in DOMAIN tx[b].new : TRUE
  OBVIOUS
<1>2. PICK V : V = View(b)
  OBVIOUS
<1>3. PICK t : t = [tx[b] EXCEPT !.at = "find", !.todo = <<n>>, !.wrote = Only(n, Incoming(V, V[n]))]
  OBVIOUS
<1>4. tx[b].at = "declare" /\ Go(b, t)
  BY <1>1, <1>2, <1>3 DEF Declare
<1>5. TxOK(b) /\ DoneOK(b)
  BY <1>4 DEF RefsInv, Held
<1>6. /\ t.at = "find" /\ t.new = tx[b].new /\ t.gone = tx[b].gone /\ t.todo = <<n>>
      /\ t.wrote = Only(n, Incoming(V, V[n]))
      /\ t.off = tx[b].off /\ t.page = tx[b].page /\ t.full = tx[b].full /\ IsTx(t)
  <2>1. IsTx(tx[b])
    BY <1>5 DEF TxOK
  <2>2. t = [at |-> "find", new |-> tx[b].new, gone |-> tx[b].gone, wrote |-> Only(n, Incoming(V, V[n])),
             todo |-> <<n>>, off |-> tx[b].off, page |-> tx[b].page, full |-> tx[b].full,
             now |-> tx[b].now, fresh |-> tx[b].fresh]
    BY <1>3, <2>1 DEF IsTx
  <2>3. QED
    BY <2>2 DEF IsTx
<1>7. /\ tx'[b] = t /\ View(b)' = V /\ ViewOK(V) /\ \A m \in DOMAIN V : PostRow(m, V[m])
      /\ \A p : Kept(p)' <=> Kept(p)
      /\ \A c, p : Concerns(c, p)' <=> Concerns(c, p)
      /\ \A p : OneRow(p) /\ p.num \in Nat => OneRow(p)'
      /\ PostsOK
  BY <1>2, <1>4, <1>6, OwnTx
<1>8. DOMAIN tx[b].new # {} /\ DOMAIN tx[b].wrote = {} /\ tx[b].off = 0
  BY <1>4, <1>5 DEF TxOK, PageOK
<1>9. /\ n \in DOMAIN tx[b].new /\ DOMAIN tx[b].new = {n} /\ tx[b].new[n].board = b /\ n \notin DOMAIN posts
      /\ n \in DOMAIN V /\ V[n] = tx[b].new[n]
  <2>1. n \in DOMAIN tx[b].new
    BY <1>1, <1>8
  <2>2. \A m, k \in DOMAIN tx[b].new : m = k
    BY <1>5 DEF TxOK, NewOK
  <2>3. tx[b].new[n].board = b /\ n \notin DOMAIN posts
    BY <1>5, <2>1 DEF TxOK, NewOK
  <2>4. n \in DOMAIN V /\ V[n] = tx[b].new[n]
    BY <1>2, <2>1, ViewIs
  <2>5. QED
    BY <2>1, <2>2, <2>3, <2>4
<1>10. /\ DOMAIN t.wrote = {n} /\ t.wrote[n] = Incoming(V, V[n])
       /\ t.wrote = [m \in DOMAIN t.wrote |-> t.wrote[m]]
  BY <1>6 DEF Only
<1>11. PICK R : R = RefsOf(b)'
  OBVIOUS
<1>12. /\ R[n] = Incoming(V, V[n])
       /\ \A m \in DOMAIN posts : R[m] = RefsOf(b)[m]
  <2>1. R = WrittenOn(t.wrote, activRefs)
    BY <1>4, <1>7, <1>11 DEF RefsOf, Go
  <2>2. DOMAIN activRefs = DOMAIN posts
    BY <1>7, PostsView
  <2>3. R[n] = Incoming(V, V[n]) /\ \A m \in DOMAIN posts : R[m] = activRefs[m]
    BY <1>9, <1>10, <2>1, <2>2 DEF WrittenOn
  <2>4. \A m \in DOMAIN posts : RefsOf(b)[m] = activRefs[m]
    BY <1>8, <2>2, ViewIs
  <2>5. QED
    BY <2>3, <2>4
<1>13. \A m \in DOMAIN V : m = n \/ m \in DOMAIN posts
  BY <1>2, <1>9, ViewIs
<1>14. WroteOK(b)'
  <2>1. Concerns(b, V[n])'
    BY <1>7, <1>9 DEF Concerns
  <2>2. QED
    BY <1>6, <1>7, <1>9, <1>10, <2>1 DEF WroteOK
<1>15. PageOK(b)'
  <2>1. tx[b].page = {} /\ tx[b].full \in BOOLEAN
    BY <1>4, <1>5 DEF TxOK, PageOK
  <2>2. <<n>> \in Seq(DOMAIN t.new \cup t.gone)
    <3>1. n \in DOMAIN t.new \cup t.gone
      BY <1>6, <1>9
    <3>2. QED
      BY <3>1
  <2>3. t.full \in BOOLEAN
    BY <1>6, <2>1, Zenon
  <2>4. t.todo \in Seq(DOMAIN t.new \cup t.gone) /\ t.off \in Nat /\ t.page = {}
    BY <1>6, <1>8, <2>1, <2>2
  <2>5. QED
    BY <1>6, <1>7, <2>3, <2>4 DEF PageOK
<1>16. TxOK(b)'
  <2>1. NewOK(b)' /\ GoneOK(b)'
    BY <1>4, <1>6, SameRows
  <2>2. QED
    BY <1>6, <1>7, <1>14, <1>15, <2>1 DEF TxOK
<1>17. DoneOK(b)'
  <2>1. ASSUME NEW m \in DOMAIN V, Kept(V[m])', ~Pending(b, m, V[m])'
        PROVE  R[m] = Incoming(V, V[m])
    <3>1. CASE m = n
      BY <1>12, <3>1
    <3>2. CASE m # n
      <4>1. ~May(V[m], n, b)
        <5>1. V[m].num > t.off
          <6>1. PostRow(m, V[m])
            BY <1>7
          <6>2. QED
            BY <1>6, <1>8, <6>1 DEF PostRow
        <5>2. t.todo[1] = n /\ t.todo # <<>> /\ V[m].num > t.off
          BY <1>6, <5>1
        <5>3. ~(t.todo # <<>> /\ May(V[m], t.todo[1], b) /\ t.at = "find" /\ V[m].num > t.off)
          BY <1>7, <2>1 DEF Pending, May
        <5>4. QED
          BY <1>6, <5>2, <5>3
      <4>2. ~Pending(b, m, V[m])
        <5>1. ~ \E k \in DOMAIN tx[b].new : m = k \/ May(V[m], k, b)
          BY <1>9, <3>2, <4>1
        <5>2. tx[b].todo = <<>>
          BY <1>4, <1>5 DEF TxOK, PageOK
        <5>3. DOMAIN tx[b].todo = {}
          BY <5>2
        <5>4. QED
          BY <1>4, <5>1, <5>2, <5>3 DEF Pending
      <4>3. QED
        BY <1>2, <1>4, <1>5, <1>7, <1>12, <1>13, <2>1, <3>2, <4>2 DEF DoneOK
    <3>3. QED
      BY <3>1, <3>2
  <2>2. QED
    BY <1>7, <1>11, <2>1 DEF DoneOK
<1>18. ASSUME NEW c \in Boards \ {b} PROVE BoardsApart(b, c)' /\ BoardsApart(c, b)'
  <2>1. tx'[c] = tx[c] /\ BoardsApart(b, c) /\ BoardsApart(c, b) /\ TxOK(c)
    BY <1>4, <1>6, OwnTx
  <2>2. n \notin tx[c].gone
    BY <1>9, <2>1 DEF TxOK, GoneOK
  <2>3. n \notin DOMAIN tx[c].wrote
    <3>1. n \in DOMAIN tx[c].wrote => n \in DOMAIN View(c)
      BY <2>1 DEF TxOK, WroteOK
    <3>2. n \notin DOMAIN tx[c].new
      BY <1>9, <2>1 DEF BoardsApart
    <3>3. QED
      BY <1>9, <3>1, <3>2, ViewIs
  <2>4. crossed' = crossed /\ Held(b)
    BY <1>4 DEF Go, Held
  <2>5. QED
    BY <1>6, <1>7, <1>10, <2>1, <2>2, <2>3, <2>4 DEF BoardsApart, Held
<1>19. QED
  BY <1>4, <1>6, <1>16, <1>17, <1>18, OwnTx

\* The parts of NewOK.
LEMMA NewParts ==
    ASSUME NEW b, NewOK(b)
    PROVE  /\ \A n, m \in DOMAIN tx[b].new : n = m
           /\ \A n \in DOMAIN tx[b].new :
                  /\ PostRow(n, tx[b].new[n]) /\ tx[b].new[n].board = b /\ n \notin DOMAIN posts
                  /\ (tx[b].new[n].thread # n => ThreadOf(b, tx[b].new[n].thread))
                  /\ tx[b].gone = {}
           /\ \A n \in DOMAIN tx[b].new, m \in DOMAIN posts : posts[m].num # tx[b].new[n].num
  BY DEF NewOK

\* A post that b sees is the only one with its number.
LEMMA OneNumber ==
    ASSUME RefsAssumption, RefsInv, NEW b \in Boards, NEW m \in DOMAIN View(b)
    PROVE  OneRow(View(b)[m])
<1>1. /\ PostsOK /\ \A c \in Boards : TxOK(c) /\ NewOK(c)
      /\ \A c, d \in Boards : c # d => BoardsApart(c, d)
  BY DEF RefsInv, TxOK
<1>2. PICK p : p = View(b)[m]
  OBVIOUS
<1>3. /\ PostRow(m, p)
      /\ \/ m \in DOMAIN tx[b].new /\ p = tx[b].new[m] /\ m \notin DOMAIN posts
         \/ m \in DOMAIN posts /\ p = posts[m]
  BY <1>1, <1>2, TxView
<1>4. ASSUME NEW n \in DOMAIN posts, posts[n].num = p.num PROVE posts[n] = p
  <2>1. CASE m \in DOMAIN tx[b].new /\ p = tx[b].new[m]
    <3>1. posts[n].num # tx[b].new[m].num
      BY <1>1, <2>1, NewParts
    <3>2. QED
      BY <1>4, <2>1, <3>1
  <2>2. CASE m \in DOMAIN posts /\ p = posts[m]
    BY <1>1, <1>4, <2>2 DEF PostsOK
  <2>3. QED
    BY <1>3, <2>1, <2>2
<1>5. ASSUME NEW c \in Boards, NEW n \in DOMAIN tx[c].new, tx[c].new[n].num = p.num
      PROVE  tx[c].new[n] = p
  <2>1. CASE m \in DOMAIN tx[b].new /\ p = tx[b].new[m]
    <3>1. c = b
      BY <1>1, <1>5, <2>1 DEF BoardsApart
    <3>2. n = m
      BY <1>1, <1>5, <2>1, <3>1, NewParts
    <3>3. QED
      BY <2>1, <3>1, <3>2
  <2>2. CASE m \in DOMAIN posts /\ p = posts[m]
    <3>1. posts[m].num # tx[c].new[n].num
      BY <1>1, <1>5, <2>2, NewParts
    <3>2. QED
      BY <1>5, <2>2, <3>1
  <2>3. QED
    BY <1>3, <2>1, <2>2
<1>6. QED
  BY <1>2, <1>3, <1>4, <1>5 DEF OneRow, PostRow

\* FindReferences keeps it: a post behind off that may refer to what was added or
\* deleted is on the page, or behind all that are if the page is full.
LEMMA FindStep ==
    ASSUME RefsAssumption, RefsInv, NEW b \in Boards, FindReferences(b)
    PROVE  RefsInv'
<1>1. tx[b].at = "find" /\ tx[b].todo # <<>>
  BY DEF FindReferences
<1>2. PICK behind : behind = Referring(b, Head(tx[b].todo), tx[b].off)
  OBVIOUS
<1>3. PICK k : k = IF Len(behind) < PageLen THEN Len(behind) ELSE PageLen
  OBVIOUS
<1>4. PICK page : page = SubSeq(behind, 1, k)
  OBVIOUS
<1>5. PICK V : V = View(b)
  OBVIOUS
<1>6. PICK R : R = RefsOf(b)
  OBVIOUS
<1>7. PICK onPage : onPage = {[name |-> m, post |-> V[m], was |-> R[m], left |-> TRUE] : m \in Range(page)}
  OBVIOUS
<1>8. PICK t : t = [tx[b] EXCEPT !.at = "fix", !.full = Len(page) = PageLen, !.page = onPage]
  OBVIOUS
<1>9. Go(b, t)
  BY <1>2, <1>3, <1>4, <1>5, <1>6, <1>7, <1>8 DEF FindReferences
<1>10. TxOK(b) /\ DoneOK(b)
  BY <1>1 DEF RefsInv, Held
<1>11. /\ t.at = "fix" /\ t.new = tx[b].new /\ t.gone = tx[b].gone /\ t.todo = tx[b].todo
       /\ t.wrote = tx[b].wrote /\ t.page = onPage /\ IsTx(t) /\ t.off = tx[b].off
       /\ t.full = (Len(page) = PageLen)
  <2>1. IsTx(tx[b])
    BY <1>10 DEF TxOK
  <2>2. t = [at |-> "fix", new |-> tx[b].new, gone |-> tx[b].gone, wrote |-> tx[b].wrote,
             todo |-> tx[b].todo, off |-> tx[b].off, page |-> onPage, full |-> (Len(page) = PageLen),
             now |-> tx[b].now, fresh |-> tx[b].fresh]
    BY <1>8, <2>1 DEF IsTx
  <2>3. QED
    BY <2>2 DEF IsTx
<1>12. /\ tx'[b] = t /\ View(b)' = V /\ RefsOf(b)' = R
       /\ ViewOK(V) /\ \A m \in DOMAIN V : PostRow(m, V[m])
       /\ \A p : Kept(p)' <=> Kept(p)
       /\ \A c, p : Concerns(c, p)' <=> Concerns(c, p)
       /\ \A p : OneRow(p) /\ p.num \in Nat => OneRow(p)'
       /\ PostsOK
  BY <1>5, <1>6, <1>9, <1>11, OwnTx
<1>13. PICK n : n = tx[b].todo[1]
  OBVIOUS
<1>14. /\ n \in DOMAIN tx[b].new \cup tx[b].gone /\ n = Head(tx[b].todo)
       /\ tx[b].off \in Nat
       /\ tx[b].todo \in Seq(DOMAIN tx[b].new \cup tx[b].gone)
  <2>1. tx[b].todo \in Seq(DOMAIN tx[b].new \cup tx[b].gone) /\ tx[b].off \in Nat
    BY <1>10 DEF TxOK, PageOK
  <2>2. QED
    BY <1>1, <1>13, <2>1
<1>15. <<b, n>> \in seen /\ (n \in tx[b].gone => posts[n].board = b)
       /\ (n \notin tx[b].gone => V[n].board = b)
  <2>1. CASE n \in tx[b].gone
    <3>1. n \in DOMAIN posts /\ posts[n].board = b
      BY <1>10, <2>1 DEF TxOK, GoneOK
    <3>2. PostRow(n, posts[n])
      BY <1>12, <3>1, PostsView
    <3>3. QED
      BY <2>1, <3>1, <3>2 DEF PostRow
  <2>2. CASE n \notin tx[b].gone
    <3>1. n \in DOMAIN tx[b].new
      BY <1>14, <2>2
    <3>2. n \in DOMAIN V /\ V[n] = tx[b].new[n] /\ tx[b].new[n].board = b
      <4>1. tx[b].new[n].board = b
        BY <1>10, <3>1, NewParts DEF TxOK
      <4>2. n \in DOMAIN V /\ V[n] = tx[b].new[n]
        BY <1>5, <3>1, ViewIs
      <4>3. QED
        BY <4>1, <4>2
    <3>3. PostRow(n, V[n])
      BY <1>12, <3>2
    <3>4. QED
      BY <2>2, <3>2, <3>3 DEF PostRow
  <2>3. QED
    BY <2>1, <2>2
<1>16. PICK refer : refer = {m \in DOMAIN V : V[m].num > tx[b].off /\ May(V[m], n, b)}
  OBVIOUS
<1>17. PICK key : key = [m \in refer |-> V[m].num]
  OBVIOUS
<1>18. behind = Sorted(refer, key)
  <2> DEFINE board == IF n \in tx[b].gone THEN posts[n].board ELSE V[n].board
             R2 == {m \in DOMAIN V : V[m].num > tx[b].off /\ \E r \in Xrefs(V[m]) : MayBe(r, n, board)}
  <2>1. behind = Sorted(R2, [m \in R2 |-> V[m].num])
    BY <1>2, <1>5, <1>14 DEF Referring
  <2>2. board = b
    BY <1>15
  <2> HIDE DEF board
  <2>3. R2 = refer
    BY <1>16, <2>2 DEF May
  <2> HIDE DEF R2
  <2>4. QED
    BY <1>17, <2>1, <2>3
<1>19. SortedBy(behind, refer, key)
  <2>1. IsFiniteSet(refer)
    <3>1. IsFiniteSet(DOMAIN V)
      <4>1. DOMAIN V = DOMAIN tx[b].new \cup (DOMAIN posts \ tx[b].gone)
        BY <1>5, ViewIs
      <4>2. IsFiniteSet(DOMAIN tx[b].new)
        <5>1. \A m, l \in DOMAIN tx[b].new : m = l
          BY <1>10 DEF TxOK, NewOK
        <5>2. CASE DOMAIN tx[b].new = {}
          BY <5>2, FS_EmptySet
        <5>3. CASE DOMAIN tx[b].new # {}
          <6>1. PICK m : DOMAIN tx[b].new = {m}
            BY <5>1, <5>3
          <6>2. QED
            BY <6>1, FS_Singleton
        <5>4. QED
          BY <5>2, <5>3
      <4>3. IsFiniteSet(DOMAIN posts) /\ DOMAIN posts \ tx[b].gone \in SUBSET DOMAIN posts
        BY <1>12 DEF PostsOK
      <4>4. IsFiniteSet(DOMAIN posts \ tx[b].gone)
        BY <4>3, FS_Subset
      <4>5. QED
        BY <4>1, <4>2, <4>4, FS_Union
    <3>2. refer \in SUBSET DOMAIN V
      BY <1>16
    <3>3. QED
      BY <3>1, <3>2, FS_Subset
  <2>2. /\ \A x \in refer : key[x] \in Int
        /\ \A x, y \in refer : key[x] = key[y] => x = y
    BY <1>12, <1>16, <1>17 DEF ViewOK
  <2>3. QED
    BY <1>18, <2>1, <2>2, SortedIs
<1>20. /\ Len(behind) \in Nat /\ k \in Nat /\ k <= Len(behind) /\ Len(page) = k
       /\ DOMAIN page = 1 .. k /\ \A i \in 1 .. k : page[i] = behind[i]
       /\ DOMAIN behind = 1 .. Len(behind)
       /\ (k # Len(behind) => k = PageLen) /\ PageLen >= 1 /\ PageLen \in Nat
       /\ \A i \in 1 .. Len(behind) : behind[i] \in refer
  <2>1. behind \in [1 .. Cardinality(refer) -> refer] /\ Cardinality(refer) \in Nat
    BY <1>19 DEF SortedBy
  <2>2. behind \in Seq(refer)
    BY <2>1
  <2>3. PageLen \in Nat /\ PageLen >= 1
    BY DEF RefsAssumption
  <2>4. Len(behind) \in Nat /\ k \in Nat /\ k <= Len(behind)
    BY <1>3, <2>2, <2>3
  <2>5. Len(page) = k /\ \A i \in 1 .. k : page[i] = behind[i]
    BY <1>4, <2>2, <2>4
  <2>6. DOMAIN page = 1 .. k
    BY <1>4, <2>2, <2>4
  <2>7. QED
    BY <1>3, <2>2, <2>3, <2>4, <2>5, <2>6
<1>21. Len(behind) \in Nat /\ k \in Nat /\ k <= Len(behind)
  BY <1>20
<1>22. \A i \in 1 .. k : i \in 1 .. Len(behind) /\ behind[i] \in refer
  <2> TAKE i \in 1 .. k
  <2>1. i \in 1 .. Len(behind)
    BY <1>21
  <2>2. QED
    BY <1>20, <2>1
<1>23. t.full => k = PageLen
  <2>1. t.full => Len(page) = PageLen
    BY <1>11, Zenon
  <2>2. QED
    BY <1>20, <2>1
<1>24. k # Len(behind) => t.full
  <2>1. k # Len(behind) => Len(page) = PageLen
    BY <1>20
  <2>2. QED
    BY <1>11, <2>1, Zenon
<1>25. \A x \in onPage : \E i \in 1 .. k :
           x = [name |-> behind[i], post |-> V[behind[i]], was |-> R[behind[i]], left |-> TRUE]
  <2> TAKE x \in onPage
  <2>1. PICK m \in Range(page) : x = [name |-> m, post |-> V[m], was |-> R[m], left |-> TRUE]
    BY <1>7
  <2>2. PICK i \in 1 .. k : m = behind[i]
    BY <1>20, <2>1 DEF Range
  <2>3. QED
    BY <2>1, <2>2
<1>26. \A i \in 1 .. k :
           [name |-> behind[i], post |-> V[behind[i]], was |-> R[behind[i]], left |-> TRUE] \in onPage
  BY <1>7, <1>20 DEF Range
<1>27. PageOK(b)'
  <2>1. t.off \in Nat /\ t.todo \in Seq(DOMAIN t.new \cup t.gone) /\ t.todo # <<>>
    BY <1>1, <1>11, <1>14
  <2>2. t.full \in BOOLEAN
    <3>1. (Len(page) = PageLen) \in BOOLEAN
      OBVIOUS
    <3>2. QED
      BY <1>11, <3>1
  <2>3. ASSUME NEW x \in onPage
        PROVE  /\ x = [name |-> x.name, post |-> x.post, was |-> x.was, left |-> x.left]
               /\ x.left = TRUE /\ Looked(b, x)' /\ x.was = R[x.name]
    <3>1. PICK i \in 1 .. k :
             x = [name |-> behind[i], post |-> V[behind[i]], was |-> R[behind[i]], left |-> TRUE]
      BY <1>25
    <3>2. PICK m : m = behind[i]
      OBVIOUS
    <3>3. m \in DOMAIN V /\ May(V[m], n, b)
      BY <1>16, <1>22, <3>2
    <3>4. x.post = V[m] /\ x.name = m /\ x.was = R[m]
      BY <3>1, <3>2
    <3>5. OneRow(V[m]) /\ V[m].num \in Nat
      BY <1>5, <1>12, <3>3, OneNumber DEF ViewOK
    <3>6. Concerns(b, V[m])
      BY <1>15, <3>3 DEF Concerns
    <3>7. OneRow(V[m])' /\ Concerns(b, V[m])'
      BY <1>12, <3>5, <3>6
    <3>8. Looked(b, x)'
      BY <3>4, <3>5, <3>7 DEF Looked
    <3>9. QED
      BY <3>1, <3>4, <3>8
  <2>4. \A x, y \in onPage : x.name = y.name => x = y
    <3> TAKE x \in onPage, y \in onPage
    <3>1. PICK i \in 1 .. k :
             x = [name |-> behind[i], post |-> V[behind[i]], was |-> R[behind[i]], left |-> TRUE]
      BY <1>25
    <3>2. PICK j \in 1 .. k :
             y = [name |-> behind[j], post |-> V[behind[j]], was |-> R[behind[j]], left |-> TRUE]
      BY <1>25
    <3>3. x.name = behind[i] /\ y.name = behind[j]
      BY <3>1, <3>2
    <3>4. QED
      BY <3>1, <3>2, <3>3
  <2>5. t.full => onPage # {}
    <3>1. SUFFICES ASSUME t.full PROVE onPage # {}
      OBVIOUS
    <3>2. 1 \in 1 .. k
      BY <1>23, <1>20, <3>1
    <3>3. QED
      BY <1>26, <3>2
  <2>6. \A x \in onPage :
           /\ x = [name |-> x.name, post |-> x.post, was |-> x.was, left |-> x.left]
           /\ x.left \in BOOLEAN /\ Looked(b, x)' /\ x.was = R[x.name]
    BY <2>3
  <2>7. QED
    BY <1>11, <1>12, <2>1, <2>2, <2>4, <2>5, <2>6 DEF PageOK
<1>28. DoneOK(b)'
  <2>1. ASSUME NEW m \in DOMAIN V, Kept(V[m])', ~Pending(b, m, V[m])'
        PROVE  R[m] = Incoming(V, V[m])
    <3>1. ~Pending(b, m, V[m])
      <4>1. SUFFICES ASSUME Pending(b, m, V[m]) PROVE Pending(b, m, V[m])'
        BY <2>1
      <4>2. CASE \E i \in DOMAIN tx[b].todo : i > 1 /\ May(V[m], tx[b].todo[i], b)
        BY <1>11, <1>12, <4>2 DEF Pending, May
      <4>3. CASE May(V[m], tx[b].todo[1], b) /\ V[m].num > tx[b].off
        <5>1. m \in refer /\ key[m] = V[m].num
          BY <1>13, <1>16, <1>17, <4>3
        <5>2. PICK i \in 1 .. Len(behind) : behind[i] = m
          BY <1>19, <1>20, <5>1 DEF SortedBy
        <5>3. t.todo # <<>> /\ May(V[m], t.todo[1], b) /\ t.at = "fix"
          BY <1>1, <1>11, <4>3
        <5>4. CASE i <= k
          <6>1. PICK x : x = [name |-> m, post |-> V[m], was |-> R[m], left |-> TRUE]
            OBVIOUS
          <6>2. x \in onPage
            <7>1. i \in 1 .. k
              BY <1>21, <5>2, <5>4
            <7>2. QED
              BY <1>26, <5>2, <6>1, <7>1
          <6>3. x.left /\ x.name = m /\ x.post = V[m]
            BY <6>1
          <6>4. QED
            BY <1>11, <1>12, <5>3, <6>2, <6>3 DEF Pending, May
        <5>5. CASE i > k
          <6>1. k = PageLen /\ t.full
            <7>1. k # Len(behind)
              BY <1>21, <5>2, <5>5
            <7>2. QED
              BY <1>23, <1>24, <7>1
          <6>2. ASSUME NEW x \in onPage PROVE x.post.num < V[m].num
            <7>1. PICK j \in 1 .. k :
                     x = [name |-> behind[j], post |-> V[behind[j]], was |-> R[behind[j]], left |-> TRUE]
              BY <1>25
            <7>2. PICK l : l = behind[j]
              OBVIOUS
            <7>3. x.post = V[l]
              BY <7>1, <7>2
            <7>4. l \in refer /\ key[l] = V[l].num
              BY <1>17, <1>22, <7>1, <7>2
            <7>5. key[l] < key[m]
              BY <1>19, <1>20, <5>2, <5>5, <7>1, <7>2 DEF SortedBy
            <7>6. QED
              BY <5>1, <7>3, <7>4, <7>5
          <6>3. QED
            BY <1>11, <1>12, <5>3, <6>1, <6>2 DEF Pending, May
        <5>6. QED
          BY <1>20, <5>2, <5>4, <5>5
      <4>4. QED
        BY <1>1, <4>1, <4>2, <4>3 DEF Pending
    <3>2. Kept(V[m])
      BY <1>12, <2>1
    <3>3. QED
      BY <1>5, <1>6, <1>10, <3>1, <3>2 DEF DoneOK
  <2>2. QED
    BY <1>12, <2>1 DEF DoneOK
<1>29. TxOK(b)'
  <2>1. NewOK(b)' /\ GoneOK(b)'
    BY <1>9, <1>11, SameRows
  <2>2. WroteOK(b)'
    BY <1>1, <1>5, <1>10, <1>11, <1>12 DEF TxOK, WroteOK
  <2>3. QED
    BY <1>11, <1>12, <1>27, <2>1, <2>2 DEF TxOK
<1>30. ASSUME NEW c \in Boards \ {b} PROVE BoardsApart(b, c)' /\ BoardsApart(c, b)'
  <2>1. tx'[c] = tx[c] /\ BoardsApart(b, c) /\ BoardsApart(c, b)
    BY <1>9, <1>11, OwnTx
  <2>2. crossed' = crossed /\ Held(b)
    BY <1>1, <1>9 DEF Go, Held
  <2>3. QED
    BY <1>11, <1>12, <2>1, <2>2 DEF BoardsApart, Held
<1>31. QED
  BY <1>9, <1>11, <1>28, <1>29, <1>30, OwnTx

\* Computing the references of a post on the page keeps it: they are what is
\* there, or are to be written.
LEMMA RecomputeStep ==
    ASSUME RefsAssumption, RefsInv, NEW b \in Boards, Recompute(b)
    PROVE  RefsInv'
<1>1. PICK V : V = View(b)
  OBVIOUS
<1>2. PICK R : R = RefsOf(b)
  OBVIOUS
<1>3. PICK x \in tx[b].page :
          /\ x.left
          /\ LET fresh == Incoming(View(b), x.post)
                 done == (tx[b].page \ {x}) \cup {[x EXCEPT !.left = FALSE]}
             IN  Go(b, IF fresh = x.was THEN [tx[b] EXCEPT !.page = done]
                       ELSE [tx[b] EXCEPT !.at = "update", !.page = done,
                                          !.now = x, !.fresh = fresh])
  BY DEF Recompute
<1>4. PICK fresh : fresh = Incoming(V, x.post)
  OBVIOUS
<1>5. PICK y : y = [x EXCEPT !.left = FALSE]
  OBVIOUS
<1>6. PICK done : done = (tx[b].page \ {x}) \cup {y}
  OBVIOUS
<1>7. PICK t : t = IF fresh = x.was THEN [tx[b] EXCEPT !.page = done]
                   ELSE [tx[b] EXCEPT !.at = "update", !.page = done, !.now = x, !.fresh = fresh]
  OBVIOUS
<1>8. tx[b].at = "fix" /\ Go(b, t) /\ x.left
  BY <1>1, <1>3, <1>4, <1>5, <1>6, <1>7 DEF Recompute
<1>9. TxOK(b) /\ DoneOK(b) /\ PageOK(b)
  BY <1>8 DEF RefsInv, Held, TxOK
<1>10. /\ t.at = (IF fresh = x.was THEN "fix" ELSE "update")
       /\ t.new = tx[b].new /\ t.gone = tx[b].gone /\ t.todo = tx[b].todo
       /\ t.wrote = tx[b].wrote /\ t.page = done /\ IsTx(t) /\ t.off = tx[b].off
       /\ t.full = tx[b].full
       /\ (fresh # x.was => t.now = x /\ t.fresh = fresh)
  <2>1. IsTx(tx[b])
    BY <1>9 DEF TxOK
  <2>2. CASE fresh = x.was
    <3>1. t = [at |-> "fix", new |-> tx[b].new, gone |-> tx[b].gone, wrote |-> tx[b].wrote,
             todo |-> tx[b].todo, off |-> tx[b].off, page |-> done, full |-> tx[b].full,
             now |-> tx[b].now, fresh |-> tx[b].fresh]
      BY <1>7, <1>8, <2>1, <2>2 DEF IsTx
    <3>2. QED
      BY <2>2, <3>1 DEF IsTx
  <2>3. CASE fresh # x.was
    <3>1. t = [at |-> "update", new |-> tx[b].new, gone |-> tx[b].gone, wrote |-> tx[b].wrote,
             todo |-> tx[b].todo, off |-> tx[b].off, page |-> done, full |-> tx[b].full,
             now |-> x, fresh |-> fresh]
      BY <1>7, <2>1, <2>3 DEF IsTx
    <3>2. QED
      BY <2>3, <3>1 DEF IsTx
  <2>4. QED
    BY <2>2, <2>3
<1>11. /\ tx'[b] = t /\ View(b)' = V /\ RefsOf(b)' = R
       /\ \A p : Kept(p)' <=> Kept(p)
       /\ \A c, p : Concerns(c, p)' <=> Concerns(c, p)
       /\ \A p : OneRow(p) /\ p.num \in Nat => OneRow(p)'
  BY <1>1, <1>2, <1>8, <1>10, OwnTx
<1>12. /\ \A z \in tx[b].page :
              /\ z = [name |-> z.name, post |-> z.post, was |-> z.was, left |-> z.left]
              /\ z.left \in BOOLEAN /\ Looked(b, z)
              /\ z.left /\ Still(b, z) /\ Kept(z.post) => z.was = R[z.name]
       /\ \A w, z \in tx[b].page : w.name = z.name => w = z
  BY <1>2, <1>9 DEF PageOK
<1>13. /\ y = [name |-> x.name, post |-> x.post, was |-> x.was, left |-> FALSE]
       /\ y.name = x.name /\ y.post = x.post /\ y.was = x.was /\ y.left = FALSE
  <2>1. x = [name |-> x.name, post |-> x.post, was |-> x.was, left |-> x.left]
    BY <1>12
  <2>2. y = [name |-> x.name, post |-> x.post, was |-> x.was, left |-> FALSE]
    BY <1>5, <2>1
  <2>3. QED
    BY <2>2
<1>14. \A z \in done : z = y \/ (z \in tx[b].page /\ z # x)
  BY <1>6
<1>15. \A z : (Still(b, z)' <=> z.name \in DOMAIN V /\ V[z.name] = z.post) /\ (Still(b, z)' <=> Still(b, z))
  BY <1>1, <1>11 DEF Still
<1>16. \A z : Looked(b, z) => Looked(b, z)'
  BY <1>11 DEF Looked
<1>17. PageOK(b)'
  <2>1. t.off \in Nat /\ t.full \in BOOLEAN /\ t.todo \in Seq(DOMAIN t.new \cup t.gone) /\ t.todo # <<>>
    BY <1>8, <1>9, <1>10 DEF PageOK
  <2>2. Looked(b, y)' /\ Looked(b, x)'
    <3>1. Looked(b, x)
      BY <1>12
    <3>2. Looked(b, y)
      BY <1>13, <3>1 DEF Looked
    <3>3. QED
      BY <1>16, <3>1, <3>2
  <2>3. ASSUME NEW z \in done
        PROVE  /\ z = [name |-> z.name, post |-> z.post, was |-> z.was, left |-> z.left]
               /\ z.left \in BOOLEAN /\ Looked(b, z)'
               /\ z.left /\ Still(b, z)' /\ Kept(z.post)' => z.was = R[z.name]
    <3>1. CASE z = y
      BY <1>13, <2>2, <3>1
    <3>2. CASE z \in tx[b].page
      BY <1>11, <1>12, <1>15, <1>16, <3>2
    <3>3. QED
      BY <1>14, <3>1, <3>2
  <2>4. \A w, z \in done : w.name = z.name => w = z
    <3> TAKE w \in done, z \in done
    <3>1. CASE w = y /\ z = y
      BY <3>1
    <3>2. CASE w = y /\ z \in tx[b].page /\ z # x
      BY <1>12, <1>13, <3>2
    <3>3. CASE z = y /\ w \in tx[b].page /\ w # x
      BY <1>12, <1>13, <3>3
    <3>4. CASE w \in tx[b].page /\ z \in tx[b].page
      BY <1>12, <3>4
    <3>5. QED
      BY <1>14, <3>1, <3>2, <3>3, <3>4
  <2>5. done # {}
    BY <1>6
  <2>6. ASSUME t.at = "update"
        PROVE  /\ Looked(b, t.now)' /\ \A z \in done : z.name = t.now.name => ~z.left
               /\ Still(b, t.now)' /\ Kept(t.now.post)' => t.fresh = Incoming(V, t.now.post)
    <3>1. t.now = x /\ t.fresh = fresh
      BY <1>10, <2>6
    <3>2. \A z \in done : z.name = x.name => ~z.left
      <4> TAKE z \in done
      <4>1. CASE z = y
        BY <1>13, <4>1
      <4>2. CASE z \in tx[b].page /\ z # x
        BY <1>12, <4>2
      <4>3. QED
        BY <1>14, <4>1, <4>2
    <3>3. QED
      BY <1>4, <2>2, <3>1, <3>2
  <2>7. t.at \in {"fix", "update"}
    BY <1>10
  <2>8. tx'[b].now = t.now /\ tx'[b].fresh = t.fresh
    BY <1>11
  <2>9. QED
    BY <1>10, <1>11, <2>1, <2>3, <2>4, <2>5, <2>6, <2>7 DEF PageOK
<1>18. DoneOK(b)'
  <2>1. ASSUME NEW m \in DOMAIN V, Kept(V[m])', ~Pending(b, m, V[m])'
        PROVE  R[m] = Incoming(V, V[m])
    <3>1. Kept(V[m])
      BY <1>11, <2>1
    <3>2. CASE ~Pending(b, m, V[m])
      BY <1>1, <1>2, <1>9, <3>1, <3>2 DEF DoneOK
    <3>3. CASE Pending(b, m, V[m])
      <4>1. ~ \E i \in DOMAIN tx[b].todo : i > 1 /\ May(V[m], tx[b].todo[i], b)
        BY <1>10, <1>11, <2>1 DEF Pending, May
      <4>2. /\ tx[b].todo # <<>> /\ May(V[m], tx[b].todo[1], b)
            /\ \/ \E z \in tx[b].page : z.left /\ z.name = m /\ z.post = V[m]
               \/ tx[b].full /\ \A z \in tx[b].page : z.post.num < V[m].num
        BY <1>8, <3>3, <4>1 DEF Pending
      <4>3. t.at \in {"fix", "update"} /\ t.todo # <<>> /\ May(V[m], t.todo[1], b)
        BY <1>10, <4>2
      <4>4. /\ ~ \E z \in done : z.left /\ z.name = m /\ z.post = V[m]
            /\ ~(tx[b].full /\ \A z \in done : z.post.num < V[m].num)
            /\ ~(t.at = "update" /\ t.now.name = m /\ t.now.post = V[m])
        BY <1>10, <1>11, <2>1, <4>3 DEF Pending, May
      <4>5. ~(tx[b].full /\ \A z \in tx[b].page : z.post.num < V[m].num)
        BY <1>13, <1>14, <4>4
      <4>6. PICK z \in tx[b].page : z.left /\ z.name = m /\ z.post = V[m]
        BY <4>2, <4>5
      <4>7. z = x
        BY <1>6, <4>4, <4>6
      <4>8. x.name = m /\ x.post = V[m]
        BY <4>6, <4>7
      <4>9. fresh = x.was
        BY <1>10, <4>4, <4>8
      <4>10. Still(b, x) /\ Kept(x.post)
        BY <1>15, <2>1, <3>1, <4>8
      <4>11. x.was = R[m]
        BY <1>8, <1>12, <4>8, <4>10
      <4>12. QED
        BY <1>4, <4>8, <4>9, <4>11
    <3>4. QED
      BY <3>2, <3>3
  <2>2. QED
    BY <1>11, <2>1 DEF DoneOK
<1>19. TxOK(b)'
  <2>1. NewOK(b)' /\ GoneOK(b)'
    BY <1>8, <1>10, SameRows
  <2>2. WroteOK(b)'
    BY <1>1, <1>8, <1>9, <1>10, <1>11 DEF TxOK, WroteOK
  <2>3. QED
    BY <1>10, <1>11, <1>17, <2>1, <2>2 DEF TxOK
<1>20. ASSUME NEW c \in Boards \ {b} PROVE BoardsApart(b, c)' /\ BoardsApart(c, b)'
  <2>1. tx'[c] = tx[c] /\ BoardsApart(b, c) /\ BoardsApart(c, b)
    BY <1>8, <1>10, OwnTx
  <2>2. crossed' = crossed /\ Held(b)
    BY <1>8 DEF Go, Held
  <2>3. QED
    BY <1>10, <1>11, <2>1, <2>2 DEF BoardsApart, Held
<1>21. QED
  BY <1>8, <1>10, <1>18, <1>19, <1>20, OwnTx

\* UpdatePostReferences keeps it: what is written was computed from what is there,
\* or the post has gone.
LEMMA UpdateStep ==
    ASSUME RefsAssumption, RefsInv, NEW b \in Boards, UpdatePostReferences(b)
    PROVE  RefsInv'
<1>1. PICK V : V = View(b)
  OBVIOUS
<1>2. PICK R : R = RefsOf(b)
  OBVIOUS
<1>3. PICK now : now = tx[b].now
  OBVIOUS
<1>4. PICK n : n = now.name
  OBVIOUS
<1>5. PICK fresh : fresh = tx[b].fresh
  OBVIOUS
<1>6. PICK there \in BOOLEAN : there <=> n \in DOMAIN V /\ V[n].num = now.post.num
  OBVIOUS
<1>7. PICK wrote : wrote = IF there THEN WrittenOn(Only(n, fresh), tx[b].wrote) ELSE tx[b].wrote
  OBVIOUS
<1>8. PICK t : t = [tx[b] EXCEPT !.at = "fix", !.now = NoPost, !.fresh = <<>>, !.wrote = wrote]
  OBVIOUS
<1>9. tx[b].at = "update" /\ ~RowLocked(b, n)
  BY <1>3, <1>4 DEF UpdatePostReferences
<1>10. TxOK(b) /\ DoneOK(b) /\ PageOK(b)
  BY <1>9 DEF RefsInv, Held, TxOK
<1>11. IsTx(tx[b])
  BY <1>10 DEF TxOK
<1>12. Go(b, t)
  <2>1. tx[b].wrote = tx[b].wrote /\ "wrote" \in DOMAIN tx[b]
    BY <1>11 DEF IsTx
  <2>2. QED
    BY <1>1, <1>3, <1>4, <1>5, <1>6, <1>7, <1>8, <1>11, <2>1 DEF UpdatePostReferences, IsTx
<1>13. /\ t.at = "fix" /\ t.new = tx[b].new /\ t.gone = tx[b].gone /\ t.todo = tx[b].todo
       /\ t.wrote = wrote /\ t.page = tx[b].page /\ IsTx(t) /\ t.off = tx[b].off
       /\ t.full = tx[b].full
  <2>1. t = [at |-> "fix", new |-> tx[b].new, gone |-> tx[b].gone, wrote |-> wrote,
             todo |-> tx[b].todo, off |-> tx[b].off, page |-> tx[b].page, full |-> tx[b].full,
             now |-> NoPost, fresh |-> <<>>]
    BY <1>8, <1>11 DEF IsTx
  <2>2. QED
    BY <2>1 DEF IsTx
<1>14. /\ tx'[b] = t /\ View(b)' = V
       /\ \A p : Kept(p)' <=> Kept(p)
       /\ \A c, p : Concerns(c, p)' <=> Concerns(c, p)
       /\ \A p : OneRow(p) /\ p.num \in Nat => OneRow(p)'
       /\ PostsOK /\ ViewOK(V)
  BY <1>1, <1>12, <1>13, OwnTx
<1>15. /\ \A z \in tx[b].page :
              /\ z = [name |-> z.name, post |-> z.post, was |-> z.was, left |-> z.left]
              /\ z.left \in BOOLEAN /\ Looked(b, z)
              /\ z.left /\ Still(b, z) /\ Kept(z.post) => z.was = R[z.name]
       /\ \A w, z \in tx[b].page : w.name = z.name => w = z
       /\ Looked(b, now) /\ \A x \in tx[b].page : x.name = n => ~x.left
       /\ Still(b, now) /\ Kept(now.post) => fresh = Incoming(V, now.post)
  BY <1>1, <1>2, <1>3, <1>4, <1>5, <1>9, <1>10 DEF PageOK
<1>16. there => V[n] = now.post
  <2>1. SUFFICES ASSUME there PROVE V[n] = now.post
    OBVIOUS
  <2>2. n \in DOMAIN V /\ V[n].num = now.post.num
    BY <1>6, <2>1
  <2>3. OneRow(now.post)
    BY <1>15 DEF Looked
  <2>4. \/ n \in DOMAIN tx[b].new /\ V[n] = tx[b].new[n]
        \/ n \in DOMAIN posts /\ V[n] = posts[n]
    <3>1. NewOK(b)
      BY <1>10 DEF TxOK
    <3>2. QED
      BY <1>1, <1>14, <2>2, <3>1, TxView
  <2>5. QED
    BY <2>2, <2>3, <2>4 DEF OneRow
<1>17. /\ wrote = [m \in DOMAIN wrote |-> wrote[m]]
       /\ DOMAIN wrote = DOMAIN tx[b].wrote \cup (IF there THEN {n} ELSE {})
       /\ (there => wrote[n] = fresh)
       /\ \A m \in DOMAIN tx[b].wrote : (~there \/ m # n) => wrote[m] = tx[b].wrote[m]
  <2>1. tx[b].wrote = [m \in DOMAIN tx[b].wrote |-> tx[b].wrote[m]]
    BY <1>10 DEF TxOK, WroteOK
  <2>2. QED
    BY <1>7, <2>1 DEF WrittenOn, Only
<1>18. PICK S : S = RefsOf(b)'
  OBVIOUS
<1>19. /\ (there => S[n] = fresh)
       /\ \A m \in DOMAIN V : (~there \/ m # n) => S[m] = R[m]
  <2>1. S = WrittenOn(wrote, activRefs) /\ R = WrittenOn(tx[b].wrote, activRefs)
    BY <1>2, <1>12, <1>13, <1>14, <1>18 DEF RefsOf, Go
  <2>2. QED
    <3>1. there => S[n] = fresh
      BY <1>17, <2>1 DEF WrittenOn
    <3>2. DOMAIN activRefs = DOMAIN posts
      BY <1>14, PostsView
    <3>3. \A m \in DOMAIN V : m \in DOMAIN tx[b].wrote \/ m \in DOMAIN activRefs
      <4>1. DOMAIN tx[b].new \subseteq DOMAIN tx[b].wrote
        BY <1>9, <1>10 DEF TxOK, WroteOK
      <4>2. QED
        BY <1>1, <3>2, <4>1, ViewIs
    <3>4. \A m \in DOMAIN V : (~there \/ m # n) => S[m] = R[m]
      <4>1. TAKE m \in DOMAIN V
      <4>2. CASE m \in DOMAIN tx[b].wrote
        BY <1>17, <2>1, <4>2 DEF WrittenOn
      <4>3. CASE m \notin DOMAIN tx[b].wrote
        BY <1>17, <2>1, <3>3, <4>3 DEF WrittenOn
      <4>4. QED
        BY <4>2, <4>3
    <3>5. QED
      BY <3>1, <3>4
<1>20. \A z : (Still(b, z)' <=> z.name \in DOMAIN V /\ V[z.name] = z.post) /\ (Still(b, z)' <=> Still(b, z))
  BY <1>1, <1>14 DEF Still
<1>21. \A z : Looked(b, z) => Looked(b, z)'
  BY <1>14 DEF Looked
<1>22. WroteOK(b)'
  <2>1. \A m \in DOMAIN tx[b].wrote : m \in DOMAIN V /\ Concerns(b, V[m])
    BY <1>1, <1>10 DEF TxOK, WroteOK
  <2>2. there => n \in DOMAIN V /\ Concerns(b, V[n])
    BY <1>6, <1>15, <1>16 DEF Looked
  <2>3. \A m \in DOMAIN wrote : m \in DOMAIN V /\ Concerns(b, V[m])'
    BY <1>14, <1>17, <2>1, <2>2
  <2>4. DOMAIN t.new \subseteq DOMAIN wrote
    BY <1>9, <1>10, <1>13, <1>17 DEF TxOK, WroteOK
  <2>5. QED
    BY <1>13, <1>14, <1>17, <2>3, <2>4 DEF WroteOK
<1>23. PageOK(b)'
  <2>1. t.off \in Nat /\ t.full \in BOOLEAN /\ t.todo \in Seq(DOMAIN t.new \cup t.gone) /\ t.todo # <<>>
        /\ (t.full => t.page # {})
    BY <1>9, <1>10, <1>13 DEF PageOK
  <2>2. ASSUME NEW z \in tx[b].page
        PROVE  /\ z = [name |-> z.name, post |-> z.post, was |-> z.was, left |-> z.left]
               /\ z.left \in BOOLEAN /\ Looked(b, z)'
               /\ z.left /\ Still(b, z)' /\ Kept(z.post)' => z.was = S[z.name]
    <3>1. ASSUME z.left, Still(b, z)', Kept(z.post)' PROVE z.was = S[z.name]
      <4>1. z.was = R[z.name] /\ z.name # n /\ z.name \in DOMAIN V
        BY <1>14, <1>15, <1>20, <3>1
      <4>2. QED
        BY <1>19, <4>1
    <3>2. QED
      BY <1>15, <1>21, <3>1
  <2>3. QED
    BY <1>13, <1>14, <1>15, <1>18, <2>1, <2>2 DEF PageOK
<1>24. DoneOK(b)'
  <2>1. ASSUME NEW m \in DOMAIN V, Kept(V[m])', ~Pending(b, m, V[m])'
        PROVE  S[m] = Incoming(V, V[m])
    <3>1. Kept(V[m])
      BY <1>14, <2>1
    <3>2. CASE there /\ m = n
      <4>1. Still(b, now) /\ V[m] = now.post
        BY <1>4, <1>16, <1>20, <2>1, <3>2
      <4>2. QED
        BY <1>15, <1>19, <3>1, <3>2, <4>1
    <3>3. CASE ~(there /\ m = n)
      <4>1. ~(tx[b].now.name = m /\ tx[b].now.post = V[m])
        BY <1>3, <1>4, <1>6, <2>1, <3>3
      <4>2. ~Pending(b, m, V[m])
        BY <1>9, <1>13, <1>14, <2>1, <4>1 DEF Pending, May
      <4>3. R[m] = Incoming(V, V[m])
        BY <1>1, <1>2, <1>10, <3>1, <4>2 DEF DoneOK
      <4>4. QED
        BY <1>19, <3>3, <4>3
    <3>4. QED
      BY <3>2, <3>3
  <2>2. QED
    BY <1>14, <1>18, <2>1 DEF DoneOK
<1>25. TxOK(b)'
  <2>1. NewOK(b)' /\ GoneOK(b)'
    BY <1>12, <1>13, SameRows
  <2>2. QED
    BY <1>13, <1>14, <1>22, <1>23, <2>1 DEF TxOK
<1>26. ASSUME NEW c \in Boards \ {b} PROVE BoardsApart(b, c)' /\ BoardsApart(c, b)'
  <2>1. tx'[c] = tx[c] /\ BoardsApart(b, c) /\ BoardsApart(c, b)
    BY <1>12, <1>13, OwnTx
  <2>2. crossed' = crossed /\ Held(b)
    BY <1>9, <1>12 DEF Go, Held
  <2>3. n \notin DOMAIN tx[c].wrote \cup tx[c].gone
    BY <1>9 DEF RowLocked
  <2>4. QED
    BY <1>13, <1>14, <1>17, <2>1, <2>2, <2>3 DEF BoardsApart, Held
<1>27. QED
  BY <1>12, <1>13, <1>24, <1>25, <1>26, OwnTx

\* The next page of one post, or the first page of the next.
LEMMA TurnPage ==
    ASSUME RefsAssumption, RefsInv, NEW b \in Boards, NEW off \in Nat, NEW rest,
           NEW t, t = [tx[b] EXCEPT !.at = "find", !.page = {}, !.off = off, !.todo = rest], Go(b, t),
           tx[b].at = "fix", \A x \in tx[b].page : ~x.left,
           \/ tx[b].full /\ rest = tx[b].todo /\ \E x \in tx[b].page : off = x.post.num
           \/ ~tx[b].full /\ rest = Tail(tx[b].todo) /\ off = 0
    PROVE  RefsInv'
<1>1. PICK V : V = View(b)
  OBVIOUS
<1>2. PICK R : R = RefsOf(b)
  OBVIOUS
<1>3. TxOK(b) /\ DoneOK(b) /\ PageOK(b)
  BY DEF RefsInv, Held, TxOK
<1>4. IsTx(tx[b])
  BY <1>3 DEF TxOK
<1>5. /\ t.at = "find" /\ t.new = tx[b].new /\ t.gone = tx[b].gone /\ t.todo = rest
      /\ t.wrote = tx[b].wrote /\ t.page = {} /\ IsTx(t) /\ t.off = off
      /\ t.full = tx[b].full
  <2>1. t = [at |-> "find", new |-> tx[b].new, gone |-> tx[b].gone, wrote |-> tx[b].wrote,
             todo |-> rest, off |-> off, page |-> {}, full |-> tx[b].full,
             now |-> tx[b].now, fresh |-> tx[b].fresh]
    BY <1>4 DEF IsTx
  <2>2. QED
    BY <2>1 DEF IsTx
<1>6. /\ tx'[b] = t /\ View(b)' = V /\ RefsOf(b)' = R
      /\ \A m \in DOMAIN V : PostRow(m, V[m])
      /\ \A p : Kept(p)' <=> Kept(p)
      /\ \A c, p : Concerns(c, p)' <=> Concerns(c, p)
  BY <1>1, <1>2, <1>5, OwnTx
<1>7. PICK S : S = DOMAIN tx[b].new \cup tx[b].gone
  OBVIOUS
<1>8. /\ tx[b].todo \in Seq(S) /\ tx[b].todo # <<>> /\ tx[b].full \in BOOLEAN
      /\ (tx[b].full => tx[b].page # {})
  BY <1>3, <1>7 DEF PageOK
<1>9. PageOK(b)'
  <2>1. rest \in Seq(S)
    BY <1>8
  <2>2. t.todo \in Seq(DOMAIN t.new \cup t.gone)
    BY <1>5, <1>7, <2>1
  <2>3. t.full \in BOOLEAN /\ t.off \in Nat /\ t.page = {} /\ t.at = "find"
    BY <1>5, <1>8
  <2>4. QED
    BY <1>6, <2>2, <2>3 DEF PageOK
<1>10. DoneOK(b)'
  <2>1. ASSUME NEW m \in DOMAIN V, Kept(V[m])', ~Pending(b, m, V[m])'
        PROVE  R[m] = Incoming(V, V[m])
    <3>1. ~Pending(b, m, V[m])
      <4>1. SUFFICES ASSUME Pending(b, m, V[m]) PROVE Pending(b, m, V[m])'
        BY <2>1
      <4>2. \/ \E i \in DOMAIN tx[b].todo : i > 1 /\ May(V[m], tx[b].todo[i], b)
            \/ /\ May(V[m], tx[b].todo[1], b)
               /\ tx[b].full /\ \A x \in tx[b].page : x.post.num < V[m].num
        BY <4>1 DEF Pending
      <4>3. CASE tx[b].full /\ rest = tx[b].todo /\ \E x \in tx[b].page : off = x.post.num
        <5>1. CASE \E i \in DOMAIN tx[b].todo : i > 1 /\ May(V[m], tx[b].todo[i], b)
          BY <1>5, <1>6, <4>3, <5>1 DEF Pending, May
        <5>2. CASE May(V[m], tx[b].todo[1], b) /\ \A x \in tx[b].page : x.post.num < V[m].num
          <6>1. V[m].num > off
            BY <4>3, <5>2
          <6>2. QED
            BY <1>5, <1>6, <1>8, <4>3, <5>2, <6>1 DEF Pending, May
        <5>3. QED
          BY <4>2, <5>1, <5>2
      <4>4. CASE ~tx[b].full /\ rest = Tail(tx[b].todo) /\ off = 0
        <5>1. PICK i \in DOMAIN tx[b].todo : i > 1 /\ May(V[m], tx[b].todo[i], b)
          BY <4>2, <4>4
        <5>2. i - 1 \in DOMAIN rest /\ rest[i - 1] = tx[b].todo[i] /\ rest # <<>> /\ i \in Nat
          BY <1>8, <4>4, <5>1
        <5>3. CASE i - 1 > 1
          BY <1>5, <1>6, <5>1, <5>2, <5>3 DEF Pending, May
        <5>4. CASE i - 1 = 1
          <6>1. V[m].num > off
            <7>1. PostRow(m, V[m])
              BY <1>6
            <7>2. QED
              BY <4>4, <7>1 DEF PostRow
          <6>2. May(V[m], rest[1], b)
            BY <5>1, <5>2, <5>4
          <6>3. QED
            BY <1>5, <1>6, <5>2, <6>1, <6>2 DEF Pending, May
        <5>5. QED
          BY <5>1, <5>2, <5>3, <5>4
      <4>5. QED
        BY <4>3, <4>4
    <3>2. QED
      BY <1>1, <1>2, <1>3, <1>6, <2>1, <3>1 DEF DoneOK
  <2>2. QED
    BY <1>6, <2>1 DEF DoneOK
<1>11. TxOK(b)'
  <2>1. NewOK(b)' /\ GoneOK(b)'
    BY <1>5, SameRows
  <2>2. WroteOK(b)'
    BY <1>1, <1>3, <1>5, <1>6 DEF TxOK, WroteOK
  <2>3. QED
    BY <1>5, <1>6, <1>9, <2>1, <2>2 DEF TxOK
<1>12. ASSUME NEW c \in Boards \ {b} PROVE BoardsApart(b, c)' /\ BoardsApart(c, b)'
  <2>1. tx'[c] = tx[c] /\ BoardsApart(b, c) /\ BoardsApart(c, b)
    BY <1>5, OwnTx
  <2>2. crossed' = crossed /\ Held(b)
    BY DEF Go, Held
  <2>3. QED
    BY <1>5, <1>6, <2>1, <2>2 DEF BoardsApart, Held
<1>13. QED
  BY <1>5, <1>10, <1>11, <1>12, OwnTx

\* So does the next page.
LEMMA NextPageStep ==
    ASSUME RefsAssumption, RefsInv, NEW b \in Boards, NextPage(b)
    PROVE  RefsInv'
<1>1. tx[b].at = "fix" /\ \A x \in tx[b].page : ~x.left
  BY DEF NextPage
<1>2. PageOK(b) /\ IsTx(tx[b])
  BY <1>1 DEF RefsInv, TxOK
<1>3. CASE tx[b].full
  <2>1. PICK x \in tx[b].page :
           Go(b, [tx[b] EXCEPT !.at = "find", !.page = {}, !.off = x.post.num])
    BY <1>3 DEF NextPage
  <2>2. x.post.num \in Nat
    BY <1>2 DEF PageOK, Looked
  <2>3. PICK t : t = [tx[b] EXCEPT !.at = "find", !.page = {}, !.off = x.post.num, !.todo = tx[b].todo]
    OBVIOUS
  <2>4. [tx[b] EXCEPT !.at = "find", !.page = {}, !.off = x.post.num] = t
    BY <1>2, <2>3 DEF IsTx
  <2>5. Go(b, t)
    BY <2>1, <2>4
  <2>6. QED
    BY <1>1, <1>3, <2>2, <2>3, <2>5, TurnPage
<1>4. CASE ~tx[b].full
  <2>1. PICK t : t = [tx[b] EXCEPT !.at = "find", !.page = {}, !.off = 0, !.todo = Tail(tx[b].todo)]
    OBVIOUS
  <2>2. Go(b, t)
    BY <1>4, <2>1 DEF NextPage
  <2>3. QED
    BY <1>1, <1>4, <2>1, <2>2, TurnPage
<1>5. QED
  BY <1>3, <1>4

\* Nothing is left of a transaction that is rolled back.
LEMMA RollbackStep ==
    ASSUME RefsAssumption, RefsInv, NEW b \in Boards, RollbackRefs(b)
    PROVE  RefsInv'
<1>1. Go(b, NoTx)
  BY DEF RollbackRefs
<1>2. /\ NoTx.at = "none" /\ DOMAIN NoTx.new = {} /\ NoTx.gone = {} /\ DOMAIN NoTx.wrote = {}
      /\ NoTx.page = {} /\ NoTx.todo = <<>> /\ NoTx.off = 0 /\ NoTx.full = FALSE /\ IsTx(NoTx)
      /\ NoTx.new = <<>> /\ NoTx.wrote = <<>>
  BY DEF NoTx, IsTx
<1>3. tx'[b] = NoTx
  BY <1>1, <1>2, OwnTx
<1>4. TxOK(b)' /\ ~Held(b)'
  <2>1. PageOK(b)'
    <3>1. \A S : <<>> \in Seq(S)
      OBVIOUS
    <3>2. tx'[b].full \in BOOLEAN
      BY <1>2, <1>3, Zenon
    <3>3. tx'[b].todo \in Seq(DOMAIN tx'[b].new \cup tx'[b].gone)
      BY <1>2, <1>3, <3>1, Zenon
    <3>4. tx'[b].off \in Nat /\ tx'[b].page = {} /\ tx'[b].at \notin {"declare", "fix", "update"}
      BY <1>2, <1>3
    <3>5. QED
      BY <3>2, <3>3, <3>4 DEF PageOK
  <2>2. NewOK(b)' /\ GoneOK(b)' /\ WroteOK(b)'
    BY <1>2, <1>3 DEF NewOK, GoneOK, WroteOK
  <2>3. QED
    BY <1>2, <1>3, <2>1, <2>2 DEF TxOK, Held
<1>5. ASSUME NEW c \in Boards \ {b} PROVE BoardsApart(b, c)' /\ BoardsApart(c, b)'
  BY <1>2, <1>3, <1>4 DEF BoardsApart
<1>6. QED
  BY <1>1, <1>2, <1>4, <1>5, OwnTx

\* A transaction ends: what it wrote is what there is.
LEMMA CommitShape ==
    ASSUME RefsAssumption, RefsInv, NEW b \in Boards, CommitRefs(b)
    PROVE  /\ posts' = View(b) /\ DOMAIN activRefs' = DOMAIN View(b)
           /\ \A m \in DOMAIN View(b) : activRefs'[m] = RefsOf(b)[m]
           /\ tx'[b] = NoTx /\ \A c \in Boards \ {b} : tx'[c] = tx[c]
           /\ tx' = [c \in Boards |-> tx'[c]]
           /\ begun' = begun /\ seen' = seen /\ crossed' = crossed
           /\ \A p : Kept(p)' <=> Kept(p)
           /\ \A c, p : Concerns(c, p)' <=> Concerns(c, p)
           /\ \A n, p : PostRow(n, p)' <=> PostRow(n, p)
           /\ \A n \in DOMAIN View(b) :
                 \/ n \in DOMAIN tx[b].new /\ View(b)[n] = tx[b].new[n] /\ View(b)[n].board = b
                       /\ n \notin DOMAIN posts
                 \/ n \in DOMAIN posts \ tx[b].gone /\ View(b)[n] = posts[n] /\ n \notin DOMAIN tx[b].new
           /\ DOMAIN View(b) = DOMAIN tx[b].new \cup (DOMAIN posts \ tx[b].gone)
           /\ \A n \in DOMAIN posts \ tx[b].gone : View(b)[n] = posts[n]
           /\ \A n \in tx[b].gone : n \in DOMAIN posts /\ posts[n].board = b
           /\ ViewOK(View(b)) /\ \A n \in DOMAIN View(b) : PostRow(n, View(b)[n])
<1>1. PICK V : V = View(b)
  OBVIOUS
<1>2. PICK R : R = RefsOf(b)
  OBVIOUS
<1>3. TxOK(b) /\ PostsOK /\ tx = [c \in Boards |-> tx[c]] /\ NewOK(b) /\ GoneOK(b)
  BY DEF RefsInv, TxOK
<1>4. /\ posts' = V /\ activRefs' = [n \in DOMAIN V |-> R[n]] /\ tx' = [tx EXCEPT ![b] = NoTx]
      /\ begun' = begun /\ seen' = seen /\ crossed' = crossed
  BY <1>1, <1>2 DEF CommitRefs
<1>5. /\ DOMAIN activRefs' = DOMAIN V /\ \A m \in DOMAIN V : activRefs'[m] = R[m]
  BY <1>4
<1>6. /\ tx'[b] = NoTx /\ \A c \in Boards \ {b} : tx'[c] = tx[c]
      /\ tx' = [c \in Boards |-> tx'[c]]
  BY <1>3, <1>4
<1>7. /\ \A p : Kept(p)' <=> Kept(p)
      /\ \A c, p : Concerns(c, p)' <=> Concerns(c, p)
      /\ \A n, p : PostRow(n, p)' <=> PostRow(n, p)
  BY <1>4 DEF Kept, LocalPost, Concerns, May, PostRow
<1>8. /\ ViewOK(V) /\ \A n \in DOMAIN V : PostRow(n, V[n])
      /\ \A n \in DOMAIN V :
                 \/ n \in DOMAIN tx[b].new /\ V[n] = tx[b].new[n] /\ V[n].board = b
                       /\ n \notin DOMAIN posts
                 \/ n \in DOMAIN posts \ tx[b].gone /\ V[n] = posts[n] /\ n \notin DOMAIN tx[b].new
  BY <1>3, <1>1, TxView
<1>9. DOMAIN V = DOMAIN tx[b].new \cup (DOMAIN posts \ tx[b].gone)
  BY <1>1, ViewIs
<1>10. \A n \in DOMAIN posts \ tx[b].gone : V[n] = posts[n]
  BY <1>8, <1>9
<1>11. \A n \in tx[b].gone : n \in DOMAIN posts /\ posts[n].board = b
  BY <1>3 DEF GoneOK
<1>12. QED
  BY <1>1, <1>2, <1>4, <1>5, <1>6, <1>7, <1>8, <1>9, <1>10, <1>11

\* What is committed is right where what the transaction saw was.
LEMMA CommitPosts ==
    ASSUME RefsAssumption, RefsInv, NEW b \in Boards, CommitRefs(b)
    PROVE  PostsOK' /\ CommittedOK' /\ TxOK(b)' /\ ~Held(b)'
<1>1. PICK V : V = View(b)
  OBVIOUS
<1>2. PICK R : R = RefsOf(b)
  OBVIOUS
<1>3. TxOK(b) /\ PostsOK /\ NewOK(b) /\ GoneOK(b) /\ (Held(b) => DoneOK(b))
  BY DEF RefsInv, TxOK
<1>4. /\ posts' = V /\ DOMAIN activRefs' = DOMAIN V /\ \A m \in DOMAIN V : activRefs'[m] = R[m]
      /\ tx'[b] = NoTx /\ begun' = begun /\ seen' = seen /\ crossed' = crossed
  <2>1. /\ posts' = View(b) /\ tx'[b] = NoTx /\ begun' = begun /\ seen' = seen /\ crossed' = crossed
    BY CommitShape
  <2>2. activRefs' = [n \in DOMAIN V |-> R[n]]
    BY <1>1, <1>2 DEF CommitRefs
  <2>3. DOMAIN activRefs' = DOMAIN V /\ \A m \in DOMAIN V : activRefs'[m] = R[m]
    BY <2>2
  <2>4. QED
    BY <1>1, <2>1, <2>3
<1>5. /\ \A p : Kept(p)' <=> Kept(p)
      /\ \A n, p : PostRow(n, p)' <=> PostRow(n, p)
  BY CommitShape
<1>6. /\ \A n \in DOMAIN V :
            \/ n \in DOMAIN tx[b].new /\ V[n] = tx[b].new[n] /\ V[n].board = b
                  /\ n \notin DOMAIN posts
            \/ n \in DOMAIN posts \ tx[b].gone /\ V[n] = posts[n] /\ n \notin DOMAIN tx[b].new
      /\ DOMAIN V = DOMAIN tx[b].new \cup (DOMAIN posts \ tx[b].gone)
      /\ ViewOK(V) /\ \A n \in DOMAIN V : PostRow(n, V[n])
  BY <1>1, CommitShape
<1>7. /\ posts' = V /\ DOMAIN activRefs' = DOMAIN V /\ \A m \in DOMAIN V : activRefs'[m] = R[m]
      /\ tx'[b] = NoTx /\ begun' = begun /\ seen' = seen /\ crossed' = crossed
      /\ \A p : Kept(p)' <=> Kept(p)
      /\ \A n, p : PostRow(n, p)' <=> PostRow(n, p)
      /\ \A n \in DOMAIN V :
            \/ n \in DOMAIN tx[b].new /\ V[n] = tx[b].new[n] /\ V[n].board = b
                  /\ n \notin DOMAIN posts
            \/ n \in DOMAIN posts \ tx[b].gone /\ V[n] = posts[n] /\ n \notin DOMAIN tx[b].new
      /\ DOMAIN V = DOMAIN tx[b].new \cup (DOMAIN posts \ tx[b].gone)
      /\ ViewOK(V) /\ \A n \in DOMAIN V : PostRow(n, V[n])
  BY <1>4, <1>5, <1>6
<1>8. PostsOK'
  <2>1. V = [n \in DOMAIN V |-> V[n]]
    <3>1. V = WrittenOn(tx[b].new, Minus(posts, tx[b].gone))
      BY <1>1 DEF View
    <3>2. QED
      BY <3>1 DEF WrittenOn
  <2>2. activRefs' = [n \in DOMAIN V |-> activRefs'[n]]
    <3>1. activRefs' = [n \in DOMAIN V |-> R[n]]
      BY <1>1, <1>2 DEF CommitRefs
    <3>2. QED
      BY <3>1
  <2>3. IsFiniteSet(DOMAIN V)
    <3>1. IsFiniteSet(DOMAIN tx[b].new)
      <4>1. \A m, l \in DOMAIN tx[b].new : m = l
        BY <1>3, NewParts
      <4>2. CASE DOMAIN tx[b].new = {}
        BY <4>2, FS_EmptySet
      <4>3. CASE DOMAIN tx[b].new # {}
        <5>1. PICK m : DOMAIN tx[b].new = {m}
          BY <4>1, <4>3
        <5>2. QED
          BY <5>1, FS_Singleton
      <4>4. QED
        BY <4>2, <4>3
    <3>2. IsFiniteSet(DOMAIN posts) /\ DOMAIN posts \ tx[b].gone \in SUBSET DOMAIN posts
      BY <1>3 DEF PostsOK
    <3>3. IsFiniteSet(DOMAIN posts \ tx[b].gone)
      BY <3>2, FS_Subset
    <3>4. DOMAIN V = DOMAIN tx[b].new \cup (DOMAIN posts \ tx[b].gone)
      BY <1>7
    <3>5. QED
      BY <3>1, <3>3, <3>4, FS_Union
  <2>4. ASSUME NEW n \in DOMAIN V PROVE PostRow(n, V[n])' /\ ThreadOf(V[n].board, V[n].thread)'
    <3>1. PostRow(n, V[n])'
      BY <1>7
    <3>2. CASE n \in DOMAIN tx[b].new
      <4>1. V[n] = tx[b].new[n] /\ V[n].board = b
        BY <1>7, <3>2
      <4>2. CASE tx[b].new[n].thread = n
        BY <1>7, <4>1, <4>2 DEF ThreadOf
      <4>3. CASE tx[b].new[n].thread # n
        <5>1. ThreadOf(b, tx[b].new[n].thread) /\ tx[b].gone = {}
          BY <1>3, <3>2, <4>3, NewParts
        <5>2. PICK th : th = tx[b].new[n].thread
          OBVIOUS
        <5>3. th \in DOMAIN posts /\ posts[th].board = b /\ posts[th].thread = th
          BY <5>1, <5>2 DEF ThreadOf
        <5>4. th \in DOMAIN V /\ V[th] = posts[th]
          BY <1>7, <5>1, <5>3
        <5>5. QED
          BY <1>7, <3>1, <4>1, <5>2, <5>3, <5>4 DEF ThreadOf
      <4>4. QED
        BY <3>1, <4>2, <4>3
    <3>3. CASE n \in DOMAIN posts \ tx[b].gone
      <4>1. V[n] = posts[n]
        BY <1>7, <3>3
      <4>2. PICK th : th = posts[n].thread
        OBVIOUS
      <4>3. th \in DOMAIN posts /\ posts[th].board = posts[n].board /\ posts[th].thread = th
        BY <1>3, <3>3, <4>2 DEF PostsOK, ThreadOf
      <4>4. th \notin tx[b].gone
        BY <1>3, <3>3, <4>2 DEF GoneOK
      <4>5. th \in DOMAIN V /\ V[th] = posts[th]
        BY <1>7, <4>3, <4>4
      <4>6. QED
        BY <1>7, <3>1, <4>1, <4>2, <4>3, <4>5 DEF ThreadOf
    <3>4. QED
      BY <1>7, <3>2, <3>3
  <2>5. \A n, m \in DOMAIN V : V[n].num = V[m].num => n = m
    BY <1>7 DEF ViewOK
  <2>6. begun' \in Nat /\ crossed' \in BOOLEAN
    BY <1>3, <1>7 DEF PostsOK
  <2>7. QED
    BY <1>7, <2>1, <2>2, <2>3, <2>4, <2>5, <2>6 DEF PostsOK
<1>9. CommittedOK'
  <2>1. tx[b].at = "find" /\ tx[b].todo = <<>> /\ DoneOK(b)
    BY <1>3 DEF CommitRefs, Held
  <2>2. ASSUME NEW m \in DOMAIN V, Kept(V[m]) PROVE R[m] = Incoming(V, V[m])
    <3>1. DOMAIN tx[b].todo = {}
      BY <2>1
    <3>2. ~Pending(b, m, V[m])
      BY <2>1, <3>1 DEF Pending
    <3>3. QED
      BY <1>1, <1>2, <2>1, <2>2, <3>2 DEF DoneOK
  <2>3. QED
    BY <1>7, <2>2 DEF CommittedOK
<1>10. /\ NoTx.at = "none" /\ DOMAIN NoTx.new = {} /\ NoTx.gone = {} /\ DOMAIN NoTx.wrote = {}
       /\ NoTx.page = {} /\ NoTx.todo = <<>> /\ NoTx.off = 0 /\ NoTx.full = FALSE /\ IsTx(NoTx)
       /\ NoTx.new = <<>> /\ NoTx.wrote = <<>>
  BY DEF NoTx, IsTx
<1>11. TxOK(b)' /\ ~Held(b)'
  <2>1. PageOK(b)'
    <3>1. \A S : <<>> \in Seq(S)
      OBVIOUS
    <3>2. tx'[b].full \in BOOLEAN
      BY <1>7, <1>10, Zenon
    <3>3. tx'[b].todo \in Seq(DOMAIN tx'[b].new \cup tx'[b].gone)
      BY <1>7, <1>10, <3>1, Zenon
    <3>4. tx'[b].off \in Nat /\ tx'[b].page = {} /\ tx'[b].at \notin {"declare", "fix", "update"}
      BY <1>7, <1>10
    <3>5. QED
      BY <3>2, <3>3, <3>4 DEF PageOK
  <2>2. NewOK(b)' /\ GoneOK(b)' /\ WroteOK(b)'
    BY <1>7, <1>10 DEF NewOK, GoneOK, WroteOK
  <2>3. QED
    BY <1>7, <1>10, <2>1, <2>2 DEF TxOK, Held
<1>12. QED
  BY <1>8, <1>9, <1>11

\* What c sees when b's transaction has ended.
ViewAfter(b, c) == WrittenOn(tx[c].new, Minus(View(b), tx[c].gone))

\* How what b sees, what c sees and what c will see differ.
Views(b, c, V, U, W) ==
    /\ DOMAIN U = DOMAIN tx[c].new \cup (DOMAIN posts \ tx[c].gone)
    /\ DOMAIN W = DOMAIN tx[c].new \cup (DOMAIN V \ tx[c].gone)
    /\ \A n \in DOMAIN tx[c].new :
           U[n] = tx[c].new[n] /\ W[n] = tx[c].new[n] /\ n \notin DOMAIN V /\ n \notin DOMAIN posts
    /\ \A n \in DOMAIN V \ tx[c].gone : W[n] = V[n] /\ n \notin DOMAIN tx[c].new
    /\ \A n \in DOMAIN posts \ tx[c].gone : U[n] = posts[n] /\ n \notin DOMAIN tx[c].new
    /\ \A n \in DOMAIN U : (n \in DOMAIN W /\ W[n] = U[n])
           \/ (n \in tx[b].gone /\ U[n].board = b /\ <<b, n>> \in seen)
    /\ \A n \in DOMAIN W : (n \in DOMAIN U /\ U[n] = W[n])
           \/ (n \in DOMAIN tx[b].new /\ W[n].board = b /\ <<b, n>> \in seen)
    /\ \A n \in tx[c].gone : n \in DOMAIN V /\ V[n] = posts[n] /\ V[n].board = c /\ <<c, n>> \in seen
    /\ \A n \in DOMAIN tx[c].new : W[n].board = c /\ <<c, n>> \in seen
    /\ \A n \in DOMAIN W : PostRow(n, W[n])
    /\ ViewOK(U) /\ ViewOK(V) /\ ViewOK(W)

\* It is what c saw, and what b did.
LEMMA CommitViews ==
    ASSUME RefsAssumption, RefsInv, NEW b \in Boards, CommitRefs(b), NEW c \in Boards \ {b}
    PROVE  /\ View(c)' = ViewAfter(b, c)
           /\ Views(b, c, View(b), View(c), ViewAfter(b, c))
<1>1. PICK V : V = View(b)
  OBVIOUS
<1>2. PICK U : U = View(c)
  OBVIOUS
<1>3. PICK W : W = ViewAfter(b, c)
  OBVIOUS
<1>4. /\ TxOK(b) /\ TxOK(c) /\ NewOK(b) /\ NewOK(c) /\ GoneOK(b) /\ GoneOK(c) /\ PostsOK
      /\ BoardsApart(b, c)
  BY DEF RefsInv, TxOK
<1>5. posts' = View(b) /\ tx'[c] = tx[c]
  BY CommitShape
<1>6. /\ \A n \in DOMAIN V :
            \/ n \in DOMAIN tx[b].new /\ V[n] = tx[b].new[n] /\ V[n].board = b
                  /\ n \notin DOMAIN posts
            \/ n \in DOMAIN posts \ tx[b].gone /\ V[n] = posts[n] /\ n \notin DOMAIN tx[b].new
      /\ DOMAIN V = DOMAIN tx[b].new \cup (DOMAIN posts \ tx[b].gone)
      /\ \A n \in DOMAIN posts \ tx[b].gone : V[n] = posts[n]
      /\ \A n \in tx[b].gone : n \in DOMAIN posts /\ posts[n].board = b
      /\ ViewOK(V) /\ \A n \in DOMAIN V : PostRow(n, V[n])
  <2>1. /\ \A n \in DOMAIN V :
            \/ n \in DOMAIN tx[b].new /\ V[n] = tx[b].new[n] /\ V[n].board = b
                  /\ n \notin DOMAIN posts
            \/ n \in DOMAIN posts \ tx[b].gone /\ V[n] = posts[n] /\ n \notin DOMAIN tx[b].new
        /\ ViewOK(V) /\ \A n \in DOMAIN V : PostRow(n, V[n])
    BY <1>4, <1>1, TxView
  <2>2. DOMAIN V = DOMAIN tx[b].new \cup (DOMAIN posts \ tx[b].gone)
    BY <1>1, ViewIs
  <2>3. \A n \in DOMAIN posts \ tx[b].gone : V[n] = posts[n]
    BY <2>1, <2>2
  <2>4. \A n \in tx[b].gone : n \in DOMAIN posts /\ posts[n].board = b
    BY <1>4 DEF GoneOK
  <2>5. QED
    BY <2>1, <2>3, <2>4, <2>2
<1>7. /\ \A n \in DOMAIN tx[c].new :
            PostRow(n, tx[c].new[n]) /\ tx[c].new[n].board = c /\ n \notin DOMAIN posts
      /\ \A n \in tx[c].gone : n \in DOMAIN posts /\ posts[n].board = c
      /\ DOMAIN tx[b].new \cap DOMAIN tx[c].new = {}
  BY <1>4, NewParts DEF GoneOK, BoardsApart
<1>8. \A n \in DOMAIN posts : PostRow(n, posts[n])
  BY <1>4, PostsView
<1>9. U = WrittenOn(tx[c].new, Minus(posts, tx[c].gone)) /\ W = WrittenOn(tx[c].new, Minus(V, tx[c].gone))
  BY <1>1, <1>2, <1>3 DEF View, ViewAfter
<1>10. /\ DOMAIN U = DOMAIN tx[c].new \cup (DOMAIN posts \ tx[c].gone)
       /\ DOMAIN W = DOMAIN tx[c].new \cup (DOMAIN V \ tx[c].gone)
       /\ \A n \in DOMAIN tx[c].new :
              U[n] = tx[c].new[n] /\ W[n] = tx[c].new[n] /\ n \notin DOMAIN V /\ n \notin DOMAIN posts
       /\ \A n \in DOMAIN V \ tx[c].gone : W[n] = V[n] /\ n \notin DOMAIN tx[c].new
       /\ \A n \in DOMAIN posts \ tx[c].gone : U[n] = posts[n] /\ n \notin DOMAIN tx[c].new
  BY <1>6, <1>7, <1>9 DEF WrittenOn, Minus
<1>11. \A n \in tx[b].gone : n \in DOMAIN posts /\ posts[n].board = b /\ <<b, n>> \in seen
  BY <1>6, <1>8 DEF PostRow
<1>12. ASSUME NEW n \in DOMAIN U
       PROVE  (n \in DOMAIN W /\ W[n] = U[n]) \/ (n \in tx[b].gone /\ U[n].board = b /\ <<b, n>> \in seen)
  <2>1. CASE n \in DOMAIN tx[c].new
    BY <1>10, <2>1
  <2>2. CASE n \in DOMAIN posts \ tx[c].gone /\ n \in tx[b].gone
    BY <1>10, <1>11, <2>2
  <2>3. CASE n \in DOMAIN posts \ tx[c].gone /\ n \notin tx[b].gone
    BY <1>6, <1>10, <2>3
  <2>4. QED
    BY <1>10, <2>1, <2>2, <2>3
<1>13. ASSUME NEW n \in DOMAIN W
       PROVE  (n \in DOMAIN U /\ U[n] = W[n]) \/ (n \in DOMAIN tx[b].new /\ W[n].board = b /\ <<b, n>> \in seen)
  <2>1. CASE n \in DOMAIN tx[c].new
    BY <1>10, <2>1
  <2>2. CASE n \in DOMAIN V \ tx[c].gone /\ n \in DOMAIN tx[b].new
    <3>1. V[n].board = b /\ PostRow(n, V[n])
      BY <1>6, <2>2
    <3>2. QED
      BY <1>10, <2>2, <3>1 DEF PostRow
  <2>3. CASE n \in DOMAIN V \ tx[c].gone /\ n \notin DOMAIN tx[b].new
    BY <1>6, <1>10, <2>3
  <2>4. QED
    BY <1>10, <2>1, <2>2, <2>3
<1>14. \A n \in tx[c].gone : n \in DOMAIN V /\ V[n] = posts[n] /\ V[n].board = c /\ <<c, n>> \in seen
  <2> TAKE n \in tx[c].gone
  <2>1. n \in DOMAIN posts /\ posts[n].board = c /\ PostRow(n, posts[n])
    BY <1>7, <1>8
  <2>2. n \notin tx[b].gone
    BY <1>6, <2>1
  <2>3. QED
    BY <1>6, <2>1, <2>2 DEF PostRow
<1>15. \A n \in DOMAIN tx[c].new : W[n].board = c /\ <<c, n>> \in seen
  BY <1>7, <1>10 DEF PostRow
<1>16. \A n \in DOMAIN W : PostRow(n, W[n])
  BY <1>6, <1>7, <1>10
<1>17. ViewOK(U)
  BY <1>4, <1>2, TxView
<1>18. ViewOK(W)
  <2>1. ASSUME NEW n \in DOMAIN W, NEW m \in DOMAIN W, W[n].num = W[m].num PROVE n = m
    <3>1. /\ \A l, k \in DOMAIN tx[c].new : l = k
          /\ \A l \in DOMAIN tx[c].new : \A k \in DOMAIN posts : posts[k].num # tx[c].new[l].num
      BY <1>4 DEF NewOK
    <3>2. \A l \in DOMAIN tx[c].new, k \in DOMAIN tx[b].new : tx[c].new[l].num # tx[b].new[k].num
      BY <1>4 DEF BoardsApart
    <3>3. \A l \in DOMAIN tx[c].new : \A k \in DOMAIN V : V[k].num # tx[c].new[l].num
      BY <1>6, <3>1, <3>2
    <3>4. CASE n \in DOMAIN tx[c].new /\ m \in DOMAIN tx[c].new
      BY <3>1, <3>4
    <3>5. CASE n \in DOMAIN tx[c].new /\ m \notin DOMAIN tx[c].new
      BY <1>10, <2>1, <3>3, <3>5
    <3>6. CASE n \notin DOMAIN tx[c].new /\ m \in DOMAIN tx[c].new
      BY <1>10, <2>1, <3>3, <3>6
    <3>7. CASE n \notin DOMAIN tx[c].new /\ m \notin DOMAIN tx[c].new
      <4>1. n \in DOMAIN V /\ m \in DOMAIN V /\ W[n] = V[n] /\ W[m] = V[m]
        BY <1>10, <3>7
      <4>2. QED
        BY <1>6, <2>1, <4>1 DEF ViewOK
    <3>8. QED
      BY <3>4, <3>5, <3>6, <3>7
  <2>2. QED
    BY <1>16, <2>1 DEF ViewOK, PostRow, RefsAssumption
<1>19. View(c)' = ViewAfter(b, c)
  BY <1>5 DEF View, ViewAfter
<1>20. QED
  <2>1. Views(b, c, V, U, W)
    BY <1>6, <1>10, <1>12, <1>13, <1>14, <1>15, <1>16, <1>17, <1>18 DEF Views
  <2>2. QED
    BY <1>1, <1>2, <1>3, <1>19, <2>1

\* The references of a post do not leave its board.
LEMMA Stays ==
    ASSUME NEW p, LocalPost(p), NEW n, NEW b, <<b, n>> \in seen, May(p, n, b)
    PROVE  b = p.board
<1>1. PICK x \in seen : x[1] = b /\ x[2] = n
  OBVIOUS
<1>2. QED
  BY <1>1 DEF LocalPost

\* A post whose references do not leave its board concerns that board alone.
LEMMA Near ==
    ASSUME NEW p, LocalPost(p), NEW b, Concerns(b, p)
    PROVE  p.board = b
<1>1. CASE p.board = b
  BY <1>1
<1>2. CASE \E x \in seen : x[1] = b /\ May(p, x[2], b)
  BY <1>2 DEF LocalPost
<1>3. QED
  BY <1>1, <1>2 DEF Concerns

\* What b did is nothing to those of c's posts whose references stay on c.
LEMMA CommitOthers ==
    ASSUME RefsAssumption, RefsInv, NEW b \in Boards, CommitRefs(b), NEW c \in Boards \ {b}
    PROVE  TxOK(c)' /\ (Held(c)' => DoneOK(c)')
<1>1. PICK V : V = View(b)
  OBVIOUS
<1>2. PICK U : U = View(c)
  OBVIOUS
<1>3. PICK W : W = View(c)' /\ W = ViewAfter(b, c)
  BY CommitViews
<1>4. PICK Q : Q = RefsOf(c)
  OBVIOUS
<1>5. PICK S : S = RefsOf(c)'
  OBVIOUS
<1>6. PICK R : R = RefsOf(b)
  OBVIOUS
<1>7. /\ TxOK(b) /\ TxOK(c) /\ NewOK(c) /\ GoneOK(c) /\ WroteOK(c) /\ PageOK(c) /\ PostsOK
      /\ WroteOK(b) /\ BoardsApart(b, c) /\ BoardsApart(c, b) /\ (Held(c) => DoneOK(c))
  BY DEF RefsInv, TxOK
<1>8. /\ posts' = V /\ tx'[b] = NoTx /\ tx'[c] = tx[c] /\ \A d \in Boards \ {b} : tx'[d] = tx[d]
      /\ begun' = begun /\ seen' = seen /\ crossed' = crossed
  BY <1>1, CommitShape
<1>9. /\ \A p : Kept(p)' <=> Kept(p)
      /\ \A d, p : Concerns(d, p)' <=> Concerns(d, p)
      /\ \A n, p : PostRow(n, p)' <=> PostRow(n, p)
  BY CommitShape
<1>10. DOMAIN activRefs' = DOMAIN V /\ \A m \in DOMAIN V : activRefs'[m] = R[m]
  <2>1. activRefs' = [n \in DOMAIN V |-> R[n]]
    BY <1>1, <1>6 DEF CommitRefs
  <2>2. QED
    BY <2>1
<1>11. Held(b) /\ tx[b].at = "find"
  BY DEF CommitRefs, Held
<1>12. Held(c) => \A p : Kept(p) => LocalPost(p)
  BY <1>7, <1>11 DEF BoardsApart, Kept
<1>13. Views(b, c, V, U, W)
  BY <1>1, <1>2, <1>3, CommitViews
<1>14. /\ DOMAIN U = DOMAIN tx[c].new \cup (DOMAIN posts \ tx[c].gone)
       /\ DOMAIN W = DOMAIN tx[c].new \cup (DOMAIN V \ tx[c].gone)
       /\ \A n \in DOMAIN tx[c].new :
              U[n] = tx[c].new[n] /\ W[n] = tx[c].new[n] /\ n \notin DOMAIN V /\ n \notin DOMAIN posts
       /\ \A n \in DOMAIN V \ tx[c].gone : W[n] = V[n] /\ n \notin DOMAIN tx[c].new
       /\ \A n \in DOMAIN posts \ tx[c].gone : U[n] = posts[n] /\ n \notin DOMAIN tx[c].new
  BY <1>13 DEF Views
<1>15. /\ \A n \in DOMAIN U : (n \in DOMAIN W /\ W[n] = U[n])
              \/ (n \in tx[b].gone /\ U[n].board = b /\ <<b, n>> \in seen)
       /\ \A n \in DOMAIN W : (n \in DOMAIN U /\ U[n] = W[n])
              \/ (n \in DOMAIN tx[b].new /\ W[n].board = b /\ <<b, n>> \in seen)
  BY <1>13 DEF Views
<1>16. /\ \A n \in tx[c].gone : n \in DOMAIN V /\ V[n] = posts[n] /\ V[n].board = c /\ <<c, n>> \in seen
       /\ \A n \in DOMAIN tx[c].new : W[n].board = c /\ <<c, n>> \in seen
       /\ \A n \in DOMAIN W : PostRow(n, W[n])
       /\ ViewOK(U) /\ ViewOK(V) /\ ViewOK(W)
  BY <1>13 DEF Views
<1>17. ASSUME NEW p, p.found \in Messages, LocalPost(p), p.board # b
       PROVE  Incoming(U, p) = Incoming(W, p)
  <2>1. \A n : <<b, n>> \in seen => ~May(p, n, b)
    BY <1>17, Stays
  <2>2. SameFor(U, W, p)
    BY <1>15, <2>1 DEF SameFor
  <2>3. QED
    BY <1>16, <1>17, <2>2, Relevance
<1>18. ASSUME NEW p, p.found \in Messages, LocalPost(p), p.board # c
       PROVE  Incoming(V, p) = Incoming(W, p)
  <2>1. \A n : <<c, n>> \in seen => ~May(p, n, c)
    BY <1>18, Stays
  <2>2. SameFor(V, W, p)
    BY <1>14, <1>16, <2>1 DEF SameFor
  <2>3. QED
    BY <1>16, <1>18, <2>2, Relevance
<1>19. /\ S = WrittenOn(tx[c].wrote, activRefs') /\ Q = WrittenOn(tx[c].wrote, activRefs)
       /\ R = WrittenOn(tx[b].wrote, activRefs)
  BY <1>4, <1>5, <1>6, <1>8 DEF RefsOf
<1>20. ASSUME NEW n \in DOMAIN W, W[n].board = c, LocalPost(W[n]),
              n \in DOMAIN tx[c].new => n \in DOMAIN tx[c].wrote
       PROVE  n \in DOMAIN U /\ U[n] = W[n] /\ S[n] = Q[n]
  <2>1. n \in DOMAIN U /\ U[n] = W[n]
    BY <1>15, <1>20
  <2>2. CASE n \in DOMAIN tx[c].wrote
    BY <1>19, <2>1, <2>2 DEF WrittenOn
  <2>3. CASE n \notin DOMAIN tx[c].wrote
    <3>1. n \in DOMAIN V /\ V[n] = W[n] /\ n \in DOMAIN posts
      BY <1>14, <1>20, <2>1, <2>3
    <3>2. n \notin DOMAIN tx[b].wrote
      <4>1. SUFFICES ASSUME n \in DOMAIN tx[b].wrote PROVE FALSE
        OBVIOUS
      <4>2. Concerns(b, V[n])
        BY <1>1, <1>7, <4>1 DEF WroteOK
      <4>3. QED
        BY <1>20, <3>1, <4>2, Near
    <3>3. n \in DOMAIN activRefs
      BY <1>7, <3>1, PostsView
    <3>4. S[n] = activRefs'[n] /\ activRefs'[n] = R[n]
      BY <1>10, <1>19, <2>3, <3>1 DEF WrittenOn
    <3>5. R[n] = activRefs[n] /\ Q[n] = activRefs[n]
      BY <1>19, <2>3, <3>2, <3>3 DEF WrittenOn
    <3>6. QED
      BY <2>1, <3>4, <3>5
  <2>4. QED
    BY <2>2, <2>3
<1>21. ASSUME NEW n \in DOMAIN tx[c].wrote
       PROVE  n \in DOMAIN W /\ n \in DOMAIN U /\ W[n] = U[n] /\ Concerns(c, U[n])
  <2>1. n \in DOMAIN U /\ Concerns(c, U[n])
    BY <1>2, <1>7 DEF WroteOK
  <2>2. n \notin tx[b].gone
    BY <1>7 DEF BoardsApart
  <2>3. QED
    BY <1>15, <2>1, <2>2
<1>22. /\ \A n \in DOMAIN V :
              \/ n \in DOMAIN tx[b].new /\ V[n] = tx[b].new[n] /\ V[n].board = b
                    /\ n \notin DOMAIN posts
              \/ n \in DOMAIN posts \ tx[b].gone /\ V[n] = posts[n] /\ n \notin DOMAIN tx[b].new
       /\ \A n \in DOMAIN posts \ tx[b].gone : n \in DOMAIN V /\ V[n] = posts[n]
       /\ \A n \in tx[b].gone : n \in DOMAIN posts /\ posts[n].board = b
  <2>1. \A n \in DOMAIN V :
              \/ n \in DOMAIN tx[b].new /\ V[n] = tx[b].new[n] /\ V[n].board = b
                    /\ n \notin DOMAIN posts
              \/ n \in DOMAIN posts \ tx[b].gone /\ V[n] = posts[n] /\ n \notin DOMAIN tx[b].new
    BY <1>1, <1>7, TxView DEF TxOK
  <2>2. DOMAIN V = DOMAIN tx[b].new \cup (DOMAIN posts \ tx[b].gone)
    BY <1>1, ViewIs
  <2>3. \A n \in tx[b].gone : n \in DOMAIN posts /\ posts[n].board = b
    BY <1>7 DEF TxOK, GoneOK
  <2>4. QED
    BY <2>1, <2>2, <2>3
<1>23. NewOK(c)'
  <2> DEFINE new == tx[c].new
  <2>1. /\ new = [n \in DOMAIN new |-> new[n]]
        /\ \A n, m \in DOMAIN new : n = m
        /\ \A n \in DOMAIN new :
               /\ PostRow(n, new[n]) /\ new[n].board = c /\ n \notin DOMAIN posts
               /\ new[n].thread # n => ThreadOf(c, new[n].thread)
               /\ \A m \in DOMAIN posts : posts[m].num # new[n].num
               /\ tx[c].gone = {}
    BY <1>7 DEF NewOK
  <2>2. \A n \in DOMAIN new, m \in DOMAIN tx[b].new : new[n].num # tx[b].new[m].num
    BY <1>7 DEF BoardsApart
  <2> HIDE DEF new
  <2>3. ASSUME NEW n \in DOMAIN new, new[n].thread # n
        PROVE  new[n].thread \in DOMAIN V /\ V[new[n].thread].board = c
                  /\ V[new[n].thread].thread = new[n].thread
    <3>1. PICK th : th = new[n].thread
      OBVIOUS
    <3>2. th \in DOMAIN posts /\ posts[th].board = c /\ posts[th].thread = th
      BY <2>1, <2>3, <3>1 DEF ThreadOf
    <3>3. th \notin tx[b].gone
      BY <1>22, <3>2
    <3>4. QED
      BY <1>22, <3>1, <3>2, <3>3
  <2>4. ASSUME NEW n \in DOMAIN new PROVE n \notin DOMAIN V /\ \A m \in DOMAIN V : V[m].num # new[n].num
    <3>1. n \notin DOMAIN V
      BY <1>14 DEF new
    <3>2. \A m \in DOMAIN V : V[m].num # new[n].num
      BY <1>22, <2>1, <2>2
    <3>3. QED
      BY <3>1, <3>2
  <2>5. \A n \in DOMAIN new : PostRow(n, new[n])'
    <3>1. \A n \in DOMAIN new : PostRow(n, new[n])
      BY <2>1
    <3>2. new' = new /\ begun' = begun /\ seen' = seen
      BY <1>8 DEF new
    <3>3. QED
      BY <3>1, <3>2 DEF PostRow
  <2>6. \A n \in DOMAIN new : new[n].thread # n => ThreadOf(c, new[n].thread)'
    <3>1. new' = new /\ posts' = V
      BY <1>8 DEF new
    <3>2. QED
      BY <2>3, <3>1 DEF ThreadOf
  <2>7. tx'[c].new = new /\ tx'[c].gone = tx[c].gone /\ posts' = V
    BY <1>8 DEF new
  <2>8. QED
    BY <2>1, <2>4, <2>5, <2>6, <2>7 DEF NewOK, new
<1>24. GoneOK(c)'
  <2>1. /\ \A n \in tx[c].gone : n \in DOMAIN V /\ V[n] = posts[n] /\ V[n].board = c /\ n \in DOMAIN posts
    BY <1>7, <1>16 DEF GoneOK
  <2>2. ASSUME NEW n \in DOMAIN V, V[n].thread \in tx[c].gone PROVE n \in tx[c].gone
    <3>1. CASE n \in DOMAIN posts /\ V[n] = posts[n]
      BY <1>7, <2>2, <3>1 DEF GoneOK
    <3>2. CASE n \in DOMAIN tx[b].new /\ V[n] = tx[b].new[n] /\ V[n].board = b /\ n \notin DOMAIN posts
      <4>1. V[n].thread # n
        BY <2>1, <2>2, <3>2
      <4>2. ThreadOf(b, V[n].thread)
        BY <1>7, <3>2, <4>1, NewParts DEF TxOK
      <4>3. QED
        BY <2>1, <2>2, <4>2 DEF ThreadOf
    <3>3. QED
      BY <1>22, <3>1, <3>2
  <2>3. tx'[c].gone = tx[c].gone /\ posts' = V
    BY <1>8
  <2>4. QED
    BY <2>1, <2>2, <2>3 DEF GoneOK
<1>25. WroteOK(c)'
  <2>1. \A n \in DOMAIN tx[c].wrote : n \in DOMAIN W /\ Concerns(c, W[n])'
    BY <1>9, <1>21
  <2>2. QED
    BY <1>3, <1>7, <1>8, <2>1 DEF WroteOK
<1>26. ASSUME NEW p, OneRow(p), p.num \in Nat PROVE OneRow(p)'
  <2>1. p.num <= begun'
    BY <1>8, <1>26 DEF OneRow
  <2>2. \A n \in DOMAIN V : V[n].num = p.num => V[n] = p
    BY <1>22, <1>26 DEF OneRow
  <2>3. ASSUME NEW d \in Boards, NEW n \in DOMAIN tx'[d].new, tx'[d].new[n].num = p.num
        PROVE  tx'[d].new[n] = p
    <3>1. d # b
      BY <1>8, <2>3 DEF NoTx
    <3>2. QED
      BY <1>8, <1>26, <2>3, <3>1 DEF OneRow
  <2>4. QED
    BY <1>8, <2>1, <2>2, <2>3 DEF OneRow
<1>27. ASSUME NEW x, Looked(c, x) PROVE Looked(c, x)'
  BY <1>9, <1>26, <1>27 DEF Looked
<1>28. tx[c].at # "none" => Held(c)
  BY DEF Held
<1>29. ASSUME NEW x, tx[c].at \notin {"none", "declare"}, Looked(c, x), Kept(x.post),
              x.name \in DOMAIN W, W[x.name] = x.post
       PROVE  /\ x.name \in DOMAIN U /\ U[x.name] = x.post /\ S[x.name] = Q[x.name]
              /\ Incoming(U, x.post) = Incoming(W, x.post)
  <2>1. LocalPost(x.post) /\ Concerns(c, x.post)
    BY <1>12, <1>28, <1>29 DEF Looked
  <2>2. x.post.board = c
    BY <2>1, Near
  <2>3. DOMAIN tx[c].new \subseteq DOMAIN tx[c].wrote
    BY <1>7, <1>29 DEF WroteOK
  <2>4. x.name \in DOMAIN U /\ U[x.name] = x.post /\ S[x.name] = Q[x.name]
    BY <1>20, <1>29, <2>1, <2>2, <2>3
  <2>5. x.post.found \in Messages
    BY <1>16, <1>29 DEF PostRow
  <2>6. QED
    BY <1>17, <2>1, <2>2, <2>4, <2>5
<1>30. PageOK(c)'
  <2> DEFINE t == tx[c]
  <2>1. /\ t.off \in Nat /\ t.full \in BOOLEAN
        /\ t.todo \in Seq(DOMAIN t.new \cup t.gone)
        /\ \A x, y \in t.page : x.name = y.name => x = y
        /\ t.at \in {"declare", "find"} => t.page = {}
        /\ t.at = "declare" => DOMAIN t.new # {} /\ DOMAIN t.wrote = {} /\ t.off = 0 /\ t.todo = <<>>
        /\ t.at \in {"fix", "update"} => t.todo # <<>>
        /\ t.at \in {"fix", "update"} /\ t.full => t.page # {}
    BY <1>7 DEF PageOK
  <2>2. ASSUME NEW x \in t.page
        PROVE  /\ x = [name |-> x.name, post |-> x.post, was |-> x.was, left |-> x.left]
               /\ x.left \in BOOLEAN /\ Looked(c, x)
               /\ x.left /\ Still(c, x) /\ Kept(x.post) => x.was = Q[x.name]
    BY <1>4, <1>7 DEF PageOK
  <2>3. ASSUME NEW x \in t.page, x.left, x.name \in DOMAIN W, W[x.name] = x.post, Kept(x.post)
        PROVE  x.was = S[x.name]
    <3>1. t.at \notin {"none", "declare"}
      <4>1. t.at = "none" => t.page = {}
        BY <1>7 DEF TxOK, NoTx
      <4>2. QED
        BY <2>1, <2>3, <4>1
    <3>2. x.name \in DOMAIN U /\ U[x.name] = x.post /\ S[x.name] = Q[x.name]
      BY <1>29, <2>2, <2>3, <3>1
    <3>3. Still(c, x)
      BY <1>2, <3>2 DEF Still
    <3>4. QED
      BY <2>2, <2>3, <3>2, <3>3
  <2>4. ASSUME t.at = "update"
        PROVE  /\ Looked(c, t.now)
               /\ \A x \in t.page : x.name = t.now.name => ~x.left
               /\ (t.now.name \in DOMAIN W /\ W[t.now.name] = t.now.post /\ Kept(t.now.post))
                     => t.fresh = Incoming(W, t.now.post)
    <3>1. /\ Looked(c, t.now)
          /\ \A x \in t.page : x.name = t.now.name => ~x.left
          /\ Still(c, t.now) /\ Kept(t.now.post) => t.fresh = Incoming(U, t.now.post)
      BY <1>2, <1>7, <2>4 DEF PageOK
    <3>2. ASSUME t.now.name \in DOMAIN W, W[t.now.name] = t.now.post, Kept(t.now.post)
          PROVE  t.fresh = Incoming(W, t.now.post)
      <4>1. /\ t.now.name \in DOMAIN U /\ U[t.now.name] = t.now.post
            /\ Incoming(U, t.now.post) = Incoming(W, t.now.post)
        BY <1>29, <2>4, <3>1, <3>2
      <4>2. Still(c, t.now)
        BY <1>2, <4>1 DEF Still
      <4>3. QED
        BY <3>1, <3>2, <4>1, <4>2
    <3>3. QED
      BY <3>1, <3>2
  <2>5. t' = t
    BY <1>8
  <2>6. \A x \in t.page : Looked(c, x)'
    BY <1>27, <2>2
  <2>7. t.at = "update" => Looked(c, t.now)'
    BY <1>8, <1>27, <2>4
  <2>8. \A x : Still(c, x)' <=> (x.name \in DOMAIN W /\ W[x.name] = x.post)
    BY <1>3 DEF Still
  <2>9. Still(c, t.now)' <=> (t.now.name \in DOMAIN W /\ W[t.now.name] = t.now.post)
    BY <1>3, <1>8 DEF Still
  <2>10. Kept(t.now.post)' <=> Kept(t.now.post)
    BY <1>8 DEF Kept, LocalPost, May
  <2>11. Incoming(View(c), t.now.post)' = Incoming(W, t.now.post)
    BY <1>3, <1>8
  <2>12. \A x \in t.page : x.left /\ Still(c, x)' /\ Kept(x.post)' => x.was = RefsOf(c)'[x.name]
    BY <1>5, <1>9, <2>3, <2>8
  <2> HIDE DEF t
  <2>13. /\ t'.off \in Nat /\ t'.full \in BOOLEAN
         /\ t'.todo \in Seq(DOMAIN t'.new \cup t'.gone)
         /\ \A x, y \in t'.page : x.name = y.name => x = y
         /\ t'.at \in {"declare", "find"} => t'.page = {}
         /\ t'.at = "declare" => DOMAIN t'.new # {} /\ DOMAIN t'.wrote = {} /\ t'.off = 0 /\ t'.todo = <<>>
         /\ t'.at \in {"fix", "update"} => t'.todo # <<>>
         /\ t'.at \in {"fix", "update"} /\ t'.full => t'.page # {}
    BY <2>1, <2>5
  <2>14. \A x \in t'.page :
               /\ x = [name |-> x.name, post |-> x.post, was |-> x.was, left |-> x.left]
               /\ x.left \in BOOLEAN /\ Looked(c, x)'
               /\ x.left /\ Still(c, x)' /\ Kept(x.post)' => x.was = RefsOf(c)'[x.name]
    BY <2>2, <2>5, <2>6, <2>12
  <2>15. t'.at = "update" =>
               /\ Looked(c, t.now)'
               /\ \A x \in t'.page : x.name = t'.now.name => ~x.left
               /\ Still(c, t.now)' /\ Kept(t.now.post)' =>
                      t'.fresh = Incoming(View(c), t.now.post)'
    BY <2>4, <2>5, <2>7, <2>9, <2>10, <2>11
  <2>16. QED
    BY <2>13, <2>14, <2>15 DEF PageOK, t
<1>31. Held(c)' => DoneOK(c)'
  <2>1. SUFFICES ASSUME Held(c)' PROVE DoneOK(c)'
    OBVIOUS
  <2>2. Held(c) /\ DoneOK(c) /\ \A p : Kept(p) => LocalPost(p)
    BY <1>7, <1>8, <1>12, <2>1 DEF Held
  <2>3. \A m, p : Pending(c, m, p)' <=> Pending(c, m, p)
    BY <1>8 DEF Pending, May
  <2>4. ASSUME NEW m \in DOMAIN W, Kept(W[m]), ~Pending(c, m, W[m])
        PROVE  S[m] = Incoming(W, W[m])
    <3>1. LocalPost(W[m]) /\ W[m].found \in Messages
      BY <1>16, <2>2, <2>4 DEF PostRow
    <3>2. CASE W[m].board = c
      <4>1. m \in DOMAIN tx[c].new => m \in DOMAIN tx[c].wrote
        BY <1>7, <2>4 DEF WroteOK, Pending
      <4>2. m \in DOMAIN U /\ U[m] = W[m] /\ S[m] = Q[m]
        BY <1>20, <3>1, <3>2, <4>1
      <4>3. Q[m] = Incoming(U, U[m])
        BY <1>2, <1>4, <2>2, <2>4, <4>2 DEF DoneOK
      <4>4. QED
        BY <1>17, <3>1, <3>2, <4>2, <4>3
    <3>3. CASE W[m].board # c
      <4>1. m \notin DOMAIN tx[c].new
        BY <1>16, <3>3
      <4>2. m \in DOMAIN V /\ V[m] = W[m]
        BY <1>14, <4>1
      <4>3. m \notin DOMAIN tx[c].wrote
        BY <1>21, <3>1, <3>3, Near
      <4>4. S[m] = activRefs'[m]
        BY <1>10, <1>19, <4>2, <4>3 DEF WrittenOn
      <4>5. activRefs'[m] = Incoming(V, V[m])
        <5>1. CommittedOK' /\ posts' = V
          BY <1>8, CommitPosts
        <5>2. \A n \in DOMAIN posts' : Kept(posts'[n]) => activRefs'[n] = Incoming(posts', posts'[n])
          BY <1>9, <5>1 DEF CommittedOK
        <5>3. QED
          BY <2>4, <4>2, <5>1, <5>2
      <4>6. QED
        BY <1>18, <3>1, <3>3, <4>2, <4>4, <4>5
    <3>4. QED
      BY <3>2, <3>3
  <2>5. ASSUME NEW m \in DOMAIN W, Kept(W[m])', ~Pending(c, m, W[m])'
        PROVE  S[m] = Incoming(W, W[m])
    <3>1. Kept(W[m])
      BY <1>8, <2>5 DEF Kept, LocalPost, May
    <3>2. ~Pending(c, m, W[m])
      BY <1>8, <2>5 DEF Pending, May
    <3>3. QED
      BY <2>4, <3>1, <3>2
  <2>6. QED
    BY <1>3, <1>5, <2>5 DEF DoneOK
<1>32. QED
  BY <1>7, <1>8, <1>23, <1>24, <1>25, <1>30, <1>31 DEF TxOK, IsTx

\* A transaction that ends leaves the invariant.
LEMMA RefsCommitStep ==
    ASSUME RefsAssumption, RefsInv, NEW b \in Boards, CommitRefs(b)
    PROVE  RefsInv'
<1>1. PostsOK' /\ CommittedOK' /\ TxOK(b)' /\ ~Held(b)'
  BY CommitPosts
<1>2. /\ tx'[b] = NoTx /\ (\A d \in Boards \ {b} : tx'[d] = tx[d])
      /\ tx' = [c \in Boards |-> tx'[c]] /\ crossed' = crossed
  BY CommitShape
<1>3. ASSUME NEW c \in Boards PROVE TxOK(c)' /\ (Held(c)' => DoneOK(c)')
  <2>1. CASE c = b
    BY <1>1, <2>1
  <2>2. CASE c # b
    BY <2>2, CommitOthers
  <2>3. QED
    BY <2>1, <2>2
<1>4. ASSUME NEW c \in Boards, NEW d \in Boards, c # d PROVE BoardsApart(c, d)'
  <2>1. BoardsApart(c, d)
    BY <1>4 DEF RefsInv
  <2>2. /\ NoTx.at = "none" /\ DOMAIN NoTx.new = {} /\ NoTx.gone = {} /\ DOMAIN NoTx.wrote = {}
    BY DEF NoTx
  <2>3. CASE c = b
    <3>1. tx'[c] = NoTx
      BY <1>2, <2>3
    <3>2. QED
      BY <2>2, <3>1 DEF BoardsApart, Held
  <2>4. CASE d = b
    <3>1. tx'[d] = NoTx
      BY <1>2, <2>4
    <3>2. QED
      BY <2>2, <3>1 DEF BoardsApart, Held
  <2>5. CASE c # b /\ d # b
    <3>1. tx'[c] = tx[c] /\ tx'[d] = tx[d]
      BY <1>2, <2>5
    <3>2. QED
      BY <1>2, <2>1, <3>1 DEF BoardsApart, Held
  <2>6. QED
    BY <2>3, <2>4, <2>5
<1>5. QED
  BY <1>1, <1>2, <1>3, <1>4 DEF RefsInv

\* Every step keeps the invariant.
LEMMA RefsInvStep == RefsAssumption /\ RefsInv /\ [RefsNext]_refsVars => RefsInv'
<1> SUFFICES ASSUME RefsAssumption, RefsInv, [RefsNext]_refsVars PROVE RefsInv'
  OBVIOUS
<1>1. ASSUME NEW b \in Boards, RefsStep(b) PROVE RefsInv'
  <2>1. CASE InsertNewThread(b)
    <3>1. PICK n \in PostNames : InsertBPost(b, n, n)
      BY <2>1 DEF InsertNewThread
    <3>2. QED
      BY <3>1, InsertStep
  <2>2. CASE InsertNewReply(b)
    <3>1. PICK th \in DOMAIN posts \ Uncommitted :
              /\ posts[th].board = b /\ posts[th].thread = th
              /\ \E n \in PostNames : InsertBPost(b, n, th)
      BY <2>2 DEF InsertNewReply
    <3>2. PICK n \in PostNames : InsertBPost(b, n, th)
      BY <3>1
    <3>3. ThreadOf(b, th)
      BY <3>1 DEF ThreadOf
    <3>4. QED
      BY <3>2, <3>3, InsertStep
  <2>3. CASE DeleteByMsgID(b)
    BY <2>3, DeleteRefsStep
  <2>4. CASE Declare(b)
    BY <2>4, DeclareStep
  <2>5. CASE FindReferences(b)
    BY <2>5, FindStep
  <2>6. CASE Recompute(b)
    BY <2>6, RecomputeStep
  <2>7. CASE UpdatePostReferences(b)
    BY <2>7, UpdateStep
  <2>8. CASE NextPage(b)
    BY <2>8, NextPageStep
  <2>9. CASE CommitRefs(b)
    BY <2>9, RefsCommitStep
  <2>10. CASE RollbackRefs(b)
    BY <2>10, RollbackStep
  <2>11. QED
    BY <1>1, <2>1, <2>2, <2>3, <2>4, <2>5, <2>6, <2>7, <2>8, <2>9, <2>10 DEF RefsStep
<1>2. CASE UNCHANGED refsVars
  <2>1. RefsInv
    OBVIOUS
  <2>2. UNCHANGED <<posts, activRefs, tx, begun, seen, crossed>>
    BY <1>2 DEF refsVars
  <2>3. \A p : (Kept(p)' <=> Kept(p)) /\ (OneRow(p)' <=> OneRow(p))
    BY <2>2 DEF Kept, LocalPost, May, OneRow
  <2>4. \A c, p : Concerns(c, p)' <=> Concerns(c, p)
    BY <2>2 DEF Concerns, May
  <2>5. \A n, p : (PostRow(n, p)' <=> PostRow(n, p))
    BY <2>2 DEF PostRow
  <2>6. PostsOK' /\ CommittedOK'
    <3>1. PostsOK'
      BY <2>1, <2>2 DEF RefsInv, PostsOK, PostRow, ThreadOf
    <3>2. CommittedOK'
      BY <2>1, <2>2, <2>3 DEF RefsInv, CommittedOK, Kept, LocalPost, May
    <3>3. QED
      BY <3>1, <3>2
  <2>7. ASSUME NEW b \in Boards PROVE TxOK(b)'
    <3>1. TxOK(b)
      BY <2>1 DEF RefsInv
    <3>2. View(b)' = View(b) /\ RefsOf(b)' = RefsOf(b) /\ tx'[b] = tx[b]
      BY <2>2 DEF View, RefsOf
    <3>3. NewOK(b)'
      BY <2>2, <3>1 DEF TxOK, NewOK, PostRow, ThreadOf
    <3>4. GoneOK(b)'
      BY <2>2, <3>1 DEF TxOK, GoneOK
    <3>5. WroteOK(b)'
      BY <2>2, <3>1, <3>2 DEF TxOK, WroteOK, Concerns, May
    <3>6. PageOK(b)'
      <4>1. PageOK(b)
        BY <3>1 DEF TxOK
      <4>2. \A x : (Looked(b, x)' <=> Looked(b, x)) /\ (Still(b, x)' <=> Still(b, x))
        BY <2>3, <2>4, <3>2 DEF Looked, Still
      <4>3. /\ Looked(b, tx[b].now)' <=> Looked(b, tx[b].now)
            /\ Still(b, tx[b].now)' <=> Still(b, tx[b].now)
            /\ Kept(tx[b].now.post)' <=> Kept(tx[b].now.post)
            /\ Incoming(View(b), tx[b].now.post)' = Incoming(View(b), tx[b].now.post)
        <5>1. tx' = tx
          BY <2>2
        <5>2. /\ Looked(b, tx[b].now)' <=> Looked(b, tx[b].now)
          BY <2>2 DEF Looked, OneRow, Concerns, May
        <5>3. /\ Still(b, tx[b].now)' <=> Still(b, tx[b].now)
          BY <3>2, <5>1 DEF Still
        <5>4. Kept(tx[b].now.post)' <=> Kept(tx[b].now.post)
          BY <2>2 DEF Kept, LocalPost, May
        <5>5. Incoming(View(b), tx[b].now.post)' = Incoming(View(b), tx[b].now.post)
          BY <3>2, <5>1
        <5>6. QED
          BY <5>2, <5>3, <5>4, <5>5
      <4>4. \A x \in tx[b].page : Kept(x.post)' <=> Kept(x.post)
        BY <2>3
      <4>5. QED
        BY <2>2, <3>2, <4>1, <4>2, <4>3, <4>4 DEF PageOK
    <3>7. QED
      BY <3>1, <3>2, <3>3, <3>4, <3>5, <3>6 DEF TxOK, IsTx
  <2>8. ASSUME NEW b \in Boards, Held(b)' PROVE DoneOK(b)'
    <3>1. DoneOK(b)
      BY <2>1, <2>2, <2>8 DEF RefsInv, Held
    <3>2. PICK V : V = View(b)
      OBVIOUS
    <3>3. View(b)' = V /\ RefsOf(b)' = RefsOf(b) /\ tx'[b] = tx[b]
      BY <2>2, <3>2 DEF View, RefsOf
    <3>4. ASSUME NEW m \in DOMAIN V, Kept(V[m])', ~Pending(b, m, V[m])'
          PROVE  RefsOf(b)[m] = Incoming(V, V[m])
      <4>1. Kept(V[m])
        BY <2>2, <3>4 DEF Kept, LocalPost, May
      <4>2. ~Pending(b, m, V[m])
        BY <2>2, <3>4 DEF Pending, May
      <4>3. QED
        BY <3>1, <3>2, <4>1, <4>2 DEF DoneOK
    <3>5. QED
      BY <3>3, <3>4 DEF DoneOK
  <2>9. \A b, c \in Boards : b # c => BoardsApart(b, c)'
    BY <2>1, <2>2 DEF RefsInv, BoardsApart, Held
  <2>10. QED
    BY <2>1, <2>2, <2>6, <2>7, <2>8, <2>9 DEF RefsInv
<1>3. QED
  BY <1>1, <1>2 DEF RefsNext

\* k is back with m behind it, if there is a hit up to j and m is not the last
\* already.
Behinds(back, m, hit, j) ==
    IF (\E i \in hit : i \in 1 .. j) /\ (back = <<>> \/ Last(back) # m) THEN Append(back, m) ELSE back

\* A post is put behind the others once, however many of its entries lead there.
LEMMA PutOnce ==
    ASSUME NEW A, NEW back \in Seq(A), NEW m \in A, NEW hit, NEW k \in Nat,
           NEW with, with = CHOOSE f : f = [j \in 0 .. k |->
               IF j = 0 THEN back
               ELSE IF j \in hit /\ (f[j - 1] = <<>> \/ Last(f[j - 1]) # m)
                    THEN Append(f[j - 1], m) ELSE f[j - 1]]
    PROVE  with[k] = Behinds(back, m, hit, k)
<1> DEFINE step(j, v) == IF j \in hit /\ (v = <<>> \/ Last(v) # m) THEN Append(v, m) ELSE v
           F(f) == [j \in 0 .. k |-> IF j = 0 THEN back ELSE step(j, f[j - 1])]
           B(j) == Behinds(back, m, hit, j)
           W == [j \in 0 .. k |-> B(j)]
<1>1. B(0) = back
  BY DEF Behinds
<1>2. ASSUME NEW j \in Nat, j # 0 PROVE B(j) = step(j, B(j - 1))
  <2>1. Append(back, m) # <<>> /\ Last(Append(back, m)) = m
    BY DEF Last
  <2>2. (\E i \in hit : i \in 1 .. j) <=> j \in hit \/ \E i \in hit : i \in 1 .. j - 1
    BY <1>2
  <2>3. CASE \E i \in hit : i \in 1 .. j - 1
    <3>1. CASE back = <<>> \/ Last(back) # m
      <4>1. B(j) = Append(back, m) /\ B(j - 1) = Append(back, m)
        BY <2>2, <2>3, <3>1 DEF Behinds
      <4>2. QED
        BY <2>1, <4>1
    <3>2. CASE ~(back = <<>> \/ Last(back) # m)
      <4>1. B(j) = back /\ B(j - 1) = back
        BY <3>2 DEF Behinds
      <4>2. QED
        BY <3>2, <4>1
    <3>3. QED
      BY <3>1, <3>2
  <2>4. CASE ~ \E i \in hit : i \in 1 .. j - 1
    <3>1. B(j - 1) = back
      BY <2>4 DEF Behinds
    <3>2. B(j) = step(j, back)
      BY <2>2, <2>4 DEF Behinds
    <3>3. QED
      BY <3>1, <3>2
  <2>5. QED
    BY <2>3, <2>4
<1> HIDE DEF step, B
<1>3. W = F(W)
  <2>1. ASSUME NEW j \in 0 .. k PROVE W[j] = IF j = 0 THEN back ELSE step(j, W[j - 1])
    <3>1. CASE j = 0
      BY <1>1, <3>1
    <3>2. CASE j # 0
      <4>1. j - 1 \in 0 .. k /\ j \in Nat
        BY <3>2
      <4>2. W[j] = B(j) /\ W[j - 1] = B(j - 1)
        BY <4>1
      <4>3. QED
        BY <1>2, <3>2, <4>1, <4>2
    <3>3. QED
      BY <3>1, <3>2
  <2> HIDE DEF W
  <2>2. W = [j \in 0 .. k |-> W[j]]
    BY DEF W
  <2>3. QED
    BY <2>1, <2>2
<1>4. with = F(with)
  <2>1. with = CHOOSE f : f = F(f)
    BY DEF step
  <2> HIDE DEF F, W
  <2>2. QED
    BY <1>3, <2>1
<1>5. \A j \in Nat : j <= k => with[j] = B(j)
  <2> DEFINE S == {j \in Nat : j <= k => with[j] = B(j)}
  <2>1. with[0] = B(0)
    <3>1. 0 \in 0 .. k
      OBVIOUS
    <3>2. F(with)[0] = back
      BY <3>1
    <3> HIDE DEF F
    <3>3. QED
      BY <1>1, <1>4, <3>2
  <2>2. ASSUME NEW j \in Nat, j \in S, j + 1 <= k PROVE with[j + 1] = B(j + 1)
    <3>1. with[j] = B(j) /\ (j + 1) - 1 = j /\ j + 1 \in 0 .. k /\ j + 1 # 0
      BY <2>2
    <3>2. with[j + 1] = step(j + 1, with[j])
      BY <1>4, <3>1
    <3>3. B(j + 1) = step(j + 1, B(j))
      BY <1>2, <3>1
    <3>4. QED
      BY <3>1, <3>2, <3>3
  <2>3. 0 \in S /\ \A j \in Nat : j \in S => j + 1 \in S
    <3>1. 0 \in S
      BY <2>1
    <3>2. ASSUME NEW j \in Nat, j \in S PROVE j + 1 \in S
      <4>1. j + 1 <= k => with[j + 1] = B(j + 1)
        BY <2>2, <3>2
      <4>2. QED
        BY <4>1
    <3> HIDE DEF S
    <3>3. QED
      BY <3>1, <3>2
  <2> HIDE DEF S
  <2>4. Nat \subseteq S
    BY <2>3, Induct
  <2>5. QED
    BY <2>4 DEF S
<1>6. QED
  BY <1>5 DEF B

\* A list, such as what is referred to is kept as.
IsList(s) == s \in Seq({s[i] : i \in DOMAIN s})

\* Post x leads to n, of the thread t of b.
Leads(x, n, b, t) == x # n /\ \E j \in DOMAIN activRefs[x] : LeadsTo(activRefs[x][j], n, b, t)

\* ProcessBackReferences names each post of the thread that leads there, and
\* names it once.
LEMMA BackIs ==
    ASSUME PostsOK, \A x \in DOMAIN posts : IsList(activRefs[x]), NEW n \in DOMAIN posts,
           NEW b, NEW t, b = posts[n].board, t = posts[n].thread
    PROVE  /\ \A i, j \in DOMAIN BackReferences(n) :
                  BackReferences(n)[i] = BackReferences(n)[j] => i = j
           /\ \A x : x \in Range(BackReferences(n)) <=>
                  /\ x \in DOMAIN posts /\ posts[x].board = b /\ posts[x].thread = t
                  /\ Leads(x, n, b, t)
<1> DEFINE A == {x \in DOMAIN posts : posts[x].board = b /\ posts[x].thread = t}
           shown == ThreadPosts(b, t)
           with(back, m) == CHOOSE f : f = [j \in 0 .. Len(activRefs[m]) |->
               IF j = 0 THEN back
               ELSE IF LeadsTo(activRefs[m][j], n, b, t) /\ m # n
                       /\ (f[j - 1] = <<>> \/ Last(f[j - 1]) # m)
                    THEN Append(f[j - 1], m) ELSE f[j - 1]]
           Of(back, m) == with(back, m)[Len(activRefs[m])]
           F(f) == [i \in 0 .. Len(shown) |-> IF i = 0 THEN <<>> ELSE Of(f[i - 1], shown[i])]
           all == CHOOSE f : f = F(f)
           k == Cardinality(A)
           New(back, m) == IF Leads(m, n, b, t) /\ (back = <<>> \/ Last(back) # m)
                           THEN Append(back, m) ELSE back
<1>1. BackReferences(n) = all[Len(shown)]
  BY DEF BackReferences
<1>2. /\ shown \in [1 .. k -> A] /\ k \in Nat /\ Len(shown) = k
      /\ \A x \in A : \E i \in 1 .. k : shown[i] = x
      /\ \A i, j \in 1 .. k : shown[i] = shown[j] => i = j
  <2> DEFINE key == [x \in DOMAIN posts |-> posts[x].num]
  <2>1. IsFiniteSet(A)
    <3>1. IsFiniteSet(DOMAIN posts) /\ A \in SUBSET DOMAIN posts
      BY DEF PostsOK
    <3>2. QED
      BY <3>1, FS_Subset
  <2>2. /\ \A x \in A : key[x] \in Int
        /\ \A x, y \in A : key[x] = key[y] => x = y
    <3>1. \A x \in DOMAIN posts : posts[x].num \in Nat
      BY DEF PostsOK, PostRow
    <3>2. \A x, y \in DOMAIN posts : posts[x].num = posts[y].num => x = y
      BY DEF PostsOK
    <3>3. A \subseteq DOMAIN posts /\ \A x \in A : key[x] = posts[x].num
      OBVIOUS
    <3> HIDE DEF A, key
    <3>4. QED
      BY <3>1, <3>2, <3>3
  <2>3. shown = Sorted(A, key)
    BY DEF ThreadPosts
  <2> HIDE DEF key, A
  <2>4. SortedBy(shown, A, key)
    BY <2>1, <2>2, <2>3, SortedIs
  <2> HIDE DEF shown
  <2>5. /\ shown \in [1 .. k -> A] /\ k \in Nat
        /\ \A x \in A : \E i \in 1 .. k : shown[i] = x
        /\ \A i, j \in 1 .. k : i < j => key[shown[i]] < key[shown[j]]
    BY <2>4 DEF SortedBy
  <2>6. ASSUME NEW i \in 1 .. k, NEW j \in 1 .. k, shown[i] = shown[j] PROVE i = j
    <3>1. key[shown[i]] \in Int
      BY <2>2, <2>5
    <3> HIDE DEF k
    <3>2. i \in Int /\ j \in Int
      BY <2>5
    <3>3. ~(i < j) /\ ~(j < i)
      BY <2>5, <2>6, <3>1
    <3>4. QED
      BY <3>2, <3>3
  <2>7. Len(shown) = k
    BY <2>5
  <2>8. QED
    BY <2>5, <2>6, <2>7
<1>3. ASSUME NEW m \in A, NEW back \in Seq(A) PROVE Of(back, m) = New(back, m)
  <2> DEFINE hit == {j \in DOMAIN activRefs[m] : LeadsTo(activRefs[m][j], n, b, t) /\ m # n}
             l == Len(activRefs[m])
  <2>1. l \in Nat /\ DOMAIN activRefs[m] = 1 .. l
    BY DEF IsList
  <2>2. with(back, m) = CHOOSE f : f = [j \in 0 .. l |->
               IF j = 0 THEN back
               ELSE IF j \in hit /\ (f[j - 1] = <<>> \/ Last(f[j - 1]) # m)
                    THEN Append(f[j - 1], m) ELSE f[j - 1]]
    <3>1. ASSUME NEW f
          PROVE  [j \in 0 .. l |->
                    IF j = 0 THEN back
                    ELSE IF LeadsTo(activRefs[m][j], n, b, t) /\ m # n
                            /\ (f[j - 1] = <<>> \/ Last(f[j - 1]) # m)
                         THEN Append(f[j - 1], m) ELSE f[j - 1]]
                 = [j \in 0 .. l |->
                    IF j = 0 THEN back
                    ELSE IF j \in hit /\ (f[j - 1] = <<>> \/ Last(f[j - 1]) # m)
                         THEN Append(f[j - 1], m) ELSE f[j - 1]]
      <4>1. \A j \in 0 .. l : j # 0 => (j \in hit <=> LeadsTo(activRefs[m][j], n, b, t) /\ m # n)
        BY <2>1
      <4> HIDE DEF hit, l
      <4>2. QED
        BY <4>1
    <3> HIDE DEF hit
    <3>2. QED
      BY <3>1
  <2> HIDE DEF with, A, hit, l
  <2>3. with(back, m)[l] = Behinds(back, m, hit, l)
    BY <2>1, <2>2, PutOnce
  <2>4. (\E i \in hit : i \in 1 .. l) <=> Leads(m, n, b, t)
    BY <2>1 DEF hit, Leads
  <2>5. QED
    BY <2>3, <2>4 DEF Behinds, l
<1> HIDE DEF with, Of
<1>4. ASSUME NEW m \in A, NEW back \in Seq(A) PROVE New(back, m) \in Seq(A)
  <2> HIDE DEF A
  <2> QED
    OBVIOUS
<1> DEFINE op == [x \in Nat \X Seq(A) |-> IF x[1] < k THEN New(x[2], shown[x[1] + 1]) ELSE x[2]]
<1>5. PICK g : Run(Seq(A), <<>>, op, g)
  <2> HIDE DEF A, New, k, shown
  <2>1. <<>> \in Seq(A)
    OBVIOUS
  <2>2. StepIn(Seq(A), op)
    <3>1. ASSUME NEW i \in Nat, NEW v \in Seq(A) PROVE op[<<i, v>>] \in Seq(A)
      <4>1. op[<<i, v>>] = IF i < k THEN New(v, shown[i + 1]) ELSE v
        OBVIOUS
      <4> HIDE DEF op
      <4>2. CASE i < k
        <5>1. shown[i + 1] \in A
          BY <1>2, <4>2
        <5>2. QED
          BY <1>4, <4>1, <4>2, <5>1
      <4>3. CASE ~(i < k)
        BY <4>1, <4>3
      <4>4. QED
        BY <4>2, <4>3
    <3> HIDE DEF op
    <3>2. QED
      BY <3>1 DEF StepIn
  <2> HIDE DEF op
  <2>3. QED
    BY <2>1, <2>2, Recursion
<1>6. g \in [Nat -> Seq(A)] /\ g[0] = <<>> /\ \A i \in Nat : i < k => g[i + 1] = New(g[i], shown[i + 1])
  <2> HIDE DEF A, New, k, shown
  <2>1. g \in [Nat -> Seq(A)] /\ g[0] = <<>> /\ \A i \in Nat : g[i + 1] = op[<<i, g[i]>>]
    <3> HIDE DEF op
    <3> QED
      BY <1>5 DEF Run
  <2>2. \A i \in Nat : g[i] \in Seq(A)
    BY <2>1
  <2>3. \A i \in Nat : op[<<i, g[i]>>] = IF i < k THEN New(g[i], shown[i + 1]) ELSE g[i]
    BY <2>2
  <2> HIDE DEF op
  <2>4. QED
    BY <2>1, <2>3
<1> HIDE DEF op, New, A, k, shown
<1> DEFINE G == [i \in 0 .. k |-> g[i]]
<1>7. G = F(G)
  <2>1. ASSUME NEW i \in 0 .. k PROVE G[i] = IF i = 0 THEN <<>> ELSE Of(G[i - 1], shown[i])
    <3>1. CASE i = 0
      BY <1>6, <3>1
    <3>2. CASE i # 0
      <4>1. i - 1 \in 0 .. k /\ i - 1 \in Nat /\ i - 1 < k /\ (i - 1) + 1 = i /\ i \in 1 .. k
        BY <1>2, <3>2
      <4>2. g[i] = New(g[i - 1], shown[i]) /\ g[i - 1] \in Seq(A) /\ shown[i] \in A
        BY <1>2, <1>6, <4>1
      <4>3. G[i] = g[i] /\ G[i - 1] = g[i - 1]
        BY <4>1
      <4>4. QED
        BY <1>3, <3>2, <4>2, <4>3
    <3>3. QED
      BY <3>1, <3>2
  <2>2. G = [i \in 0 .. k |-> G[i]]
    OBVIOUS
  <2> HIDE DEF G
  <2>3. QED
    BY <1>2, <2>1, <2>2
<1>8. all = F(all)
  <2> HIDE DEF F, G
  <2>1. QED
    BY <1>7
<1> HIDE DEF all, G
<1>9. all[0] = <<>> /\ \A i \in Nat : i < k => all[i + 1] = Of(all[i], shown[i + 1])
  <2>1. 0 \in 0 .. k /\ Len(shown) = k
    BY <1>2
  <2>2. all[0] = <<>>
    BY <1>8, <2>1
  <2>3. ASSUME NEW i \in Nat, i < k PROVE all[i + 1] = Of(all[i], shown[i + 1])
    <3>1. i + 1 \in 0 .. k /\ i + 1 # 0 /\ (i + 1) - 1 = i
      BY <1>2, <2>3
    <3>2. QED
      BY <1>8, <2>1, <3>1
  <2>4. QED
    BY <2>2, <2>3
<1> HIDE DEF F
<1> DEFINE P(i) == /\ all[i] \in Seq(A)
                   /\ \A x : (\E j \in DOMAIN all[i] : all[i][j] = x)
                         <=> \E j \in 1 .. i : shown[j] = x /\ Leads(x, n, b, t)
                   /\ \A j, l \in DOMAIN all[i] : all[i][j] = all[i][l] => j = l
<1>10. P(0)
  <2>1. all[0] = <<>> /\ <<>> \in Seq(A)
    BY <1>9
  <2>2. DOMAIN all[0] = {}
    BY <2>1
  <2>3. QED
    BY <2>1, <2>2
<1>11. ASSUME NEW i \in Nat, i < k, P(i) PROVE P(i + 1)
  <2>1. PICK m : m = shown[i + 1]
    OBVIOUS
  <2>2. PICK back : back = all[i]
    OBVIOUS
  <2>3. PICK more : more = all[i + 1]
    OBVIOUS
  <2>4. m \in A /\ back \in Seq(A)
    BY <1>2, <1>11, <2>1, <2>2
  <2>5. \A j \in 1 .. i : shown[j] # m
    BY <1>2, <1>11, <2>1
  <2>6. \A j \in DOMAIN back : back[j] # m
    BY <1>11, <2>2, <2>5
  <2>7. back = <<>> \/ Last(back) # m
    BY <2>4, <2>6 DEF Last
  <2>8. more = IF Leads(m, n, b, t) THEN Append(back, m) ELSE back
    BY <1>3, <1>9, <1>11, <2>1, <2>2, <2>3, <2>4, <2>7 DEF New
  <2>9. \A j : j \in 1 .. i + 1 <=> j \in 1 .. i \/ j = i + 1
    OBVIOUS
  <2>10. \A x : (\E j \in DOMAIN back : back[j] = x)
                    <=> \E j \in 1 .. i : shown[j] = x /\ Leads(x, n, b, t)
    BY <1>11, <2>2
  <2>11. \A j, l \in DOMAIN back : back[j] = back[l] => j = l
    BY <1>11, <2>2
  <2> HIDE DEF P
  <2>12. CASE ~Leads(m, n, b, t)
    <3>1. more = back
      BY <2>8, <2>12
    <3>2. \A x : (\E j \in DOMAIN more : more[j] = x)
                     <=> \E j \in 1 .. i + 1 : shown[j] = x /\ Leads(x, n, b, t)
      BY <2>1, <2>9, <2>10, <2>12, <3>1
    <3>3. QED
      BY <2>3, <2>4, <2>11, <3>1, <3>2 DEF P
  <2>13. CASE Leads(m, n, b, t)
    <3>1. more = Append(back, m) /\ more \in Seq(A)
      BY <2>4, <2>8, <2>13
    <3>2. PICK l \in Nat : l = Len(back) /\ DOMAIN back = 1 .. l
      BY <2>4
    <3>3. DOMAIN more = 1 .. l + 1 /\ more[l + 1] = m /\ \A j \in 1 .. l : more[j] = back[j]
      BY <2>4, <3>1, <3>2
    <3>4. \A j : j \in 1 .. l + 1 <=> j \in 1 .. l \/ j = l + 1
      OBVIOUS
    <3>5. \A x : (\E j \in DOMAIN more : more[j] = x)
                     <=> (\E j \in DOMAIN back : back[j] = x) \/ x = m
      BY <3>2, <3>3, <3>4
    <3>6. \A x : (\E j \in DOMAIN more : more[j] = x)
                     <=> \E j \in 1 .. i + 1 : shown[j] = x /\ Leads(x, n, b, t)
      BY <2>1, <2>9, <2>10, <2>13, <3>5
    <3>7. \A j, h \in DOMAIN more : more[j] = more[h] => j = h
      BY <2>6, <2>11, <3>2, <3>3, <3>4
    <3>8. QED
      BY <2>3, <3>1, <3>6, <3>7 DEF P
  <2>14. QED
    BY <2>12, <2>13
<1>12. P(k)
  <2> DEFINE S == {i \in Nat : i <= k => P(i)}
  <2> HIDE DEF P
  <2>1. 0 \in S /\ \A i \in Nat : i \in S => i + 1 \in S
    BY <1>2, <1>10, <1>11
  <2> HIDE DEF S
  <2>2. Nat \subseteq S
    BY <2>1, Induct
  <2>3. QED
    BY <1>2, <2>2 DEF S
<1>13. QED
  <2>1. BackReferences(n) = all[k]
    BY <1>1, <1>2
  <2>2. PICK r : r = BackReferences(n)
    OBVIOUS
  <2>3. /\ \A x : (\E j \in DOMAIN r : r[j] = x)
               <=> \E j \in 1 .. k : shown[j] = x /\ Leads(x, n, b, t)
        /\ \A j, l \in DOMAIN r : r[j] = r[l] => j = l
    BY <1>12, <2>1, <2>2
  <2>4. \A x : (\E j \in 1 .. k : shown[j] = x) <=> x \in A
    BY <1>2
  <2>5. \A x : x \in Range(r) <=> \E j \in DOMAIN r : r[j] = x
    BY DEF Range
  <2>6. \A x : x \in Range(r) <=> x \in A /\ Leads(x, n, b, t)
    BY <2>3, <2>4, <2>5
  <2>7. QED
    BY <2>2, <2>3, <2>6 DEF A

\* What is and will be written are lists, and the posts on a page have messages.
RefsLists ==
    /\ \A n \in DOMAIN posts : IsList(activRefs[n])
    /\ \A b \in Boards :
           /\ \A n \in DOMAIN tx[b].wrote : IsList(tx[b].wrote[n])
           /\ \A x \in tx[b].page : x.post.found \in Messages
           /\ tx[b].at = "update" => IsList(tx[b].fresh)

\* What a post refers to is a list.
LEMMA IncomingList ==
    ASSUME RefsAssumption, NEW view, ViewOK(view), NEW p, p.found \in Messages
    PROVE  IsList(Incoming(view, p))
<1>1. PICK s : s = Incoming(view, p)
  OBVIOUS
<1>2. PICK n \in Nat : DOMAIN s = 1 .. n
  BY <1>1, IncomingIs
<1>3. s = [i \in DOMAIN s |-> s[i]]
  <2> DEFINE f(view_, p_) == Incoming(view_, p_)
  <2>1. Incoming(view, p) = [i \in DOMAIN Incoming(view, p) |-> Incoming(view, p)[i]]
    <3> DEFINE refs == Parsed(p.found)
               to == [i \in DOMAIN refs |-> PickOnIncoming(view, refs[i], p.board, p.irt)]
               there == {i \in DOMAIN refs : OnlyBoard(refs[i]) \/ to[i] # NoPost}
               order == Sorted(there, [i \in there |-> i])
               entry(i) == IF OnlyBoard(refs[i]) THEN BoardEntry(refs[i])
                           ELSE Entry(view, refs[i], to[i], p.board, p.thread)
    <3>1. Incoming(view, p) = [k \in DOMAIN order |-> entry(order[k])]
      BY DEF Incoming
    <3> HIDE DEF order, entry
    <3>2. QED
      BY <3>1
  <2>2. QED
    BY <1>1, <2>1
<1>4. s \in Seq({s[i] : i \in DOMAIN s})
  BY <1>2, <1>3
<1>5. QED
  BY <1>1, <1>4 DEF IsList

\* It is so in the beginning.
LEMMA RefsListsBegin == RefsInit => RefsLists
<1> SUFFICES ASSUME RefsInit PROVE RefsLists
  OBVIOUS
<1>1. /\ DOMAIN posts = {} /\ \A b \in Boards : tx[b] = NoTx
  BY DEF RefsInit
<1>2. DOMAIN NoTx.wrote = {} /\ NoTx.page = {} /\ NoTx.at # "update"
  BY DEF NoTx
<1>3. QED
  BY <1>1, <1>2 DEF RefsLists

\* It is so again when a transaction of b has what is so.
LEMMA OwnLists ==
    ASSUME RefsLists, NEW b \in Boards, NEW t, tx' = [tx EXCEPT ![b] = t],
           posts' = posts, activRefs' = activRefs, tx = [c \in Boards |-> tx[c]],
           \A n \in DOMAIN t.wrote : IsList(t.wrote[n]),
           \A x \in t.page : x.post.found \in Messages,
           t.at = "update" => IsList(t.fresh)
    PROVE  RefsLists'
<1>1. tx'[b] = t /\ \A c \in Boards \ {b} : tx'[c] = tx[c]
  OBVIOUS
<1>2. \A n \in DOMAIN posts : IsList(activRefs[n])
  BY DEF RefsLists
<1>3. ASSUME NEW c \in Boards
      PROVE  /\ \A n \in DOMAIN tx'[c].wrote : IsList(tx'[c].wrote[n])
             /\ \A x \in tx'[c].page : x.post.found \in Messages
             /\ tx'[c].at = "update" => IsList(tx'[c].fresh)
  <2>1. CASE c = b
    BY <1>1, <2>1
  <2>2. CASE c # b
    BY <1>1, <2>2 DEF RefsLists
  <2>3. QED
    BY <2>1, <2>2
<1>4. \A s : IsList(s)' <=> IsList(s)
  BY DEF IsList
<1>5. \A n \in DOMAIN posts : IsList(activRefs[n])'
  BY <1>2 DEF IsList
<1>6. QED
  BY <1>3, <1>5 DEF RefsLists, IsList

\* A page of posts that refer to n is of posts that the transaction sees.
LEMMA PageIn ==
    ASSUME RefsAssumption, PostsOK, NEW b \in Boards, NewOK(b), NEW n, NEW off,
           NEW behind, behind = Referring(b, n, off),
           NEW page, page = SubSeq(behind, 1, IF Len(behind) < PageLen THEN Len(behind) ELSE PageLen)
    PROVE  Range(page) \subseteq DOMAIN View(b)
<1>1. PICK V : V = View(b)
  OBVIOUS
<1> DEFINE board == IF n \in tx[b].gone THEN posts[n].board ELSE V[n].board
           S == {m \in DOMAIN V : V[m].num > off /\ \E r \in Xrefs(V[m]) : MayBe(r, n, board)}
           key == [m \in S |-> V[m].num]
<1>2. behind = Sorted(S, key)
  BY <1>1 DEF Referring
<1> HIDE DEF board
<1>3. S \in SUBSET DOMAIN V /\ \A m \in S : key[m] = V[m].num
  OBVIOUS
<1> HIDE DEF S, key
<1>4. IsFiniteSet(DOMAIN V)
  <2>1. IsFiniteSet(DOMAIN tx[b].new)
    <3>1. \A m, l \in DOMAIN tx[b].new : m = l
      BY NewParts
    <3>2. CASE DOMAIN tx[b].new = {}
      BY <3>2, FS_EmptySet
    <3>3. CASE DOMAIN tx[b].new # {}
      <4>1. PICK m : DOMAIN tx[b].new = {m}
        BY <3>1, <3>3
      <4>2. QED
        BY <4>1, FS_Singleton
    <3>4. QED
      BY <3>2, <3>3
  <2>2. IsFiniteSet(DOMAIN posts) /\ DOMAIN posts \ tx[b].gone \in SUBSET DOMAIN posts
    BY DEF PostsOK
  <2>3. IsFiniteSet(DOMAIN posts \ tx[b].gone)
    BY <2>2, FS_Subset
  <2>4. DOMAIN V = DOMAIN tx[b].new \cup (DOMAIN posts \ tx[b].gone)
    BY <1>1, ViewIs
  <2>5. QED
    BY <2>1, <2>3, <2>4, FS_Union
<1>5. SortedBy(behind, S, key)
  <2>1. ViewOK(V)
    BY <1>1, TxView
  <2>2. IsFiniteSet(S)
    BY <1>3, <1>4, FS_Subset
  <2>3. \A m \in S : key[m] \in Int
    BY <1>3, <2>1 DEF ViewOK
  <2>4. \A m, l \in S : key[m] = key[l] => m = l
    BY <1>3, <2>1 DEF ViewOK
  <2>5. QED
    BY <1>2, <2>2, <2>3, <2>4, SortedIs
<1>6. PICK c \in Nat : behind \in [1 .. c -> S]
  BY <1>5 DEF SortedBy
<1>7. Len(behind) = c /\ PageLen \in Nat
  BY <1>6 DEF RefsAssumption
<1>8. PICK k \in 0 .. c : page = SubSeq(behind, 1, k)
  <2>1. (IF c < PageLen THEN c ELSE PageLen) \in 0 .. c
    BY <1>7
  <2>2. QED
    BY <1>7, <2>1
<1>9. \A i \in DOMAIN page : page[i] \in S
  <2>1. behind \in Seq(S)
    BY <1>6
  <2>2. page \in Seq(S)
    BY <1>7, <1>8, <2>1
  <2>3. QED
    BY <2>2
<1>10. QED
  BY <1>1, <1>3, <1>9 DEF Range

\* Every step leaves it so.
LEMMA RefsListsStep == RefsAssumption /\ RefsInv /\ RefsLists /\ [RefsNext]_refsVars => RefsLists'
<1> SUFFICES ASSUME RefsAssumption, RefsInv, RefsLists, [RefsNext]_refsVars PROVE RefsLists'
  OBVIOUS
<1>1. PostsOK /\ tx = [c \in Boards |-> tx[c]] /\ \A b \in Boards : TxOK(b) /\ NewOK(b)
  BY DEF RefsInv, TxOK
<1>2. ASSUME NEW b \in Boards
      PROVE  /\ \A n \in DOMAIN tx[b].wrote : IsList(tx[b].wrote[n])
             /\ \A x \in tx[b].page : x.post.found \in Messages
             /\ tx[b].at = "update" => IsList(tx[b].fresh)
  BY DEF RefsLists
<1>3. ASSUME NEW b \in Boards
      PROVE  ViewOK(View(b)) /\ \A n \in DOMAIN View(b) : View(b)[n].found \in Messages
  BY <1>1, TxView DEF PostRow
<1>4. DOMAIN NoTx.wrote = {} /\ NoTx.page = {} /\ NoTx.at = "none"
  BY DEF NoTx
<1>5. ASSUME NEW b \in Boards, RefsStep(b) PROVE RefsLists'
  <2> DEFINE same(t) == t.wrote = tx[b].wrote
  <2>1. ASSUME NEW n, NEW th, InsertBPost(b, n, th) PROVE RefsLists'
    <3>1. PICK found \in Messages :
              tx' = [tx EXCEPT ![b] = [NoTx EXCEPT
                  !.at = "declare",
                  !.new = Only(n, [board |-> b, thread |-> th, num |-> begun + 1, found |-> found,
                                   irt |-> InReplyTo(posts, found, b, th)])]]
      BY <2>1 DEF InsertBPost, BeginTx
    <3>2. PICK t : t = [NoTx EXCEPT
                  !.at = "declare",
                  !.new = Only(n, [board |-> b, thread |-> th, num |-> begun + 1, found |-> found,
                                   irt |-> InReplyTo(posts, found, b, th)])]
      OBVIOUS
    <3>3. DOMAIN t.wrote = {} /\ t.page = {} /\ t.at # "update"
      BY <3>2 DEF NoTx
    <3>4. posts' = posts /\ activRefs' = activRefs
      BY <2>1 DEF InsertBPost
    <3>5. tx' = [tx EXCEPT ![b] = t]
      BY <3>1, <3>2
    <3>6. QED
      BY <1>1, <3>3, <3>4, <3>5, OwnLists
  <2>2. CASE DeleteByMsgID(b)
    <3>1. PICK nuked :
              tx' = [tx EXCEPT ![b] = [NoTx EXCEPT !.at = "find", !.gone = nuked,
                                      !.todo = Sorted(nuked, [m \in nuked |-> posts[m].num])]]
      BY <2>2 DEF DeleteByMsgID, BeginTx
    <3>2. PICK t : t = [NoTx EXCEPT !.at = "find", !.gone = nuked,
                                      !.todo = Sorted(nuked, [m \in nuked |-> posts[m].num])]
      OBVIOUS
    <3>3. DOMAIN t.wrote = {} /\ t.page = {} /\ t.at # "update"
      BY <3>2 DEF NoTx
    <3>4. posts' = posts /\ activRefs' = activRefs
      BY <2>2 DEF DeleteByMsgID
    <3>5. tx' = [tx EXCEPT ![b] = t]
      BY <3>1, <3>2
    <3>6. QED
      BY <1>1, <3>3, <3>4, <3>5, OwnLists
  <2>3. ASSUME NEW t, Go(b, t),
               \A n \in DOMAIN t.wrote : IsList(t.wrote[n]),
               \A x \in t.page : x.post.found \in Messages,
               t.at = "update" => IsList(t.fresh)
        PROVE  RefsLists'
    BY <1>1, <2>3, OwnLists DEF Go
  <2>4. CASE Declare(b)
    <3>1. PICK n : n = CHOOSE m \in DOMAIN tx[b].new : TRUE
      OBVIOUS
    <3>2. PICK V : V = View(b)
      OBVIOUS
    <3>3. PICK t : t = [tx[b] EXCEPT !.at = "find", !.todo = <<n>>,
                                     !.wrote = Only(n, Incoming(V, V[n]))]
      OBVIOUS
    <3>4. Go(b, t) /\ tx[b].at = "declare"
      BY <2>4, <3>1, <3>2, <3>3 DEF Declare
    <3>5. n \in DOMAIN V
      <4>1. DOMAIN tx[b].new # {}
        BY <1>1, <3>4 DEF TxOK, PageOK
      <4>2. n \in DOMAIN tx[b].new
        BY <3>1, <4>1
      <4>3. QED
        BY <3>2, <4>2, ViewIs
    <3>6. IsList(Incoming(V, V[n]))
      BY <1>3, <3>2, <3>5, IncomingList
    <3>7. IsTx(tx[b])
      BY <1>1 DEF TxOK
    <3>8. t.wrote = Only(n, Incoming(V, V[n])) /\ t.page = tx[b].page /\ t.at = "find"
      BY <3>3, <3>7 DEF IsTx
    <3>9. \A m \in DOMAIN t.wrote : IsList(t.wrote[m])
      BY <3>6, <3>8 DEF Only
    <3>10. QED
      BY <1>2, <2>3, <3>4, <3>8, <3>9
  <2>5. CASE FindReferences(b)
    <3>1. PICK page :
              Go(b, [tx[b] EXCEPT !.at = "fix", !.full = Len(page) = PageLen,
                       !.page = {[name |-> m, post |-> View(b)[m], was |-> RefsOf(b)[m],
                                  left |-> TRUE] : m \in Range(page)}])
              /\ Range(page) \subseteq DOMAIN View(b)
      <4>1. PICK behind : behind = Referring(b, Head(tx[b].todo), tx[b].off)
        OBVIOUS
      <4>2. PICK page : page = SubSeq(behind, 1, IF Len(behind) < PageLen THEN Len(behind) ELSE PageLen)
        OBVIOUS
      <4>3. Range(page) \subseteq DOMAIN View(b)
        BY <1>1, <4>1, <4>2, PageIn
      <4>4. QED
        BY <2>5, <4>1, <4>2, <4>3 DEF FindReferences
    <3>2. PICK V : V = View(b)
      OBVIOUS
    <3>3. PICK t : t = [tx[b] EXCEPT !.at = "fix", !.full = Len(page) = PageLen,
                       !.page = {[name |-> m, post |-> V[m], was |-> RefsOf(b)[m],
                                  left |-> TRUE] : m \in Range(page)}]
      OBVIOUS
    <3>4. Go(b, t)
      BY <3>1, <3>2, <3>3
    <3>5. IsTx(tx[b])
      BY <1>1 DEF TxOK
    <3>6. /\ t.wrote = tx[b].wrote /\ t.at = "fix"
          /\ t.page = {[name |-> m, post |-> V[m], was |-> RefsOf(b)[m],
                                  left |-> TRUE] : m \in Range(page)}
      BY <3>3, <3>5 DEF IsTx
    <3>7. ASSUME NEW x \in t.page PROVE x.post.found \in Messages
      <4>1. PICK m \in Range(page) : x.post = V[m]
        BY <3>6, <3>7
      <4>2. QED
        BY <1>3, <3>1, <3>2, <4>1
    <3>8. QED
      BY <1>2, <2>3, <3>4, <3>6, <3>7
  <2>6. CASE Recompute(b)
    <3>1. PICK x \in tx[b].page :
              LET fresh == Incoming(View(b), x.post)
                  done == (tx[b].page \ {x}) \cup {[x EXCEPT !.left = FALSE]}
              IN  Go(b, IF fresh = x.was THEN [tx[b] EXCEPT !.page = done]
                        ELSE [tx[b] EXCEPT !.at = "update", !.page = done,
                                           !.now = x, !.fresh = fresh])
      BY <2>6 DEF Recompute
    <3>2. PICK fresh : fresh = Incoming(View(b), x.post)
      OBVIOUS
    <3>3. PICK done : done = (tx[b].page \ {x}) \cup {[x EXCEPT !.left = FALSE]}
      OBVIOUS
    <3>4. PICK t : t = IF fresh = x.was THEN [tx[b] EXCEPT !.page = done]
                       ELSE [tx[b] EXCEPT !.at = "update", !.page = done, !.now = x, !.fresh = fresh]
      OBVIOUS
    <3>5. Go(b, t) /\ tx[b].at = "fix"
      BY <2>6, <3>1, <3>2, <3>3, <3>4 DEF Recompute
    <3>6. IsTx(tx[b])
      BY <1>1 DEF TxOK
    <3>7. /\ t.wrote = tx[b].wrote /\ t.page = done
          /\ t.at = "update" => t.fresh = fresh
      BY <3>4, <3>5, <3>6 DEF IsTx
    <3>8. IsList(fresh)
      BY <1>2, <1>3, <3>2, IncomingList
    <3>9. ASSUME NEW y \in done PROVE y.post.found \in Messages
      <4>1. x = [name |-> x.name, post |-> x.post, was |-> x.was, left |-> x.left]
        BY <1>1 DEF TxOK, PageOK
      <4>2. [x EXCEPT !.left = FALSE].post = x.post
        BY <4>1
      <4>3. QED
        BY <1>2, <3>3, <3>9, <4>2
    <3>10. QED
      BY <1>2, <2>3, <3>5, <3>7, <3>8, <3>9
  <2>7. CASE UpdatePostReferences(b)
    <3>1. PICK n : n = tx[b].now.name
      OBVIOUS
    <3>2. PICK there : there = (n \in DOMAIN View(b) /\ View(b)[n].num = tx[b].now.post.num)
      OBVIOUS
    <3>3. PICK t : t = [tx[b] EXCEPT !.at = "fix", !.now = NoPost, !.fresh = <<>>,
                            !.wrote = IF there THEN WrittenOn(Only(n, tx[b].fresh), @) ELSE @]
      OBVIOUS
    <3>4. Go(b, t) /\ tx[b].at = "update"
      BY <2>7, <3>1, <3>2, <3>3 DEF UpdatePostReferences
    <3>5. IsTx(tx[b])
      BY <1>1 DEF TxOK
    <3>6. /\ t.at = "fix" /\ t.page = tx[b].page
          /\ t.wrote = IF there THEN WrittenOn(Only(n, tx[b].fresh), tx[b].wrote) ELSE tx[b].wrote
      BY <3>3, <3>5 DEF IsTx
    <3>7. \A m \in DOMAIN t.wrote : IsList(t.wrote[m])
      BY <1>2, <3>4, <3>6 DEF WrittenOn, Only
    <3>8. QED
      BY <1>2, <2>3, <3>4, <3>6, <3>7
  <2>8. CASE NextPage(b)
    <3>1. PICK off, rest : Go(b, [tx[b] EXCEPT !.at = "find", !.page = {}, !.off = off, !.todo = rest])
      <4>1. CASE tx[b].full
        <5>1. PICK x \in tx[b].page : Go(b, [tx[b] EXCEPT !.at = "find", !.page = {}, !.off = x.post.num])
          BY <2>8, <4>1 DEF NextPage
        <5>2. IsTx(tx[b])
          BY <1>1 DEF TxOK
        <5>3. [tx[b] EXCEPT !.at = "find", !.page = {}, !.off = x.post.num]
                = [tx[b] EXCEPT !.at = "find", !.page = {}, !.off = x.post.num, !.todo = tx[b].todo]
          BY <5>2 DEF IsTx
        <5>4. QED
          BY <5>1, <5>3
      <4>2. CASE ~tx[b].full
        BY <2>8, <4>2 DEF NextPage
      <4>3. QED
        BY <4>1, <4>2
    <3>2. PICK t : t = [tx[b] EXCEPT !.at = "find", !.page = {}, !.off = off, !.todo = rest]
      OBVIOUS
    <3>3. IsTx(tx[b])
      BY <1>1 DEF TxOK
    <3>4. t.wrote = tx[b].wrote /\ t.page = {} /\ t.at = "find"
      BY <3>2, <3>3 DEF IsTx
    <3>5. QED
      BY <1>2, <2>3, <3>1, <3>2, <3>4
  <2>9. CASE CommitRefs(b)
    <3>1. PICK V : V = View(b)
      OBVIOUS
    <3>2. PICK R : R = RefsOf(b)
      OBVIOUS
    <3>3. posts' = V /\ activRefs' = [n \in DOMAIN V |-> R[n]] /\ tx' = [tx EXCEPT ![b] = NoTx]
      BY <2>9, <3>1, <3>2 DEF CommitRefs
    <3>4. ASSUME NEW n \in DOMAIN V PROVE IsList(R[n])
      <4>1. WroteOK(b) /\ tx[b].at # "declare"
        BY <1>1, <2>9 DEF TxOK, CommitRefs
      <4>2. CASE n \in DOMAIN tx[b].wrote
        BY <1>2, <3>2, <4>2, ViewIs
      <4>3. CASE n \notin DOMAIN tx[b].wrote
        <5>1. n \in DOMAIN posts
          BY <3>1, <4>1, <4>3, ViewIs DEF WroteOK
        <5>2. R[n] = activRefs[n]
          BY <1>1, <3>2, <4>3, <5>1, PostsView, ViewIs
        <5>3. QED
          BY <5>1, <5>2 DEF RefsLists
      <4>4. QED
        BY <4>2, <4>3
    <3>5. ASSUME NEW n \in DOMAIN posts' PROVE IsList(activRefs'[n])
      BY <3>3, <3>4
    <3>6. ASSUME NEW c \in Boards
          PROVE  /\ \A n \in DOMAIN tx'[c].wrote : IsList(tx'[c].wrote[n])
                 /\ \A x \in tx'[c].page : x.post.found \in Messages
                 /\ tx'[c].at = "update" => IsList(tx'[c].fresh)
      <4>1. CASE c = b
        <5>1. tx'[c] = NoTx
          BY <1>1, <3>3, <4>1
        <5>2. QED
          BY <1>4, <5>1
      <4>2. CASE c # b
        <5>1. tx'[c] = tx[c]
          BY <1>1, <3>3, <4>2
        <5>2. QED
          BY <1>2, <5>1
      <4>3. QED
        BY <4>1, <4>2
    <3>7. QED
      BY <3>5, <3>6 DEF RefsLists, IsList
  <2>10. CASE RollbackRefs(b)
    <3>1. Go(b, NoTx)
      BY <2>10 DEF RollbackRefs
    <3>2. QED
      BY <1>4, <2>3, <3>1
  <2>11. CASE InsertNewThread(b) \/ InsertNewReply(b)
    BY <2>1, <2>11 DEF InsertNewThread, InsertNewReply
  <2>12. QED
    BY <1>5, <2>2, <2>4, <2>5, <2>6, <2>7, <2>8, <2>9, <2>10, <2>11 DEF RefsStep
<1>6. CASE UNCHANGED refsVars
  BY <1>6 DEF refsVars, RefsLists, IsList
<1>7. QED
  BY <1>5, <1>6 DEF RefsNext

\* An entry is true of the posts it was made from.
LEMMA EntryIsTrue ==
    ASSUME RefsAssumption, NEW n \in DOMAIN posts, posts[n].found \in Messages, NEW e,
           EntryOf(posts, posts[n], e)
    PROVE  EntryTrue(n, e)
<1>1. PICK p : p = posts[n]
  OBVIOUS
<1>2. PICK r \in Xrefs(p) :
          \/ OnlyBoard(r) /\ e = BoardEntry(r)
          \/ \E m \in Meant(posts, r) : e = Entry(posts, r, m, p.board, p.thread)
  BY <1>1 DEF EntryOf
<1>3. r \in p.found
  <2>1. Parsed(p.found) \in Seq(p.found)
    BY <1>1, ParsedIs
  <2>2. QED
    BY <1>2, <2>1 DEF Xrefs, Range
<1>4. CASE OnlyBoard(r) /\ e = BoardEntry(r)
  <2>1. e.start = r.start /\ e.end = r.end /\ e.board = r.board /\ e.post = NoPost
    BY <1>4 DEF BoardEntry
  <2>2. QED
    BY <1>1, <1>3, <1>4, <2>1 DEF EntryTrue
<1>5. ASSUME NEW m \in Meant(posts, r), e = Entry(posts, r, m, p.board, p.thread)
      PROVE  EntryTrue(n, e)
  <2> DEFINE own == r.board = NoBoard /\ r.msgid = NoPost /\ posts[m].board = p.board
  <2>1. m \in DOMAIN posts /\ MayBe(r, m, posts[m].board)
    BY <1>5 DEF Meant
  <2>2. /\ e.start = r.start /\ e.end = r.end /\ e.post = m
        /\ e.board = IF own THEN NoBoard ELSE posts[m].board
        /\ e.thread = IF own /\ posts[m].thread = p.thread THEN NoPost ELSE posts[m].thread
    BY <1>5 DEF Entry
  <2>3. e.board \in {posts[m].board} \cup (IF posts[m].board = p.board THEN {NoBoard} ELSE {})
    BY <2>2
  <2>4. e.thread \in {posts[m].thread} \cup (IF posts[m].thread = p.thread THEN {NoPost} ELSE {})
    BY <2>2
  <2>5. QED
    BY <1>1, <1>3, <2>1, <2>2, <2>3, <2>4 DEF EntryTrue
<1>6. QED
  BY <1>2, <1>4, <1>5

\* The posts whose references stay on their board, as RefsTrue names them.
LEMMA LocalIs ==
    ASSUME NEW n \in DOMAIN posts, Local(n)
    PROVE  LocalPost(posts[n])
<1>1. PICK p : p = posts[n]
  OBVIOUS
<1>2. ASSUME NEW x \in seen, May(p, x[2], x[1]) PROVE x[1] = p.board
  <2>1. PICK i \in DOMAIN Parsed(p.found) : MayBe(Parsed(p.found)[i], x[2], x[1])
    BY <1>2 DEF May, Xrefs, Range
  <2>2. QED
    BY <1>1, <2>1 DEF Local
<1>3. QED
  BY <1>1, <1>2 DEF LocalPost

\* The invariant is enough.
LEMMA RefsAreTrue == RefsAssumption /\ RefsInv /\ RefsLists => RefsTrue
<1> SUFFICES ASSUME RefsAssumption, RefsInv, RefsLists,
                    NEW n \in DOMAIN posts, ~crossed \/ Local(n)
             PROVE  /\ activRefs[n] = Incoming(posts, posts[n])
                    /\ \A i \in DOMAIN activRefs[n] : EntryTrue(n, activRefs[n][i])
                    /\ Local(n) => \A m \in DOMAIN posts :
                           /\ \A i, j \in DOMAIN BackReferences(m) :
                                  BackReferences(m)[i] = BackReferences(m)[j] => i = j
                           /\ n \in Range(BackReferences(m))
                                  <=> /\ n # m /\ posts[n].board = posts[m].board
                                      /\ posts[n].thread = posts[m].thread
                                      /\ \E i \in DOMAIN activRefs[n] : activRefs[n][i].post = m
  BY DEF RefsTrue
<1>1. PostsOK /\ CommittedOK
  BY DEF RefsInv
<1>2. ViewOK(posts) /\ posts[n].found \in Messages
  BY <1>1, PostsView DEF PostRow
<1>3. Kept(posts[n])
  BY LocalIs DEF Kept
<1>4. activRefs[n] = Incoming(posts, posts[n])
  BY <1>1, <1>3 DEF CommittedOK
<1>5. ASSUME NEW i \in DOMAIN activRefs[n] PROVE EntryTrue(n, activRefs[n][i])
  <2>1. PICK p : p = posts[n]
    OBVIOUS
  <2>2. EntryOf(posts, p, activRefs[n][i])
    BY <1>2, <1>4, <1>5, <2>1, IncomingIs
  <2>3. PICK e : e = activRefs[n][i]
    OBVIOUS
  <2>4. QED
    BY <1>2, <2>1, <2>2, <2>3, EntryIsTrue
<1>6. ASSUME NEW m \in DOMAIN posts
      PROVE  /\ \A i, j \in DOMAIN BackReferences(m) :
                    BackReferences(m)[i] = BackReferences(m)[j] => i = j
             /\ n \in Range(BackReferences(m))
                    <=> /\ n # m /\ posts[n].board = posts[m].board
                        /\ posts[n].thread = posts[m].thread
                        /\ \E i \in DOMAIN activRefs[n] : activRefs[n][i].post = m
  <2>1. PICK b, t : b = posts[m].board /\ t = posts[m].thread
    OBVIOUS
  <2>2. /\ \A i, j \in DOMAIN BackReferences(m) :
                  BackReferences(m)[i] = BackReferences(m)[j] => i = j
        /\ \A x : x \in Range(BackReferences(m)) <=>
                  /\ x \in DOMAIN posts /\ posts[x].board = b /\ posts[x].thread = t
                  /\ Leads(x, m, b, t)
    BY <1>1, <2>1, BackIs DEF RefsLists
  <2>3. ASSUME NEW i \in DOMAIN activRefs[n]
        PROVE  LeadsTo(activRefs[n][i], m, b, t) <=> activRefs[n][i].post = m
    <3>1. PICK e : e = activRefs[n][i]
      OBVIOUS
    <3>2. EntryTrue(n, e) /\ m # NoPost
      BY <1>2, <1>5, <3>1 DEF ViewOK
    <3>3. ASSUME e.post = m PROVE e.board \in {NoBoard, b} /\ e.thread \in {NoPost, t}
      BY <2>1, <3>2, <3>3 DEF EntryTrue
    <3>4. QED
      BY <3>1, <3>3 DEF LeadsTo
  <2>4. Leads(n, m, b, t) <=> n # m /\ \E i \in DOMAIN activRefs[n] : activRefs[n][i].post = m
    BY <2>3 DEF Leads
  <2>5. QED
    BY <2>1, <2>2, <2>4
<1>7. QED
  BY <1>4, <1>5, <1>6

\* What a post refers to is what it would if it came in now (activ_refs), its
\* entries are true, and the back references of a thread are the references in
\* it: for any boards, posts, messages and lengths of a page, whenever no
\* transaction runs.
THEOREM RefsCorrect == RefsInit /\ [][RefsNext]_refsVars => []RefsTrue
<1>1. RefsInit => RefsInv /\ RefsLists
  BY RefsAssumption, RefsBegin, RefsListsBegin
<1>2. RefsInv /\ RefsLists /\ [RefsNext]_refsVars => (RefsInv /\ RefsLists)'
  BY RefsAssumption, RefsInvStep, RefsListsStep
<1>3. RefsInv /\ RefsLists => RefsTrue
  BY RefsAssumption, RefsAreTrue
<1>4. QED
  BY <1>1, <1>2, <1>3, PTL
-----------------------------------------------------------------------------
(* Forms. *)

\* The same as StepIn and Run for the numbers up to L.
StepTo(L, V, op) == \A i \in 0 .. L - 1, v \in V : op[<<i, v>>] \in V
RunTo(L, V, v0, op, g) ==
    g \in [0 .. L -> V] /\ g[0] = v0 /\ \A i \in 0 .. L - 1 : g[i + 1] = op[<<i, g[i]>>]

\* Over the numbers up to L, too, a function may be given by its steps.
LEMMA RecursionTo ==
    ASSUME NEW V, NEW v0 \in V, NEW op, NEW L \in Nat, StepTo(L, V, op)
    PROVE  \E g : RunTo(L, V, v0, op, g)
<1> USE DEF StepTo, RunTo
<1> DEFINE on == [x \in Nat \X V |-> IF x[1] < L THEN op[<<x[1], x[2]>>] ELSE x[2]]
<1>1. \A i \in Nat, v \in V : on[<<i, v>>] = IF i < L THEN op[<<i, v>>] ELSE v
  OBVIOUS
<1> HIDE DEF on
<1>2. StepIn(V, on)
  <2>1. ASSUME NEW i \in Nat, NEW v \in V PROVE on[<<i, v>>] \in V
    <3>1. i < L => i \in 0 .. L - 1
      OBVIOUS
    <3>2. QED
      BY <1>1, <3>1
  <2>2. QED
    BY <2>1 DEF StepIn
<1>3. PICK h : Run(V, v0, on, h)
  BY <1>2, Recursion
<1>4. h \in [Nat -> V] /\ h[0] = v0 /\ \A i \in Nat : h[i + 1] = on[<<i, h[i]>>]
  BY <1>3 DEF Run
<1> DEFINE g == [n \in 0 .. L |-> h[n]]
<1>5. g \in [0 .. L -> V] /\ g[0] = v0
  BY <1>4
<1>6. ASSUME NEW i \in 0 .. L - 1 PROVE g[i + 1] = op[<<i, g[i]>>]
  <2>1. i \in Nat /\ i < L /\ i \in 0 .. L /\ i + 1 \in 0 .. L
    OBVIOUS
  <2>2. g[i + 1] = h[i + 1] /\ g[i] = h[i]
    BY <2>1
  <2>3. h[i + 1] = on[<<i, h[i]>>] /\ h[i] \in V
    BY <1>4, <2>1
  <2>4. on[<<i, h[i]>>] = op[<<i, h[i]>>]
    BY <1>1, <2>1, <2>3
  <2> HIDE DEF g
  <2>5. QED
    BY <2>2, <2>3, <2>4
<1>7. QED
  <2> HIDE DEF g
  <2> QED
    BY <1>5, <1>6

FormParts == [kind : {"field", "file", "other", "badhead"}, size : Nat, cut : BOOLEAN]
TakenParts == [part : Nat, size : Nat]

\* What Among is: nothing before the first part, and each part of the kind
\* goes to its end.
LEMMA AmongIs ==
    ASSUME NEW f \in Seq(FormParts), NEW kind
    PROVE  /\ Among(f, kind) \in [0 .. Len(f) -> Seq(TakenParts)]
           /\ Among(f, kind)[0] = <<>>
           /\ \A i \in 0 .. Len(f) - 1 :
                 Among(f, kind)[i + 1] =
                     IF f[i + 1].kind = kind
                     THEN Append(Among(f, kind)[i], [part |-> i + 1, size |-> f[i + 1].size])
                     ELSE Among(f, kind)[i]
<1> DEFINE L == Len(f)
           next(n, s) == IF f[n].kind = kind
                         THEN Append(s, [part |-> n, size |-> f[n].size]) ELSE s
           op == [x \in Nat \X Seq(TakenParts) |-> next(x[1] + 1, x[2])]
           first[n \in 0 .. Len(f)] ==
               IF n = 0 THEN <<>>
               ELSE IF f[n].kind = kind
               THEN Append(first[n - 1], [part |-> n, size |-> f[n].size])
               ELSE first[n - 1]
           F(g) == [n \in 0 .. L |-> IF n = 0 THEN <<>> ELSE next(n, g[n - 1])]
<1>1. L \in Nat
  OBVIOUS
<1>2. ASSUME NEW n \in 1 .. L, NEW s \in Seq(TakenParts) PROVE next(n, s) \in Seq(TakenParts)
  <2>1. [part |-> n, size |-> f[n].size] \in TakenParts
    <3>1. f[n] \in FormParts
      OBVIOUS
    <3>2. QED
      BY <3>1 DEF FormParts, TakenParts
  <2> HIDE DEF TakenParts
  <2>2. QED
    BY <2>1
<1>3. \A i \in Nat, s \in Seq(TakenParts) : op[<<i, s>>] = next(i + 1, s)
  OBVIOUS
<1> HIDE DEF next, op
<1>4. \A i \in 0 .. L - 1, s \in Seq(TakenParts) : op[<<i, s>>] \in Seq(TakenParts)
  <2>1. TAKE i \in 0 .. L - 1, s \in Seq(TakenParts)
  <2>2. i \in Nat /\ i + 1 \in 1 .. L
    BY <1>1
  <2> HIDE DEF L
  <2>3. QED
    BY <1>2, <1>3, <2>2
<1>5. PICK g \in [0 .. L -> Seq(TakenParts)] :
          g[0] = <<>> /\ \A i \in 0 .. L - 1 : g[i + 1] = op[<<i, g[i]>>]
  <2> DEFINE V == Seq(TakenParts)
             e == <<>>
  <2>1. e \in V
    OBVIOUS
  <2>2. StepTo(L, V, op)
    BY <1>4 DEF StepTo
  <2> HIDE DEF L, V, e
  <2>3. \E g : RunTo(L, V, e, op, g)
    BY <1>1, <2>1, <2>2, RecursionTo
  <2>4. QED
    BY <2>3 DEF V, e, RunTo
<1>6. \A i \in 0 .. L - 1 : g[i + 1] = next(i + 1, g[i])
  <2>1. TAKE i \in 0 .. L - 1
  <2>2. i \in Nat /\ i \in 0 .. L
    BY <1>1
  <2> HIDE DEF L
  <2>3. g[i] \in Seq(TakenParts)
    BY <1>5, <2>2
  <2>4. QED
    BY <1>3, <1>5, <2>2, <2>3
<1>7. ASSUME NEW k, k = F(k)
      PROVE  k[0] = <<>> /\ \A i \in 0 .. L - 1 : k[i + 1] = next(i + 1, k[i])
  <2>1. \A n \in 0 .. L : k[n] = IF n = 0 THEN <<>> ELSE next(n, k[n - 1])
    BY <1>7
  <2>2. 0 \in 0 .. L /\ \A i \in 0 .. L - 1 : i + 1 \in 0 .. L /\ i + 1 # 0 /\ (i + 1) - 1 = i
    BY <1>1
  <2> HIDE DEF L, F
  <2>3. QED
    BY <2>1, <2>2
<1>8. g = F(g)
  <2>1. ASSUME NEW n \in 0 .. L PROVE g[n] = IF n = 0 THEN <<>> ELSE next(n, g[n - 1])
    <3>1. CASE n = 0
      BY <1>5, <3>1
    <3>2. CASE n # 0
      <4>1. n - 1 \in 0 .. L - 1 /\ (n - 1) + 1 = n
        BY <1>1, <3>2
      <4> HIDE DEF L
      <4>2. QED
        BY <1>6, <3>2, <4>1
    <3>3. QED
      BY <3>1, <3>2
  <2>2. g = [n \in 0 .. L |-> g[n]]
    BY <1>5
  <2> HIDE DEF L
  <2>3. QED
    BY <2>1, <2>2
<1>9. first = F(first)
  <2>1. first = CHOOSE k : k = F(k)
    BY DEF next
  <2> HIDE DEF F, first
  <2>2. QED
    BY <1>8, <2>1
<1>10. ASSUME NEW k, k = F(k) PROVE k \in [0 .. L -> Seq(TakenParts)]
  <2>1. k = [n \in 0 .. L |-> k[n]]
    BY <1>10
  <2> DEFINE S == {n \in Nat : n \in 0 .. L => k[n] \in Seq(TakenParts)}
  <2>2. k[0] = <<>> /\ \A i \in 0 .. L - 1 : k[i + 1] = next(i + 1, k[i])
    BY <1>7, <1>10
  <2> HIDE DEF F
  <2>3. 0 \in S
    <3>1. <<>> \in Seq(TakenParts)
      OBVIOUS
    <3>2. QED
      BY <2>2, <3>1
  <2>4. ASSUME NEW n \in Nat, n \in S PROVE n + 1 \in S
    <3>1. SUFFICES ASSUME n + 1 \in 0 .. L PROVE k[n + 1] \in Seq(TakenParts)
      OBVIOUS
    <3>2. n \in 0 .. L - 1 /\ n \in 0 .. L /\ n + 1 \in 1 .. L
      BY <1>1, <3>1
    <3> HIDE DEF L
    <3>3. k[n] \in Seq(TakenParts)
      BY <2>4, <3>2
    <3>4. QED
      BY <1>2, <2>2, <3>2, <3>3
  <2>5. Nat \subseteq S
    <3> HIDE DEF S
    <3> QED
      BY <2>3, <2>4, Induct
  <2>6. \A n \in 0 .. L : k[n] \in Seq(TakenParts)
    BY <2>5, <1>1
  <2> HIDE DEF L, S
  <2>7. QED
    BY <2>1, <2>6
<1>11. Among(f, kind) = first
  BY DEF Among
<1>12. QED
  <2>1. first \in [0 .. L -> Seq(TakenParts)]
    <3> HIDE DEF F, first, L
    <3> QED
      BY <1>9, <1>10
  <2>2. first[0] = <<>> /\ \A i \in 0 .. L - 1 : first[i + 1] = next(i + 1, first[i])
    <3> HIDE DEF F, first, L
    <3> QED
      BY <1>9, <1>7
  <2> HIDE DEF first
  <2>3. QED
    BY <1>11, <2>1, <2>2 DEF next

\* What Together is: 0 before the first part, and each part of the kind counts.
LEMMA TogetherIs ==
    ASSUME NEW f \in Seq(FormParts), NEW kind
    PROVE  /\ Together(f, kind) \in [0 .. Len(f) -> Nat]
           /\ Together(f, kind)[0] = 0
           /\ \A i \in 0 .. Len(f) - 1 :
                 Together(f, kind)[i + 1] =
                     Together(f, kind)[i] + (IF f[i + 1].kind = kind THEN f[i + 1].size ELSE 0)
<1> DEFINE L == Len(f)
           more(n) == IF f[n].kind = kind THEN f[n].size ELSE 0
           op == [x \in Nat \X Nat |-> x[2] + more(x[1] + 1)]
           first[n \in 0 .. Len(f)] ==
               IF n = 0 THEN 0
               ELSE first[n - 1] + (IF f[n].kind = kind THEN f[n].size ELSE 0)
           F(g) == [n \in 0 .. L |-> IF n = 0 THEN 0 ELSE g[n - 1] + more(n)]
<1>1. L \in Nat
  OBVIOUS
<1>2. \A n \in 1 .. L : more(n) \in Nat
  <2>1. TAKE n \in 1 .. L
  <2>2. f[n] \in FormParts
    OBVIOUS
  <2>3. QED
    BY <2>2 DEF FormParts
<1>3. \A i \in Nat, s \in Nat : op[<<i, s>>] = s + more(i + 1)
  OBVIOUS
<1> HIDE DEF more, op
<1>4. StepTo(L, Nat, op)
  <2>1. ASSUME NEW i \in 0 .. L - 1, NEW s \in Nat PROVE op[<<i, s>>] \in Nat
    <3>1. i \in Nat /\ i + 1 \in 1 .. L
      BY <1>1
    <3> HIDE DEF L
    <3>2. op[<<i, s>>] = s + more(i + 1) /\ more(i + 1) \in Nat
      BY <1>2, <1>3, <3>1
    <3>3. QED
      BY <3>2
  <2>2. QED
    BY <2>1 DEF StepTo
<1>5. PICK g : RunTo(L, Nat, 0, op, g)
  <2> HIDE DEF L
  <2> QED
    BY <1>1, <1>4, RecursionTo
<1>6. g \in [0 .. L -> Nat] /\ g[0] = 0 /\ \A i \in 0 .. L - 1 : g[i + 1] = g[i] + more(i + 1)
  <2>1. g \in [0 .. L -> Nat] /\ g[0] = 0 /\ \A i \in 0 .. L - 1 : g[i + 1] = op[<<i, g[i]>>]
    BY <1>5 DEF RunTo
  <2>2. ASSUME NEW i \in 0 .. L - 1 PROVE g[i + 1] = g[i] + more(i + 1)
    <3>1. i \in Nat /\ i \in 0 .. L
      BY <1>1
    <3> HIDE DEF L
    <3>2. g[i] \in Nat
      BY <2>1, <3>1
    <3>3. QED
      BY <1>3, <2>1, <3>1, <3>2
  <2>3. QED
    BY <2>1, <2>2
<1>7. ASSUME NEW k, k = F(k)
      PROVE  k[0] = 0 /\ \A i \in 0 .. L - 1 : k[i + 1] = k[i] + more(i + 1)
  <2>1. \A n \in 0 .. L : k[n] = IF n = 0 THEN 0 ELSE k[n - 1] + more(n)
    BY <1>7
  <2>2. 0 \in 0 .. L /\ \A i \in 0 .. L - 1 : i + 1 \in 0 .. L /\ i + 1 # 0 /\ (i + 1) - 1 = i
    BY <1>1
  <2> HIDE DEF L, F
  <2>3. QED
    BY <2>1, <2>2
<1>8. g = F(g)
  <2>1. ASSUME NEW n \in 0 .. L PROVE g[n] = IF n = 0 THEN 0 ELSE g[n - 1] + more(n)
    <3>1. CASE n = 0
      BY <1>6, <3>1
    <3>2. CASE n # 0
      <4>1. n - 1 \in 0 .. L - 1 /\ (n - 1) + 1 = n
        BY <1>1, <3>2
      <4> HIDE DEF L
      <4>2. QED
        BY <1>6, <3>2, <4>1
    <3>3. QED
      BY <3>1, <3>2
  <2>2. g = [n \in 0 .. L |-> g[n]]
    BY <1>6
  <2> HIDE DEF L
  <2>3. QED
    BY <2>1, <2>2
<1>9. first = F(first)
  <2>1. first = CHOOSE k : k = F(k)
    BY DEF more
  <2> HIDE DEF F, first
  <2>2. QED
    BY <1>8, <2>1
<1>10. ASSUME NEW k, k = F(k) PROVE k \in [0 .. L -> Nat]
  <2>1. k = [n \in 0 .. L |-> k[n]]
    BY <1>10
  <2> DEFINE S == {n \in Nat : n \in 0 .. L => k[n] \in Nat}
  <2>2. k[0] = 0 /\ \A i \in 0 .. L - 1 : k[i + 1] = k[i] + more(i + 1)
    BY <1>7, <1>10
  <2> HIDE DEF F
  <2>3. 0 \in S
    BY <2>2
  <2>4. ASSUME NEW n \in Nat, n \in S PROVE n + 1 \in S
    <3>1. SUFFICES ASSUME n + 1 \in 0 .. L PROVE k[n + 1] \in Nat
      OBVIOUS
    <3>2. n \in 0 .. L - 1 /\ n \in 0 .. L /\ n + 1 \in 1 .. L
      BY <1>1, <3>1
    <3> HIDE DEF L
    <3>3. k[n] \in Nat
      BY <2>4, <3>2
    <3>4. QED
      BY <1>2, <2>2, <3>2, <3>3
  <2>5. Nat \subseteq S
    <3> HIDE DEF S
    <3> QED
      BY <2>3, <2>4, Induct
  <2>6. \A n \in 0 .. L : k[n] \in Nat
    BY <2>5, <1>1
  <2> HIDE DEF L, S
  <2>7. QED
    BY <2>1, <2>6
<1>11. Together(f, kind) = first
  BY DEF Together
<1>12. QED
  <2>1. first \in [0 .. L -> Nat]
    <3> HIDE DEF F, first, L
    <3> QED
      BY <1>9, <1>10
  <2>2. first[0] = 0 /\ \A i \in 0 .. L - 1 : first[i + 1] = first[i] + more(i + 1)
    <3> HIDE DEF F, first, L
    <3> QED
      BY <1>9, <1>7
  <2> HIDE DEF first
  <2>3. QED
    BY <1>11, <2>1, <2>2 DEF more

\* What is true of the n-th part of a form and is handed on from part to part
\* is true of the whole form.
LEMMA Onward ==
    ASSUME NEW L \in Nat, NEW n \in 0 .. L, NEW P, n \in P, \A i \in n .. L - 1 : i \in P => i + 1 \in P
    PROVE  L \in P
<1> DEFINE S == {i \in Nat : n + i <= L => n + i \in P}
<1>1. 0 \in S
  OBVIOUS
<1>2. ASSUME NEW i \in Nat, i \in S PROVE i + 1 \in S
  <2>1. SUFFICES ASSUME n + (i + 1) <= L PROVE n + (i + 1) \in P
    OBVIOUS
  <2>2. n + i \in n .. L - 1 /\ n + i \in P /\ n + (i + 1) = (n + i) + 1
    BY <1>2, <2>1
  <2>3. QED
    BY <2>2
<1>3. Nat \subseteq S
  <2> HIDE DEF S
  <2> QED
    BY <1>1, <1>2, Induct
<1>4. L - n \in S /\ n + (L - n) = L
  BY <1>3
<1>5. QED
  BY <1>4

\* Parts that come later take nothing away.
LEMMA Growing ==
    ASSUME NEW f \in Seq(FormParts), NEW kind, NEW n \in 0 .. Len(f)
    PROVE  /\ Len(Among(f, kind)[n]) <= Len(Among(f, kind)[Len(f)])
           /\ Together(f, kind)[n] <= Together(f, kind)[Len(f)]
           /\ \A i \in DOMAIN Among(f, kind)[n] :
                 /\ i \in DOMAIN Among(f, kind)[Len(f)]
                 /\ Among(f, kind)[Len(f)][i] = Among(f, kind)[n][i]
<1> DEFINE A == Among(f, kind)
           T == Together(f, kind)
           L == Len(f)
           P == {m \in n .. L : /\ Len(A[n]) <= Len(A[m]) /\ T[n] <= T[m]
                                /\ \A i \in 1 .. Len(A[n]) : A[m][i] = A[n][i]}
<1>1. L \in Nat /\ n \in n .. L
  OBVIOUS
<1>2. \A m \in 0 .. L : A[m] \in Seq(TakenParts) /\ T[m] \in Nat
  BY AmongIs, TogetherIs
<1>3. n \in P
  BY <1>1, <1>2
<1>4. ASSUME NEW m \in n .. L - 1, m \in P PROVE m + 1 \in P
  <2>1. m \in 0 .. L - 1 /\ m + 1 \in n .. L /\ m \in 0 .. L /\ m + 1 \in 0 .. L
    BY <1>1
  <2>2. A[m] \in Seq(TakenParts) /\ A[n] \in Seq(TakenParts) /\ T[m] \in Nat /\ T[n] \in Nat
    BY <1>2, <2>1
  <2>3. \/ A[m + 1] = A[m]
        \/ A[m + 1] = Append(A[m], [part |-> m + 1, size |-> f[m + 1].size])
    <3>1. A[m + 1] = IF f[m + 1].kind = kind
                     THEN Append(A[m], [part |-> m + 1, size |-> f[m + 1].size])
                     ELSE A[m]
      BY <2>1, AmongIs
    <3> HIDE DEF A
    <3>2. QED
      BY <3>1
  <2>4. T[m + 1] >= T[m]
    <3>1. T[m + 1] = T[m] + (IF f[m + 1].kind = kind THEN f[m + 1].size ELSE 0)
      BY <2>1, TogetherIs
    <3>2. f[m + 1].size \in Nat
      <4>1. f[m + 1] \in FormParts
        BY <2>1
      <4>2. QED
        BY <4>1 DEF FormParts
    <3> HIDE DEF T
    <3>3. QED
      BY <2>2, <3>1, <3>2
  <2>5. Len(A[n]) <= Len(A[m]) /\ T[n] <= T[m] /\ \A i \in 1 .. Len(A[n]) : A[m][i] = A[n][i]
    BY <1>4
  <2> HIDE DEF A, T, L, P
  <2>6. T[m + 1] \in Nat /\ T[n] <= T[m + 1]
    BY <1>2, <2>1, <2>2, <2>4, <2>5
  <2>7. Len(A[n]) <= Len(A[m + 1]) /\ \A i \in 1 .. Len(A[n]) : A[m + 1][i] = A[n][i]
    <3>1. CASE A[m + 1] = A[m]
      BY <2>5, <3>1
    <3>2. CASE A[m + 1] = Append(A[m], [part |-> m + 1, size |-> f[m + 1].size])
      BY <2>2, <2>5, <3>2
    <3>3. QED
      BY <2>3, <3>1, <3>2
  <2>8. QED
    BY <2>1, <2>6, <2>7 DEF P
<1>5. L \in P
  <2> HIDE DEF P, L
  <2> QED
    BY <1>1, <1>3, <1>4, Onward
<1>6. QED
  <2>1. Len(A[n]) <= Len(A[L]) /\ T[n] <= T[L] /\ \A i \in 1 .. Len(A[n]) : A[L][i] = A[n][i]
    BY <1>5
  <2>2. DOMAIN A[n] = 1 .. Len(A[n]) /\ DOMAIN A[L] = 1 .. Len(A[L]) /\ Len(A[n]) \in Nat /\ Len(A[L]) \in Nat
    BY <1>1, <1>2
  <2>3. \A i \in DOMAIN A[n] : i \in DOMAIN A[L] /\ A[L][i] = A[n][i]
    <3> HIDE DEF A, T, L
    <3> QED
      BY <2>1, <2>2
  <2>4. QED
    BY <2>1, <2>3

\* No limit is MaxInt64, at which a limit and one more is negative; there is
\* one for each file or for all, and files that are not limited together are
\* less than MaxInt64.
Sensible(f, l) ==
    /\ f \in Seq(FormParts)
    /\ l.memory \in Nat /\ l.fields \in Nat
    /\ l.count \in Int /\ l.single \in Int /\ l.all \in Int
    /\ l.memory < MaxInt64 /\ l.single < MaxInt64 /\ l.all < MaxInt64
    /\ l.single > 0 \/ l.all > 0
    /\ l.all > 0 \/ Together(f, "file")[Len(f)] < MaxInt64

GoneThrough == nextPart - 1

\* What has been taken are the parts before the next one, and what is left of
\* the limits is what they have left.
TakenOK ==
    /\ values = Among(form, "field")[GoneThrough] /\ kept = Among(form, "file")[GoneThrough]
    /\ fieldsleft = params.fields - Len(values) /\ fieldsleft >= 0
    /\ memleft = params.memory - Together(form, "field")[GoneThrough] /\ memleft >= 0
    /\ filebytesleft = (IF params.all > 0 THEN params.all ELSE MaxInt64)
                           - Together(form, "file")[GoneThrough]
    /\ filebytesleft >= 0
    /\ params.count >= 0 => numfiles <= params.count
    /\ params.single > 0 => \A i \in DOMAIN kept : kept[i].size <= params.single

\* The file that is filled is there, and is not on the list yet.
FilesOK ==
    /\ tempFiles = {kept[i].part : i \in DOMAIN kept} \cup (IF fat = "fill" THEN {nextPart} ELSE {})
    /\ numfiles = Len(kept) + (IF fat = "fill" THEN 1 ELSE 0)
    /\ fat = "fill" => nextPart <= Len(form) /\ Part.kind = "file" /\ Allowed > 0

Reason ==
    \/ ~WithinLimits \/ formFaults > 0
    \/ \E i \in DOMAIN form : form[i].cut \/ form[i].kind = "badhead"
    \/ params.all > 0 /\ TotalSize("file") = params.all

FormInv ==
    /\ Sensible(form, params)
    /\ nextPart \in 1 .. Len(form) + 1 /\ formFaults \in Nat
    /\ fat \in {"parts", "fill", "parsed", "failed"}
    /\ fat # "failed" => TakenOK /\ FilesOK
    /\ fat = "parsed" => nextPart = Len(form) + 1
    /\ fat = "failed" => tempFiles = {} /\ Reason

\* The types of what a form is parsed with.
LEMMA FormTypes ==
    ASSUME FormInv
    PROVE  /\ form \in Seq(FormParts) /\ Len(form) \in Nat
           /\ nextPart \in Nat /\ GoneThrough \in 0 .. Len(form) /\ nextPart = GoneThrough + 1
           /\ params.memory \in Nat /\ params.fields \in Nat
           /\ params.count \in Int /\ params.single \in Int /\ params.all \in Int
           /\ MaxInt64 \in Nat
<1>1. form \in Seq(FormParts) /\ Len(form) \in Nat
  BY DEF FormInv, Sensible
<1>2. nextPart \in Nat /\ GoneThrough \in 0 .. Len(form) /\ nextPart = GoneThrough + 1
  BY <1>1 DEF FormInv, GoneThrough
<1>3. QED
  BY <1>1, <1>2, FormAssumption DEF FormInv, Sensible, FormAssumption

\* What is counted and what has been taken so far.
LEMMA TakenTypes ==
    ASSUME FormInv
    PROVE  /\ \A kind : /\ Among(form, kind)[GoneThrough] \in Seq(TakenParts)
                        /\ Len(Among(form, kind)[GoneThrough]) \in Nat
                        /\ Together(form, kind)[GoneThrough] \in Nat
           /\ fat # "failed" => /\ values \in Seq(TakenParts) /\ kept \in Seq(TakenParts)
                                /\ Len(values) \in Nat /\ Len(kept) \in Nat
                                /\ fieldsleft \in Nat /\ memleft \in Nat /\ filebytesleft \in Nat
                                /\ numfiles \in Nat
<1>1. \A kind : Among(form, kind)[GoneThrough] \in Seq(TakenParts) /\ Together(form, kind)[GoneThrough] \in Nat
  BY FormTypes, AmongIs, TogetherIs
<1>2. \A kind : Len(Among(form, kind)[GoneThrough]) \in Nat
  BY <1>1
<1>3. ASSUME fat # "failed"
      PROVE  /\ values \in Seq(TakenParts) /\ kept \in Seq(TakenParts)
             /\ Len(values) \in Nat /\ Len(kept) \in Nat
             /\ fieldsleft \in Nat /\ memleft \in Nat /\ filebytesleft \in Nat
             /\ numfiles \in Nat
  <2>1. TakenOK /\ FilesOK
    BY <1>3 DEF FormInv
  <2>2. /\ values \in Seq(TakenParts) /\ kept \in Seq(TakenParts)
        /\ Len(values) \in Nat /\ Len(kept) \in Nat
    BY <2>1, <1>1, <1>2 DEF TakenOK
  <2>3. fieldsleft \in Nat
    BY <2>1, <2>2, FormTypes DEF TakenOK
  <2>4. memleft \in Nat
    BY <2>1, <1>1, FormTypes DEF TakenOK
  <2>5. filebytesleft \in Nat
    BY <2>1, <1>1, FormTypes DEF TakenOK
  <2>6. numfiles \in Nat
    BY <2>1, <2>2 DEF FilesOK
  <2>7. QED
    BY <2>2, <2>3, <2>4, <2>5, <2>6
<1>4. QED
  BY <1>1, <1>2, <1>3

\* What the next part adds.
LEMMA NextTaken ==
    ASSUME FormInv, nextPart <= Len(form)
    PROVE  /\ Part \in FormParts /\ Part.size \in Nat
           /\ nextPart \in 1 .. Len(form) /\ nextPart \in 0 .. Len(form)
           /\ \A kind :
                 /\ Among(form, kind)[nextPart] =
                        IF Part.kind = kind
                        THEN Append(Among(form, kind)[GoneThrough], [part |-> nextPart, size |-> Part.size])
                        ELSE Among(form, kind)[GoneThrough]
                 /\ Together(form, kind)[nextPart] =
                        Together(form, kind)[GoneThrough] + (IF Part.kind = kind THEN Part.size ELSE 0)
<1>1. nextPart \in 1 .. Len(form) /\ GoneThrough \in 0 .. Len(form) - 1 /\ GoneThrough + 1 = nextPart
  BY FormTypes
<1>2. Part \in FormParts
  BY <1>1, FormTypes DEF Part
<1>3. Part.size \in Nat
  BY <1>2 DEF FormParts
<1>4. ASSUME NEW kind
      PROVE  Among(form, kind)[nextPart] =
                        IF Part.kind = kind
                        THEN Append(Among(form, kind)[GoneThrough], [part |-> nextPart, size |-> Part.size])
                        ELSE Among(form, kind)[GoneThrough]
  <2>1. form \in Seq(FormParts)
    BY FormTypes
  <2>2. QED
    BY <1>1, <2>1, AmongIs DEF Part
<1>5. ASSUME NEW kind
      PROVE  Together(form, kind)[nextPart] =
                        Together(form, kind)[GoneThrough] + (IF Part.kind = kind THEN Part.size ELSE 0)
  <2>1. form \in Seq(FormParts)
    BY FormTypes
  <2>2. QED
    BY <1>1, <2>1, TogetherIs DEF Part
<1>6. nextPart \in 0 .. Len(form)
  BY <1>1
<1>7. QED
  BY <1>1, <1>2, <1>3, <1>4, <1>5, <1>6

\* If the parts so far and the next one pass a limit, the form does.
LEMMA OverLimit ==
    ASSUME FormInv, nextPart <= Len(form),
           \/ Len(Among(form, "field")[nextPart]) > params.fields
           \/ Together(form, "field")[nextPart] > params.memory
           \/ params.count >= 0 /\ Len(Among(form, "file")[nextPart]) > params.count
           \/ params.single > 0 /\ Part.kind = "file" /\ Part.size > params.single
           \/ params.all > 0 /\ Together(form, "file")[nextPart] > params.all
    PROVE  ~WithinLimits
<1>1. SUFFICES ASSUME WithinLimits PROVE FALSE
  OBVIOUS
<1> DEFINE L == Len(form)
           A(kind) == Among(form, kind)
           T(kind) == Together(form, kind)
<1>2. /\ Len(A("field")[L]) <= params.fields /\ T("field")[L] <= params.memory
      /\ params.count >= 0 => Len(A("file")[L]) <= params.count
      /\ params.single > 0 => \A i \in DOMAIN A("file")[L] : A("file")[L][i].size <= params.single
      /\ params.all > 0 => T("file")[L] <= params.all
  BY <1>1 DEF WithinLimits, Wanted, TotalSize
<1>3. nextPart \in 0 .. L /\ L \in 0 .. L /\ L \in Nat /\ form \in Seq(FormParts)
  BY FormTypes, NextTaken
<1>4. \A kind : /\ A(kind)[nextPart] \in Seq(TakenParts) /\ A(kind)[L] \in Seq(TakenParts)
                /\ T(kind)[nextPart] \in Nat /\ T(kind)[L] \in Nat
  <2>1. TAKE kind
  <2>2. A(kind) \in [0 .. L -> Seq(TakenParts)]
    BY <1>3, AmongIs
  <2>3. T(kind) \in [0 .. L -> Nat]
    BY <1>3, TogetherIs
  <2> HIDE DEF A, T, L
  <2>4. QED
    BY <1>3, <2>2, <2>3
<1>5. \A kind : Len(A(kind)[nextPart]) \in Nat /\ Len(A(kind)[L]) \in Nat
  <2> HIDE DEF A, L
  <2> QED
    BY <1>4
<1>6. \A kind : /\ Len(A(kind)[nextPart]) <= Len(A(kind)[L]) /\ T(kind)[nextPart] <= T(kind)[L]
                /\ \A i \in DOMAIN A(kind)[nextPart] :
                      i \in DOMAIN A(kind)[L] /\ A(kind)[L][i] = A(kind)[nextPart][i]
  BY <1>3, Growing
<1>7. params.fields \in Nat /\ params.memory \in Nat /\ params.count \in Int
      /\ params.single \in Int /\ params.all \in Int
  BY FormTypes
<1>8. CASE Len(A("field")[nextPart]) > params.fields
  <2> HIDE DEF A, L, T
  <2> QED
    BY <1>2, <1>5, <1>6, <1>7, <1>8
<1>9. CASE T("field")[nextPart] > params.memory
  <2> HIDE DEF A, L, T
  <2> QED
    BY <1>2, <1>4, <1>6, <1>7, <1>9
<1>10. CASE params.count >= 0 /\ Len(A("file")[nextPart]) > params.count
  <2> HIDE DEF A, L, T
  <2> QED
    BY <1>2, <1>5, <1>6, <1>7, <1>10
<1>11. CASE params.all > 0 /\ T("file")[nextPart] > params.all
  <2> HIDE DEF A, L, T
  <2> QED
    BY <1>2, <1>4, <1>6, <1>7, <1>11
<1>12. CASE params.single > 0 /\ Part.kind = "file" /\ Part.size > params.single
  <2>1. /\ A("file")[nextPart] = Append(A("file")[GoneThrough], [part |-> nextPart, size |-> Part.size])
        /\ A("file")[GoneThrough] \in Seq(TakenParts) /\ Part.size \in Nat
    BY <1>12, NextTaken, TakenTypes
  <2> DEFINE k == Len(A("file")[GoneThrough]) + 1
  <2> HIDE DEF A, L, T
  <2>2. k \in DOMAIN A("file")[nextPart] /\ A("file")[nextPart][k].size = Part.size
    BY <2>1
  <2>3. k \in DOMAIN A("file")[L] /\ A("file")[L][k].size = Part.size
    BY <1>6, <2>2
  <2> HIDE DEF k
  <2>4. Part.size <= params.single
    BY <1>2, <1>12, <2>3
  <2>5. QED
    BY <1>7, <1>12, <2>1, <2>4
<1>13. QED
  BY <1>8, <1>9, <1>10, <1>11, <1>12

\* What Fails leaves when there is a reason.
LEMMA FailsInv ==
    ASSUME FormInv, Fails, formFaults' \in Nat,
           \/ ~WithinLimits \/ formFaults' > 0
           \/ \E i \in DOMAIN form : form[i].cut \/ form[i].kind = "badhead"
           \/ params.all > 0 /\ TotalSize("file") = params.all
    PROVE  FormInv'
<1>1. fat' = "failed" /\ tempFiles' = {} /\ form' = form /\ params' = params /\ nextPart' = nextPart
  BY DEF Fails
<1>2. Sensible(form, params)' /\ (nextPart \in 1 .. Len(form) + 1)'
  BY <1>1 DEF FormInv
<1>3. WithinLimits' = WithinLimits /\ TotalSize("file")' = TotalSize("file")
  BY <1>1 DEF WithinLimits, TotalSize, Wanted
<1>4. Reason'
  BY <1>1, <1>3 DEF Reason
<1>5. QED
  BY <1>1, <1>2, <1>4 DEF FormInv

LEMMA FormInitInv ==
    ASSUME NEW forms, NEW limits, \A f \in forms, l \in limits : Sensible(f, l),
           FormInit(forms, limits)
    PROVE  FormInv
<1> USE DEF FormInit
<1>1. Sensible(form, params)
  OBVIOUS
<1>2. form \in Seq(FormParts) /\ Len(form) \in Nat /\ nextPart \in 1 .. Len(form) + 1 /\ GoneThrough = 0
  BY <1>1 DEF Sensible, GoneThrough
<1>3. \A kind : Among(form, kind)[GoneThrough] = <<>> /\ Together(form, kind)[GoneThrough] = 0
  BY <1>2, AmongIs, TogetherIs
<1>4. TakenOK
  BY <1>1, <1>3, FormAssumption DEF TakenOK, Sensible, FormAssumption
<1>5. FilesOK
  BY DEF FilesOK
<1>6. QED
  BY <1>1, <1>2, <1>4, <1>5 DEF FormInv

LEMMA EndFormInv == ASSUME FormInv, EndForm PROVE FormInv'
<1> USE DEF EndForm
<1>1. nextPart = Len(form) + 1
  BY FormTypes DEF FormInv
<1>2. TakenOK' /\ FilesOK'
  <2>1. TakenOK /\ FilesOK
    BY DEF FormInv
  <2>2. TakenOK'
    BY <2>1 DEF TakenOK, GoneThrough
  <2>3. FilesOK'
    BY <2>1 DEF FilesOK
  <2>4. QED
    BY <2>2, <2>3
<1>3. QED
  BY <1>1, <1>2 DEF FormInv

LEMMA BadPartInv == ASSUME FormInv, BadPart PROVE FormInv'
<1>1. Fails /\ formFaults' \in Nat /\ nextPart <= Len(form) /\ Part.kind = "badhead"
  BY DEF BadPart, PartIs, FormInv
<1>2. \E i \in DOMAIN form : form[i].cut \/ form[i].kind = "badhead"
  BY <1>1, NextTaken, FormTypes DEF Part
<1>3. QED
  BY <1>1, <1>2, FailsInv

\* A part that is cut short is a reason.
LEMMA CutInv ==
    ASSUME FormInv, Fails, UNCHANGED formFaults, nextPart <= Len(form), Part.cut
    PROVE  FormInv'
<1>1. formFaults' \in Nat
  BY DEF FormInv
<1>2. \E i \in DOMAIN form : form[i].cut \/ form[i].kind = "badhead"
  BY NextTaken, FormTypes DEF Part
<1>3. QED
  BY <1>1, <1>2, FailsInv

LEMMA OsFailsInv == ASSUME FormInv, OsFails PROVE FormInv'
<1>1. Fails /\ formFaults' \in Nat /\ formFaults' > 0
  BY DEF OsFails, FormInv
<1>2. QED
  BY <1>1, FailsInv

LEMMA SkipPartInv == ASSUME FormInv, SkipPart PROVE FormInv'
<1>1. fat = "parts" /\ nextPart <= Len(form) /\ Part.kind = "other" /\ UNCHANGED formFaults
  BY DEF SkipPart, PartIs
<1>2. CASE Part.cut
  BY <1>1, <1>2, CutInv DEF SkipPart
<1>3. CASE ~Part.cut
  <2>1. /\ nextPart' = nextPart + 1
        /\ UNCHANGED <<form, params, fat, memleft, fieldsleft, numfiles, filebytesleft,
                       values, kept, tempFiles>>
    BY <1>3 DEF SkipPart
  <2>2. TakenOK /\ FilesOK
    BY <1>1 DEF FormInv
  <2>3. GoneThrough' = nextPart
    BY <2>1, FormTypes DEF GoneThrough
  <2>4. \A kind \in {"field", "file"} : /\ Among(form, kind)[nextPart] = Among(form, kind)[GoneThrough]
                                        /\ Together(form, kind)[nextPart] = Together(form, kind)[GoneThrough]
    BY <1>1, NextTaken, TakenTypes
  <2>5. TakenOK'
    BY <2>1, <2>2, <2>3, <2>4 DEF TakenOK
  <2>6. FilesOK'
    BY <1>1, <2>1, <2>2 DEF FilesOK
  <2>7. (nextPart \in 1 .. Len(form) + 1)'
    BY <1>1, <2>1, FormTypes
  <2>8. QED
    BY <1>1, <2>1, <2>5, <2>6, <2>7 DEF FormInv
<1>4. QED
  BY <1>2, <1>3

LEMMA TakeFieldInv == ASSUME FormInv, TakeField PROVE FormInv'
<1>1. fat = "parts" /\ nextPart <= Len(form) /\ Part.kind = "field" /\ UNCHANGED formFaults
  BY DEF TakeField, PartIs
<1>2. TakenOK /\ FilesOK
  BY <1>1 DEF FormInv
<1>3. /\ memleft \in Nat /\ fieldsleft \in Nat /\ numfiles \in Nat /\ Part.size \in Nat
      /\ values \in Seq(TakenParts) /\ Len(values) \in Nat
  BY <1>1, TakenTypes, NextTaken
<1>4. /\ Among(form, "field")[nextPart] = Append(values, [part |-> nextPart, size |-> Part.size])
      /\ Together(form, "field")[nextPart] = Together(form, "field")[GoneThrough] + Part.size
      /\ Among(form, "file")[nextPart] = Among(form, "file")[GoneThrough]
      /\ Together(form, "file")[nextPart] = Together(form, "file")[GoneThrough]
  <2>1. /\ Among(form, "field")[nextPart]
               = Append(Among(form, "field")[GoneThrough], [part |-> nextPart, size |-> Part.size])
        /\ Together(form, "field")[nextPart] = Together(form, "field")[GoneThrough] + Part.size
    BY <1>1, NextTaken
  <2>2. /\ Among(form, "file")[nextPart] = Among(form, "file")[GoneThrough]
        /\ Together(form, "file")[nextPart] = Together(form, "file")[GoneThrough]
    BY <1>1, NextTaken, TakenTypes
  <2>3. values = Among(form, "field")[GoneThrough]
    BY <1>2 DEF TakenOK
  <2>4. QED
    BY <2>1, <2>2, <2>3
<1>5. Len(Among(form, "field")[nextPart]) = Len(values) + 1
  BY <1>3, <1>4
<1>6. /\ Together(form, "field")[GoneThrough] \in Nat /\ params.memory \in Nat /\ params.fields \in Nat
      /\ memleft = params.memory - Together(form, "field")[GoneThrough]
      /\ fieldsleft = params.fields - Len(values)
  BY <1>2, FormTypes, TakenTypes DEF TakenOK
<1> DEFINE n == CopyN(Part.size, Plus1(memleft))
<1>7. n = IF Part.size < memleft + 1 THEN Part.size ELSE memleft + 1
  <2>1. params.memory < MaxInt64 /\ MaxInt64 \in Nat
    BY FormTypes DEF FormInv, Sensible
  <2>2. Plus1(memleft) = memleft + 1
    BY <1>3, <1>6, <2>1 DEF Plus1
  <2>3. QED
    BY <1>3, <2>2 DEF CopyN
<1>8. CASE fieldsleft = 0 \/ n > memleft
  <2>1. Fails /\ formFaults' \in Nat
    BY <1>8 DEF TakeField, FormInv
  <2> HIDE DEF n
  <2>2. \/ Len(Among(form, "field")[nextPart]) > params.fields
        \/ Together(form, "field")[nextPart] > params.memory
    BY <1>3, <1>4, <1>5, <1>6, <1>7, <1>8
  <2>3. ~WithinLimits
    BY <1>1, <2>2, OverLimit
  <2>4. QED
    BY <2>1, <2>3, FailsInv
<1>9. CASE Part.cut
  BY <1>1, <1>9, CutInv DEF TakeField
<1>10. CASE fieldsleft # 0 /\ ~Part.cut /\ ~(n > memleft)
  <2>1. /\ fieldsleft' = fieldsleft - 1 /\ memleft' = memleft - n
        /\ values' = Append(values, [part |-> nextPart, size |-> n])
        /\ nextPart' = nextPart + 1
        /\ UNCHANGED <<form, params, fat, numfiles, filebytesleft, kept, tempFiles>>
    BY <1>10 DEF TakeField
  <2> HIDE DEF n
  <2>2. n = Part.size /\ n <= memleft
    BY <1>3, <1>7, <1>10
  <2>3. GoneThrough' = nextPart
    BY <2>1, FormTypes DEF GoneThrough
  <2>4. values' = Among(form, "field")[GoneThrough]' /\ kept' = Among(form, "file")[GoneThrough]'
    BY <1>2, <1>4, <2>1, <2>2, <2>3 DEF TakenOK
  <2>5. Len(values') = Len(values) + 1
    BY <1>3, <2>1
  <2>6. fieldsleft' = params'.fields - Len(values') /\ fieldsleft' >= 0
    BY <1>3, <1>6, <1>10, <2>1, <2>5
  <2>7. memleft' = params'.memory - Together(form, "field")[GoneThrough]' /\ memleft' >= 0
    <3>1. Together(form, "field")[GoneThrough]' = Together(form, "field")[GoneThrough] + Part.size
      BY <1>4, <2>1, <2>3
    <3>2. memleft' = memleft - Part.size /\ params' = params
      BY <2>1, <2>2
    <3>3. QED
      BY <1>3, <1>6, <2>2, <3>1, <3>2
  <2>8. /\ filebytesleft = (IF params.all > 0 THEN params.all ELSE MaxInt64)
                           - Together(form, "file")[GoneThrough]
        /\ filebytesleft >= 0
        /\ params.count >= 0 => numfiles <= params.count
        /\ params.single > 0 => \A i \in DOMAIN kept : kept[i].size <= params.single
    BY <1>2 DEF TakenOK
  <2>9. TakenOK'
    BY <1>4, <2>1, <2>3, <2>4, <2>6, <2>7, <2>8 DEF TakenOK
  <2>10. FilesOK'
    BY <1>1, <1>2, <2>1 DEF FilesOK
  <2>11. (nextPart \in 1 .. Len(form) + 1)'
    BY <1>1, <2>1, FormTypes
  <2>12. QED
    BY <1>1, <2>1, <2>9, <2>10, <2>11 DEF FormInv
<1>11. QED
  BY <1>8, <1>9, <1>10

\* What the next file may have is what is left for all or the limit for one,
\* whichever is less, and one more of it is not negative.
LEMMA AllowedIs ==
    ASSUME FormInv, fat # "failed"
    PROVE  /\ Allowed \in Int /\ Allowed < MaxInt64
           /\ Allowed <= filebytesleft
           /\ params.single > 0 => Allowed <= params.single
           /\ Allowed = filebytesleft \/ (params.single > 0 /\ Allowed = params.single)
<1>1. filebytesleft \in Nat /\ params.single \in Int /\ params.all \in Int /\ MaxInt64 \in Nat
  BY FormTypes, TakenTypes
<1>2. params.single < MaxInt64 /\ params.all < MaxInt64 /\ (params.single > 0 \/ params.all > 0)
  BY DEF FormInv, Sensible
<1>3. Together(form, "file")[GoneThrough] \in Nat
  BY TakenTypes
<1>4. filebytesleft = (IF params.all > 0 THEN params.all ELSE MaxInt64)
                           - Together(form, "file")[GoneThrough]
  BY DEF FormInv, TakenOK
<1>5. Allowed = IF params.single > 0
                THEN IF filebytesleft < params.single THEN filebytesleft ELSE params.single
                ELSE filebytesleft
  BY DEF Allowed, Lesser
<1>6. QED
  BY <1>1, <1>2, <1>3, <1>4, <1>5

\* If all files may have so much and no more, nothing is left for the next one.
LEMMA UsedUp ==
    ASSUME FormInv, fat = "parts", nextPart <= Len(form), Part.kind = "file", Allowed <= 0
    PROVE  ~WithinLimits \/ (params.all > 0 /\ TotalSize("file") = params.all)
<1> DEFINE T == Together(form, "file")
           L == Len(form)
<1>1. /\ filebytesleft \in Nat /\ params.single \in Int /\ params.all \in Int /\ MaxInt64 \in Nat
      /\ T[GoneThrough] \in Nat /\ GoneThrough \in 0 .. L /\ form \in Seq(FormParts) /\ L \in 0 .. L
  BY FormTypes, TakenTypes
<1>2. filebytesleft = 0
  BY <1>1, AllowedIs
<1>3. (IF params.all > 0 THEN params.all ELSE MaxInt64) - T[GoneThrough] = 0
  BY <1>2 DEF FormInv, TakenOK
<1>4. T[GoneThrough] <= T[L] /\ T[L] \in Nat
  BY <1>1, Growing, TogetherIs
<1>5. params.all > 0 \/ T[L] < MaxInt64
  BY DEF FormInv, Sensible
<1>6. params.all > 0 /\ (T[L] = params.all \/ T[L] > params.all)
  <2> HIDE DEF T, L
  <2> QED
    BY <1>1, <1>3, <1>4, <1>5
<1>7. CASE T[L] = params.all
  BY <1>6, <1>7 DEF TotalSize
<1>8. CASE T[L] > params.all
  BY <1>1, <1>4, <1>6, <1>8 DEF WithinLimits, TotalSize
<1>9. QED
  BY <1>6, <1>7, <1>8

LEMMA OpenFileInv == ASSUME FormInv, OpenFile PROVE FormInv'
<1>1. fat = "parts" /\ nextPart <= Len(form) /\ Part.kind = "file"
  BY DEF OpenFile, PartIs
<1>2. TakenOK /\ FilesOK
  BY <1>1 DEF FormInv
<1>3. /\ numfiles \in Nat /\ numfiles = Len(kept) /\ kept \in Seq(TakenParts) /\ params.count \in Int
      /\ kept = Among(form, "file")[GoneThrough]
  BY <1>1, <1>2, TakenTypes, FormTypes DEF FilesOK, TakenOK
<1>4. Allowed \in Int
  BY <1>1, AllowedIs
<1>5. CASE Fails /\ UNCHANGED formFaults /\ params.count >= 0 /\ numfiles = params.count
  <2>1. Among(form, "file")[nextPart] = Append(kept, [part |-> nextPart, size |-> Part.size])
    BY <1>1, <1>3, NextTaken
  <2>2. Len(Among(form, "file")[nextPart]) = numfiles + 1
    BY <1>3, <2>1
  <2>3. ~WithinLimits
    BY <1>1, <1>3, <1>5, <2>2, OverLimit
  <2>4. formFaults' \in Nat
    BY <1>5 DEF FormInv
  <2>5. QED
    BY <1>5, <2>3, <2>4, FailsInv
<1>6. CASE Fails /\ UNCHANGED formFaults /\ Allowed <= 0
  <2>1. formFaults' \in Nat
    BY <1>6 DEF FormInv
  <2>2. QED
    BY <1>1, <1>6, <2>1, UsedUp, FailsInv
<1>7. CASE OsFails
  BY <1>7, OsFailsInv
<1>8. CASE /\ ~(params.count >= 0 /\ numfiles = params.count) /\ Allowed > 0
           /\ numfiles' = numfiles + 1 /\ tempFiles' = tempFiles \cup {nextPart} /\ fat' = "fill"
           /\ UNCHANGED <<form, params, nextPart, memleft, fieldsleft, filebytesleft,
                          values, kept, formFaults>>
  <2>1. params.count >= 0 => numfiles' <= params.count
    <3>1. params.count >= 0 => numfiles <= params.count
      BY <1>2 DEF TakenOK
    <3>2. QED
      BY <1>3, <1>8, <3>1
  <2>2. TakenOK'
    BY <1>2, <1>8, <2>1 DEF TakenOK, GoneThrough
  <2>3. tempFiles = {kept[i].part : i \in DOMAIN kept}
    BY <1>1, <1>2 DEF FilesOK
  <2>4. tempFiles' = {kept'[i].part : i \in DOMAIN kept'} \cup {nextPart'}
    BY <1>8, <2>3
  <2>5. Part' = Part /\ Allowed' = Allowed
    BY <1>8 DEF Part, Allowed
  <2>6. FilesOK'
    BY <1>1, <1>3, <1>8, <2>4, <2>5 DEF FilesOK
  <2>7. QED
    BY <1>8, <2>2, <2>6 DEF FormInv
<1>9. QED
  BY <1>5, <1>6, <1>7, <1>8 DEF OpenFile

LEMMA FillFileInv == ASSUME FormInv, FillFile PROVE FormInv'
<1>1. fat = "fill"
  BY DEF FillFile
<1>2. TakenOK /\ FilesOK
  BY <1>1 DEF FormInv
<1>3. nextPart <= Len(form) /\ Part.kind = "file" /\ Allowed > 0 /\ numfiles = Len(kept) + 1
  BY <1>1, <1>2 DEF FilesOK
<1>4. /\ filebytesleft \in Nat /\ numfiles \in Nat /\ Part.size \in Nat
      /\ kept \in Seq(TakenParts) /\ Len(kept) \in Nat /\ Together(form, "file")[GoneThrough] \in Nat
      /\ params.single \in Int /\ params.all \in Int /\ MaxInt64 \in Nat
  BY <1>1, <1>3, TakenTypes, NextTaken, FormTypes
<1>5. /\ Allowed \in Int /\ Allowed < MaxInt64 /\ Allowed <= filebytesleft
      /\ params.single > 0 => Allowed <= params.single
      /\ Allowed = filebytesleft \/ (params.single > 0 /\ Allowed = params.single)
  BY <1>1, AllowedIs
<1>6. /\ Among(form, "file")[nextPart] = Append(kept, [part |-> nextPart, size |-> Part.size])
      /\ Together(form, "file")[nextPart] = Together(form, "file")[GoneThrough] + Part.size
      /\ Among(form, "field")[nextPart] = Among(form, "field")[GoneThrough]
      /\ Together(form, "field")[nextPart] = Together(form, "field")[GoneThrough]
  <2>1. /\ Among(form, "file")[nextPart]
               = Append(Among(form, "file")[GoneThrough], [part |-> nextPart, size |-> Part.size])
        /\ Together(form, "file")[nextPart] = Together(form, "file")[GoneThrough] + Part.size
    BY <1>3, NextTaken
  <2>2. /\ Among(form, "field")[nextPart] = Among(form, "field")[GoneThrough]
        /\ Together(form, "field")[nextPart] = Together(form, "field")[GoneThrough]
    BY <1>3, NextTaken, TakenTypes
  <2>3. kept = Among(form, "file")[GoneThrough]
    BY <1>2 DEF TakenOK
  <2>4. QED
    BY <2>1, <2>2, <2>3
<1>7. filebytesleft = (IF params.all > 0 THEN params.all ELSE MaxInt64)
                           - Together(form, "file")[GoneThrough]
  BY <1>2 DEF TakenOK
<1> DEFINE n == CopyN(Part.size, Plus1(Allowed))
<1>8. n = IF Part.size < Allowed + 1 THEN Part.size ELSE Allowed + 1
  <2>1. Plus1(Allowed) = Allowed + 1
    BY <1>4, <1>5 DEF Plus1
  <2>2. ~(Allowed + 1 < 0)
    BY <1>3, <1>5
  <2>3. QED
    BY <2>1, <2>2 DEF CopyN
<1>9. CASE OsFails
  BY <1>9, OsFailsInv
<1>10. CASE Fails /\ UNCHANGED formFaults /\ Part.cut
  BY <1>3, <1>10, CutInv
<1>11. CASE Fails /\ UNCHANGED formFaults /\ n > Allowed
  <2>1. formFaults' \in Nat
    BY <1>11 DEF FormInv
  <2>2. Part.size > Allowed
    <3> HIDE DEF n
    <3> QED
      BY <1>4, <1>5, <1>8, <1>11
  <2>3. CASE params.single > 0 /\ Allowed = params.single
    <3>1. ~WithinLimits
      BY <1>3, <2>2, <2>3, OverLimit
    <3>2. QED
      BY <1>11, <2>1, <3>1, FailsInv
  <2>4. CASE Allowed = filebytesleft
    <3>1. Together(form, "file")[nextPart] > (IF params.all > 0 THEN params.all ELSE MaxInt64)
      BY <1>4, <1>5, <1>6, <1>7, <2>2, <2>4
    <3>2. Together(form, "file")[nextPart] <= Together(form, "file")[Len(form)]
          /\ Together(form, "file")[Len(form)] \in Nat /\ Together(form, "file")[nextPart] \in Nat
      <4>1. form \in Seq(FormParts) /\ nextPart \in 0 .. Len(form) /\ Len(form) \in 0 .. Len(form)
        BY <1>3, FormTypes, NextTaken
      <4>2. QED
        BY <4>1, Growing, TogetherIs
    <3>3. params.all > 0 \/ Together(form, "file")[Len(form)] < MaxInt64
      BY DEF FormInv, Sensible
    <3>4. params.all > 0
      BY <1>4, <3>1, <3>2, <3>3
    <3>5. ~WithinLimits
      BY <1>3, <3>1, <3>4, OverLimit
    <3>6. QED
      BY <1>11, <2>1, <3>5, FailsInv
  <2>5. QED
    BY <1>5, <2>3, <2>4
<1>12. CASE /\ ~(Part.cut \/ n > Allowed) /\ filebytesleft' = filebytesleft - n
            /\ kept' = Append(kept, [part |-> nextPart, size |-> n])
            /\ nextPart' = nextPart + 1 /\ fat' = "parts"
            /\ UNCHANGED <<form, params, memleft, fieldsleft, numfiles, values, tempFiles, formFaults>>
  <2> HIDE DEF n
  <2>1. n = Part.size /\ n <= Allowed
    BY <1>4, <1>5, <1>8, <1>12
  <2>2. GoneThrough' = nextPart
    BY <1>12, FormTypes DEF GoneThrough
  <2>3. values' = Among(form, "field")[GoneThrough]' /\ kept' = Among(form, "file")[GoneThrough]'
    BY <1>2, <1>6, <1>12, <2>1, <2>2 DEF TakenOK
  <2>4. /\ filebytesleft' = (IF params.all > 0 THEN params.all ELSE MaxInt64)'
                           - Together(form, "file")[GoneThrough]'
        /\ filebytesleft' >= 0
    <3>1. Together(form, "file")[GoneThrough]' = Together(form, "file")[GoneThrough] + Part.size
      BY <1>6, <1>12, <2>2
    <3>2. filebytesleft' = filebytesleft - Part.size /\ params' = params
      BY <1>12, <2>1
    <3>3. QED
      BY <1>4, <1>5, <1>7, <2>1, <3>1, <3>2
  <2>5. params'.single > 0 => \A i \in DOMAIN kept' : kept'[i].size <= params'.single
    <3>1. SUFFICES ASSUME params.single > 0, NEW i \in DOMAIN kept'
                   PROVE  kept'[i].size <= params.single
      BY <1>12
    <3>2. \A j \in DOMAIN kept : kept[j].size <= params.single
      BY <1>2, <3>1 DEF TakenOK
    <3>3. Part.size <= params.single
      BY <1>4, <1>5, <2>1, <3>1
    <3>4. kept' = Append(kept, [part |-> nextPart, size |-> Part.size])
      BY <1>12, <2>1
    <3>5. QED
      BY <1>4, <3>1, <3>2, <3>3, <3>4
  <2>6. /\ fieldsleft = params.fields - Len(values) /\ fieldsleft >= 0
        /\ memleft = params.memory - Together(form, "field")[GoneThrough] /\ memleft >= 0
        /\ params.count >= 0 => numfiles <= params.count
    BY <1>2 DEF TakenOK
  <2>7. TakenOK'
    BY <1>6, <1>12, <2>2, <2>3, <2>4, <2>5, <2>6 DEF TakenOK
  <2>8. FilesOK'
    <3>1. tempFiles = {kept[i].part : i \in DOMAIN kept} \cup {nextPart}
      BY <1>1, <1>2 DEF FilesOK
    <3>2. kept' = Append(kept, [part |-> nextPart, size |-> Part.size])
      BY <1>12, <2>1
    <3>3. /\ DOMAIN kept' = DOMAIN kept \cup {Len(kept) + 1} /\ Len(kept') = Len(kept) + 1
          /\ kept'[Len(kept) + 1].part = nextPart
          /\ \A i \in DOMAIN kept : kept'[i] = kept[i]
      BY <1>4, <3>2
    <3>4. {kept'[i].part : i \in DOMAIN kept'} = {kept[i].part : i \in DOMAIN kept} \cup {nextPart}
      BY <3>3
    <3>5. tempFiles' = {kept'[i].part : i \in DOMAIN kept'} /\ numfiles' = Len(kept')
      BY <1>3, <1>12, <3>1, <3>3, <3>4
    <3>6. QED
      BY <1>12, <1>4, <3>3, <3>5 DEF FilesOK
  <2>9. (nextPart \in 1 .. Len(form) + 1)'
    BY <1>3, <1>12, FormTypes
  <2>10. QED
    BY <1>12, <2>7, <2>8, <2>9 DEF FormInv
<1>13. QED
  BY <1>9, <1>10, <1>11, <1>12 DEF FillFile

\* The invariant is kept by every step.
LEMMA FormStepInv == FormInv /\ [FormNext]_formVars => FormInv'
<1> SUFFICES ASSUME FormInv, [FormNext]_formVars PROVE FormInv'
  OBVIOUS
<1>1. CASE FormNext
  BY <1>1, EndFormInv, BadPartInv, SkipPartInv, TakeFieldInv, OpenFileInv, FillFileInv DEF FormNext
<1>2. CASE UNCHANGED formVars
  BY <1>2 DEF formVars, FormInv, TakenOK, FilesOK, Reason, WithinLimits, Wanted, TotalSize,
              GoneThrough, Part, Allowed
<1>3. QED
  BY <1>1, <1>2

LEMMA FormInvTrue == FormInv => FormTrue
<1> SUFFICES ASSUME FormInv PROVE FormTrue
  OBVIOUS
<1>1. ASSUME fat = "parsed"
      PROVE  /\ values = Wanted("field") /\ kept = Wanted("file")
             /\ tempFiles = {kept[i].part : i \in DOMAIN kept} /\ WithinLimits
  <2>1. TakenOK /\ FilesOK /\ nextPart = Len(form) + 1
    BY <1>1 DEF FormInv
  <2>2. GoneThrough = Len(form)
    BY <2>1, FormTypes DEF GoneThrough
  <2>3. values = Wanted("field") /\ kept = Wanted("file")
    BY <2>1, <2>2 DEF TakenOK, Wanted
  <2>4. tempFiles = {kept[i].part : i \in DOMAIN kept} /\ numfiles = Len(kept)
    BY <1>1, <2>1 DEF FilesOK
  <2>5. /\ Together(form, "field")[GoneThrough] = TotalSize("field") /\ TotalSize("field") \in Nat
        /\ Together(form, "file")[GoneThrough] = TotalSize("file") /\ TotalSize("file") \in Nat
    BY <2>2, TakenTypes DEF TotalSize
  <2>6. Len(values) <= params.fields
    <3>1. fieldsleft = params.fields - Len(values) /\ fieldsleft \in Nat /\ Len(values) \in Nat
      BY <1>1, <2>1, TakenTypes DEF TakenOK
    <3>2. QED
      BY <3>1, FormTypes
  <2>7. TotalSize("field") <= params.memory
    <3>1. memleft = params.memory - TotalSize("field") /\ memleft \in Nat
      BY <1>1, <2>1, <2>5, TakenTypes DEF TakenOK
    <3>2. QED
      BY <2>5, <3>1, FormTypes
  <2>8. params.all > 0 => TotalSize("file") <= params.all
    <3>1. filebytesleft = (IF params.all > 0 THEN params.all ELSE MaxInt64) - TotalSize("file")
          /\ filebytesleft \in Nat
      BY <1>1, <2>1, <2>5, TakenTypes DEF TakenOK
    <3>2. QED
      BY <2>5, <3>1, FormTypes
  <2>9. /\ params.count >= 0 => Len(kept) <= params.count
        /\ params.single > 0 => \A i \in DOMAIN kept : kept[i].size <= params.single
    BY <2>1, <2>4 DEF TakenOK
  <2>10. WithinLimits
    BY <2>3, <2>6, <2>7, <2>8, <2>9 DEF WithinLimits
  <2>11. QED
    BY <2>3, <2>4, <2>10
<1>2. QED
  BY <1>1 DEF FormInv, FormTrue, Reason

\* A form that is taken is taken whole and within the limits; if one is
\* refused, no temporary file is left of it, and there is a reason: whatever
\* parts it has and whatever the limits are (ParserParams.ParseForm).
THEOREM FormCorrect ==
    ASSUME NEW forms, NEW limits, \A f \in forms, l \in limits : Sensible(f, l)
    PROVE  FormInit(forms, limits) /\ [][FormNext]_formVars => []FormTrue
<1>1. FormInit(forms, limits) => FormInv
  BY FormInitInv
<1>2. FormInv /\ [FormNext]_formVars => FormInv'
  BY FormStepInv
<1>3. FormInv => FormTrue
  BY FormInvTrue
<1>4. QED
  BY <1>1, <1>2, <1>3, PTL

-----------------------------------------------------------------------------
(***************************************************************************)
(* Texts that are passed on.                                               *)
(***************************************************************************)

\* A set with the empty sequence and with each longer one, if it has the one
\* without the last element, has all sequences.
LEMMA SeqInduct ==
    ASSUME NEW A, NEW P, <<>> \in P, \A s \in Seq(A), x \in A : s \in P => Append(s, x) \in P
    PROVE  Seq(A) \subseteq P
<1> DEFINE S == {n \in Nat : \A s \in Seq(A) : Len(s) = n => s \in P}
<1>1. 0 \in S
  <2>1. \A s \in Seq(A) : Len(s) = 0 => s = <<>>
    OBVIOUS
  <2> QED
    BY <2>1
<1>2. ASSUME NEW n \in Nat, n \in S PROVE n + 1 \in S
  <2>1. SUFFICES ASSUME NEW s \in Seq(A), Len(s) = n + 1 PROVE s \in P
    OBVIOUS
  <2> DEFINE t == SubSeq(s, 1, n)
  <2>2. t \in Seq(A) /\ Len(t) = n /\ s[n + 1] \in A /\ s = Append(t, s[n + 1])
    BY <2>1
  <2>3. t \in P
    BY <1>2, <2>2
  <2> HIDE DEF t
  <2> QED
    BY <2>2, <2>3
<1>3. Nat \subseteq S
  <2> HIDE DEF S
  <2> QED
    BY <1>1, <1>2, Induct
<1>4. ASSUME NEW s \in Seq(A) PROVE s \in P
  <2>1. Len(s) \in S
    BY <1>3
  <2> QED
    BY <2>1
<1> QED
  BY <1>4

\* FlattenSeq puts one piece behind the other.
LEMMA FlattenUp ==
    ASSUME NEW A, NEW p \in Seq(Seq(A)), p # <<>>
    PROVE  \E f \in [1 .. Len(p) -> Seq(A)] :
               /\ FlattenSeq(p) = f[Len(p)] /\ f[1] = p[1]
               /\ \A i \in 1 .. Len(p) - 1 : f[i + 1] = f[i] \o p[i + 1]
<1> DEFINE L == Len(p)
           flatten[i \in 1 .. Len(p)] == IF i = 1 THEN p[i] ELSE flatten[i - 1] \o p[i]
           F(f) == [i \in 1 .. L |-> IF i = 1 THEN p[i] ELSE f[i - 1] \o p[i]]
           V == Seq(A)
           op == [x \in Nat \X V |-> x[2] \o p[x[1] + 2]]
<1>1. L \in Nat /\ L >= 1 /\ L - 1 \in Nat
  OBVIOUS
<1>2. \A i \in 1 .. L : p[i] \in V
  OBVIOUS
<1>3. p[1] \in V
  BY <1>1, <1>2
<1>4. \A i \in Nat, v \in V : op[<<i, v>>] = v \o p[i + 2]
  OBVIOUS
<1>5. \A v \in V, w \in V : v \o w \in V
  OBVIOUS
<1> HIDE DEF V, op, L
<1>6. StepTo(L - 1, V, op)
  <2>1. ASSUME NEW i \in 0 .. (L - 1) - 1, NEW v \in V PROVE op[<<i, v>>] \in V
    <3>1. i \in Nat /\ i + 2 \in 1 .. L
      BY <1>1
    <3> QED
      BY <1>2, <1>4, <1>5, <3>1
  <2> QED
    BY <2>1 DEF StepTo
<1>7. PICK g : RunTo(L - 1, V, p[1], op, g)
  BY <1>1, <1>3, <1>6, RecursionTo
<1>8. g \in [0 .. L - 1 -> V] /\ g[0] = p[1] /\ \A i \in 0 .. (L - 1) - 1 : g[i + 1] = op[<<i, g[i]>>]
  BY <1>7 DEF RunTo
<1> DEFINE f == [i \in 1 .. L |-> g[i - 1]]
<1>9. f \in [1 .. L -> V] /\ f[1] = p[1]
  BY <1>1, <1>8
<1>10. \A i \in 1 .. L - 1 : f[i + 1] = f[i] \o p[i + 1]
  <2>1. TAKE i \in 1 .. L - 1
  <2>2. i - 1 \in 0 .. (L - 1) - 1 /\ (i - 1) + 1 = i /\ (i - 1) + 2 = i + 1 /\ i - 1 \in Nat
        /\ i \in 1 .. L /\ i + 1 \in 1 .. L /\ (i + 1) - 1 = i /\ i - 1 \in 0 .. L - 1
    BY <1>1
  <2>3. g[i] = op[<<i - 1, g[i - 1]>>] /\ g[i - 1] \in V
    BY <1>8, <2>2
  <2>4. op[<<i - 1, g[i - 1]>>] = g[i - 1] \o p[i + 1]
    BY <1>4, <2>2, <2>3
  <2>5. f[i + 1] = g[i] /\ f[i] = g[i - 1]
    BY <2>2
  <2> HIDE DEF f
  <2> QED
    BY <2>3, <2>4, <2>5
<1>11. f = F(f)
  <2>1. ASSUME NEW i \in 1 .. L PROVE f[i] = IF i = 1 THEN p[i] ELSE f[i - 1] \o p[i]
    <3>1. CASE i = 1
      BY <1>9, <3>1
    <3>2. CASE i # 1
      <4>1. i - 1 \in 1 .. L - 1 /\ (i - 1) + 1 = i
        BY <1>1, <3>2
      <4> HIDE DEF f
      <4> QED
        BY <1>10, <3>2, <4>1
    <3> QED
      BY <3>1, <3>2
  <2>2. f = [i \in 1 .. L |-> f[i]]
    BY <1>9
  <2> HIDE DEF f
  <2> QED
    BY <2>1, <2>2
<1>12. flatten = F(flatten)
  <2>1. flatten = CHOOSE k : k = F(k)
    BY DEF L
  <2> HIDE DEF F, flatten, f
  <2> QED
    BY <1>11, <2>1
<1>13. FlattenSeq(p) = flatten[L]
  <2>1. Len(p) # 0
    BY <1>1 DEF L
  <2> QED
    BY <2>1 DEF FlattenSeq, L
<1>14. ASSUME NEW k, k = F(k)
       PROVE  k[1] = p[1] /\ \A i \in 1 .. L - 1 : k[i + 1] = k[i] \o p[i + 1]
  <2>1. \A n \in 1 .. L : k[n] = IF n = 1 THEN p[n] ELSE k[n - 1] \o p[n]
    BY <1>14
  <2>2. 1 \in 1 .. L /\ \A i \in 1 .. L - 1 : i + 1 \in 1 .. L /\ i + 1 # 1 /\ (i + 1) - 1 = i
    BY <1>1
  <2> HIDE DEF F
  <2> QED
    BY <2>1, <2>2
<1>15. ASSUME NEW k, k = F(k) PROVE k \in [1 .. L -> V]
  <2>1. k = [n \in 1 .. L |-> k[n]]
    BY <1>15
  <2> DEFINE S == {n \in Nat : n + 1 \in 1 .. L => k[n + 1] \in V}
  <2>2. k[1] = p[1] /\ \A i \in 1 .. L - 1 : k[i + 1] = k[i] \o p[i + 1]
    BY <1>14, <1>15
  <2> HIDE DEF F
  <2>3. 0 \in S
    BY <1>3, <2>2
  <2>4. ASSUME NEW n \in Nat, n \in S PROVE n + 1 \in S
    <3>1. SUFFICES ASSUME (n + 1) + 1 \in 1 .. L PROVE k[(n + 1) + 1] \in V
      OBVIOUS
    <3>2. n + 1 \in 1 .. L - 1 /\ n + 1 \in 1 .. L
      BY <1>1, <3>1
    <3>3. k[n + 1] \in V
      BY <2>4, <3>2
    <3> QED
      BY <1>2, <1>5, <2>2, <3>1, <3>2, <3>3
  <2>5. Nat \subseteq S
    <3> HIDE DEF S
    <3> QED
      BY <2>3, <2>4, Induct
  <2>6. \A n \in 1 .. L : k[n] \in V
    <3>1. TAKE n \in 1 .. L
    <3>2. n - 1 \in Nat /\ (n - 1) + 1 = n
      BY <1>1
    <3>3. n - 1 \in S
      <4> HIDE DEF S
      <4> QED
        BY <2>5, <3>2
    <3> QED
      BY <3>2, <3>3
  <2> HIDE DEF S
  <2> QED
    BY <2>1, <2>6
<1> QED
  <2>1. flatten \in [1 .. L -> V]
    <3> HIDE DEF F, flatten
    <3> QED
      BY <1>12, <1>15
  <2>2. flatten[1] = p[1] /\ \A i \in 1 .. L - 1 : flatten[i + 1] = flatten[i] \o p[i + 1]
    <3> HIDE DEF F, flatten
    <3> QED
      BY <1>12, <1>14
  <2> HIDE DEF flatten
  <2> QED
    BY <1>13, <2>1, <2>2 DEF L, V

\* What FlattenSeq makes of one piece more.
LEMMA FlattenIs ==
    ASSUME NEW A
    PROVE  /\ FlattenSeq(<<>>) = <<>>
           /\ \A p \in Seq(Seq(A)) : FlattenSeq(p) \in Seq(A)
           /\ \A p \in Seq(Seq(A)), x \in Seq(A) : FlattenSeq(Append(p, x)) = FlattenSeq(p) \o x
<1>1. FlattenSeq(<<>>) = <<>>
  BY DEF FlattenSeq
<1>2. ASSUME NEW p \in Seq(Seq(A)) PROVE FlattenSeq(p) \in Seq(A)
  <2>1. CASE p = <<>>
    <3>1. <<>> \in Seq(A)
      OBVIOUS
    <3> QED
      BY <1>1, <2>1, <3>1
  <2>2. CASE p # <<>>
    <3>1. PICK f \in [1 .. Len(p) -> Seq(A)] : FlattenSeq(p) = f[Len(p)]
      BY <2>2, FlattenUp
    <3>2. Len(p) \in 1 .. Len(p)
      BY <2>2
    <3> DEFINE B == Seq(A)
    <3>3. f \in [1 .. Len(p) -> B]
      BY <3>1
    <3> HIDE DEF B
    <3>4. f[Len(p)] \in B
      BY <3>2, <3>3
    <3> QED
      BY <3>1, <3>4 DEF B
  <2> QED
    BY <2>1, <2>2
<1>3. ASSUME NEW p \in Seq(Seq(A)), NEW x \in Seq(A)
      PROVE  FlattenSeq(Append(p, x)) = FlattenSeq(p) \o x
  <2> DEFINE q == Append(p, x)
             L == Len(p)
  <2>1. q \in Seq(Seq(A)) /\ q # <<>> /\ Len(q) = L + 1 /\ q[L + 1] = x /\ L \in Nat
        /\ \A i \in 1 .. L : q[i] = p[i]
    <3> DEFINE B == Seq(A)
    <3>1. p \in Seq(B) /\ x \in B
      OBVIOUS
    <3> HIDE DEF B
    <3>2. q \in Seq(B) /\ q # <<>> /\ Len(q) = L + 1 /\ q[L + 1] = x /\ L \in Nat
          /\ \A i \in 1 .. L : q[i] = p[i]
      BY <3>1
    <3> QED
      BY <3>2 DEF B
  <2>2. PICK f \in [1 .. Len(q) -> Seq(A)] :
               /\ FlattenSeq(q) = f[Len(q)] /\ f[1] = q[1]
               /\ \A i \in 1 .. Len(q) - 1 : f[i + 1] = f[i] \o q[i + 1]
    <3> HIDE DEF q
    <3> QED
      BY <2>1, FlattenUp
  <2>3. CASE p = <<>>
    <3>1. L = 0 /\ Len(q) = 1
      BY <2>1, <2>3
    <3>2. FlattenSeq(q) = x
      BY <2>1, <2>2, <3>1
    <3>3. <<>> \o x = x
      OBVIOUS
    <3> QED
      BY <1>1, <2>3, <3>2, <3>3
  <2>4. CASE p # <<>>
    <3>1. PICK h \in [1 .. L -> Seq(A)] :
               /\ FlattenSeq(p) = h[L] /\ h[1] = p[1]
               /\ \A i \in 1 .. L - 1 : h[i + 1] = h[i] \o p[i + 1]
      BY <2>4, FlattenUp
    <3>2. L >= 1
      BY <2>1, <2>4
    <3> DEFINE S == {n \in Nat : n + 1 <= L => f[n + 1] = h[n + 1]}
    <3> HIDE DEF q, L
    <3>3. 0 \in S
      BY <2>1, <2>2, <3>1, <3>2
    <3>4. ASSUME NEW n \in Nat, n \in S PROVE n + 1 \in S
      <4>1. SUFFICES ASSUME (n + 1) + 1 <= L PROVE f[(n + 1) + 1] = h[(n + 1) + 1]
        OBVIOUS
      <4>2. n + 1 \in 1 .. L - 1 /\ n + 1 \in 1 .. Len(q) - 1 /\ (n + 1) + 1 \in 1 .. L /\ n + 1 <= L
        BY <2>1, <4>1
      <4>3. f[n + 1] = h[n + 1] /\ q[(n + 1) + 1] = p[(n + 1) + 1]
        BY <2>1, <3>4, <4>2
      <4> QED
        BY <2>2, <3>1, <4>2, <4>3
    <3>5. Nat \subseteq S
      <4> HIDE DEF S
      <4> QED
        BY <3>3, <3>4, Induct
    <3>6. f[L] = h[L]
      <4>1. L - 1 \in Nat /\ (L - 1) + 1 = L
        BY <2>1, <3>2
      <4>2. L - 1 \in S
        <5> HIDE DEF S
        <5> QED
          BY <3>5, <4>1
      <4> QED
        BY <4>1, <4>2
    <3>7. L \in 1 .. Len(q) - 1 /\ L + 1 = Len(q)
      BY <2>1, <3>2
    <3>8. f[L + 1] = f[L] \o q[L + 1]
      BY <2>2, <3>7
    <3> QED
      BY <2>1, <2>2, <3>1, <3>6, <3>7, <3>8 DEF q
  <2> QED
    BY <2>3, <2>4
<1> QED
  BY <1>1, <1>2, <1>3

\* A byte is in a sequence with one more if it is in the sequence or is that one.
LEMMA HasAppend ==
    ASSUME NEW A, NEW s \in Seq(A), NEW x \in A, NEW c
    PROVE  Has(Append(s, x), c) <=> Has(s, c) \/ x = c
<1>1. /\ DOMAIN Append(s, x) = DOMAIN s \cup {Len(s) + 1} /\ Append(s, x)[Len(s) + 1] = x
      /\ \A i \in DOMAIN s : Append(s, x)[i] = s[i]
  OBVIOUS
<1> QED
  BY <1>1 DEF Has

\* Pieces that are made of bytes one by one.
Pieces(m, s) == [i \in DOMAIN s |-> m[s[i]]]

LEMMA PiecesAppend ==
    ASSUME NEW A, NEW m \in [A -> Seq(A)], NEW s \in Seq(A), NEW x \in A
    PROVE  /\ Pieces(m, s) \in Seq(Seq(A))
           /\ Pieces(m, Append(s, x)) = Append(Pieces(m, s), m[x])
<1> DEFINE B == Seq(A)
           p == [i \in DOMAIN s |-> m[s[i]]]
           t == Append(s, x)
           q == [i \in DOMAIN t |-> m[t[i]]]
<1>1. /\ Len(s) \in Nat /\ DOMAIN s = 1 .. Len(s) /\ \A i \in 1 .. Len(s) : s[i] \in A
      /\ DOMAIN t = 1 .. Len(s) + 1 /\ t[Len(s) + 1] = x /\ \A i \in 1 .. Len(s) : t[i] = s[i]
  OBVIOUS
<1>2. m \in [A -> B] /\ m[x] \in B
  OBVIOUS
<1> HIDE DEF B, t
<1>3. p \in Seq(B) /\ Len(p) = Len(s)
  BY <1>1, <1>2
<1>4. q \in Seq(B) /\ Len(q) = Len(s) + 1 /\ \A i \in 1 .. Len(s) + 1 : q[i] = m[t[i]]
  <2>1. ASSUME NEW i \in 1 .. Len(s) + 1 PROVE t[i] \in A
    <3>1. i \in 1 .. Len(s) \/ i = Len(s) + 1
      BY <1>1
    <3> QED
      BY <1>1, <3>1
  <2> QED
    BY <1>1, <1>2, <2>1
<1>5. \A i \in 1 .. Len(s) : p[i] = m[s[i]]
  BY <1>1
<1> HIDE DEF p, q
<1>6. \A i \in 1 .. Len(s) + 1 : q[i] = Append(p, m[x])[i]
  BY <1>1, <1>2, <1>3, <1>4, <1>5
<1>7. q = Append(p, m[x])
  <2>1. Append(p, m[x]) \in Seq(B) /\ Len(Append(p, m[x])) = Len(s) + 1
    BY <1>1, <1>2, <1>3
  <2> QED
    BY <1>1, <1>4, <1>6, <2>1
<1> QED
  BY <1>3, <1>7 DEF p, q, t, B, Pieces

\* What the UnixTextReader leaves out, byte by byte.
LEMMA WithoutIs ==
    ASSUME NEW A
    PROVE  /\ WithoutCR(<<>>) = <<>>
           /\ \A s \in Seq(A) : WithoutCR(s) \in Seq(A)
           /\ \A s \in Seq(A), x \in A :
                 WithoutCR(Append(s, x)) = IF x = "CR" THEN WithoutCR(s) ELSE Append(WithoutCR(s), x)
<1> DEFINE m == [x \in A |-> IF x = "CR" THEN <<>> ELSE <<x>>]
           p(s) == Pieces(m, s)
<1>1. m \in [A -> Seq(A)]
  OBVIOUS
<1>2. ASSUME NEW s \in Seq(A) PROVE WithoutCR(s) = FlattenSeq(p(s))
  <2>1. \A i \in DOMAIN s : s[i] \in A
    OBVIOUS
  <2>2. \A i \in DOMAIN s : (IF s[i] = "CR" THEN <<>> ELSE <<s[i]>>) = m[s[i]]
    BY <2>1
  <2> HIDE DEF m
  <2> USE DEF Pieces
  <2>3. [i \in DOMAIN s |-> IF s[i] = "CR" THEN <<>> ELSE <<s[i]>>] = p(s)
    BY <2>2
  <2> HIDE DEF p
  <2> QED
    BY <2>3 DEF WithoutCR
<1>3. WithoutCR(<<>>) = <<>>
  <2>1. [i \in DOMAIN <<>> |-> IF <<>>[i] = "CR" THEN <<>> ELSE <<<<>>[i]>>] = <<>>
    OBVIOUS
  <2> QED
    BY <2>1, FlattenIs DEF WithoutCR
<1>4. ASSUME NEW s \in Seq(A), NEW x \in A
      PROVE  /\ WithoutCR(s) \in Seq(A)
             /\ WithoutCR(Append(s, x)) = IF x = "CR" THEN WithoutCR(s) ELSE Append(WithoutCR(s), x)
  <2>1. p(s) \in Seq(Seq(A)) /\ p(Append(s, x)) = Append(p(s), m[x])
    <3> HIDE DEF m
    <3> QED
      BY <1>1, PiecesAppend
  <2>2. m[x] = (IF x = "CR" THEN <<>> ELSE <<x>>) /\ m[x] \in Seq(A)
    BY <1>1
  <2> HIDE DEF m, p
  <2>3. FlattenSeq(p(s)) \in Seq(A) /\ FlattenSeq(p(Append(s, x))) = FlattenSeq(p(s)) \o m[x]
    BY <2>1, <2>2, FlattenIs
  <2>4. Append(s, x) \in Seq(A)
    OBVIOUS
  <2>5. WithoutCR(s) \in Seq(A) /\ WithoutCR(Append(s, x)) = WithoutCR(s) \o m[x]
    BY <1>2, <2>3, <2>4
  <2> QED
    BY <2>2, <2>5
<1>5. ASSUME NEW s \in Seq(A) PROVE WithoutCR(s) \in Seq(A)
  <2>1. p(s) \in Seq(Seq(A))
    <3>1. CASE s = <<>>
      BY <3>1 DEF Pieces
    <3>2. CASE s # <<>>
      <4>1. s[1] \in A
        BY <3>2
      <4> HIDE DEF m
      <4> QED
        BY <1>1, <4>1, PiecesAppend
    <3> QED
      BY <3>1, <3>2
  <2> HIDE DEF p
  <2> QED
    BY <1>2, <2>1, FlattenIs
<1> QED
  BY <1>3, <1>4, <1>5

\* quotedprintable.Writer, byte by byte.
LEMMA QuotedIs ==
    ASSUME NEW A, "CR" \in A, "LF" \in A
    PROVE  /\ QuotedLines(<<>>) = <<>>
           /\ \A s \in Seq(A) : QuotedLines(s) \in Seq(A)
           /\ \A s \in Seq(A), x \in A :
                 QuotedLines(Append(s, x)) = IF x = "LF" THEN Append(Append(QuotedLines(s), "CR"), "LF")
                                             ELSE Append(QuotedLines(s), x)
<1> DEFINE m == [x \in A |-> IF x = "LF" THEN <<"CR", "LF">> ELSE <<x>>]
           p(s) == Pieces(m, s)
<1>1. m \in [A -> Seq(A)]
  OBVIOUS
<1>2. ASSUME NEW s \in Seq(A) PROVE QuotedLines(s) = FlattenSeq(p(s))
  <2>1. \A i \in DOMAIN s : s[i] \in A
    OBVIOUS
  <2>2. \A i \in DOMAIN s : (IF s[i] = "LF" THEN <<"CR", "LF">> ELSE <<s[i]>>) = m[s[i]]
    BY <2>1
  <2> HIDE DEF m
  <2> USE DEF Pieces
  <2>3. [i \in DOMAIN s |-> IF s[i] = "LF" THEN <<"CR", "LF">> ELSE <<s[i]>>] = p(s)
    BY <2>2
  <2> HIDE DEF p
  <2> QED
    BY <2>3 DEF QuotedLines
<1>3. QuotedLines(<<>>) = <<>>
  <2>1. [i \in DOMAIN <<>> |-> IF <<>>[i] = "LF" THEN <<"CR", "LF">> ELSE <<<<>>[i]>>] = <<>>
    OBVIOUS
  <2> QED
    BY <2>1, FlattenIs DEF QuotedLines
<1>4. ASSUME NEW s \in Seq(A), NEW x \in A
      PROVE  /\ QuotedLines(s) \in Seq(A)
             /\ QuotedLines(Append(s, x)) = IF x = "LF" THEN Append(Append(QuotedLines(s), "CR"), "LF")
                                            ELSE Append(QuotedLines(s), x)
  <2>1. p(s) \in Seq(Seq(A)) /\ p(Append(s, x)) = Append(p(s), m[x])
    <3> HIDE DEF m
    <3> QED
      BY <1>1, PiecesAppend
  <2>2. m[x] = (IF x = "LF" THEN <<"CR", "LF">> ELSE <<x>>) /\ m[x] \in Seq(A)
    BY <1>1
  <2> HIDE DEF m, p
  <2>3. FlattenSeq(p(s)) \in Seq(A) /\ FlattenSeq(p(Append(s, x))) = FlattenSeq(p(s)) \o m[x]
    BY <2>1, <2>2, FlattenIs
  <2>4. Append(s, x) \in Seq(A)
    OBVIOUS
  <2>5. QuotedLines(s) \in Seq(A) /\ QuotedLines(Append(s, x)) = QuotedLines(s) \o m[x]
    BY <1>2, <2>3, <2>4
  <2>6. CASE x = "LF"
    <3>1. QuotedLines(s) \o <<"CR", "LF">> = Append(Append(QuotedLines(s), "CR"), "LF")
      BY <2>5
    <3> QED
      BY <2>2, <2>5, <2>6, <3>1
  <2>7. CASE x # "LF"
    <3>1. QuotedLines(s) \o <<x>> = Append(QuotedLines(s), x)
      BY <2>5
    <3> QED
      BY <2>2, <2>5, <2>7, <3>1
  <2> QED
    BY <2>6, <2>7
<1>5. ASSUME NEW s \in Seq(A) PROVE QuotedLines(s) \in Seq(A)
  BY <1>4
<1> QED
  BY <1>3, <1>4, <1>5

\* What is left and what is not when the CR are gone.
LEMMA WithoutFacts ==
    ASSUME NEW A, NEW s \in Seq(A)
    PROVE  /\ WithoutCR(s) \in Seq(A) /\ ~Has(WithoutCR(s), "CR")
           /\ ~Has(s, "CR") => WithoutCR(s) = s
           /\ \A c : c # "CR" => (Has(WithoutCR(s), c) <=> Has(s, c))
<1>1. ASSUME NEW c, c # "CR"
      PROVE  ~Has(WithoutCR(s), "CR") /\ (~Has(s, "CR") => WithoutCR(s) = s)
             /\ (Has(WithoutCR(s), c) <=> Has(s, c))
  <2> DEFINE P == {t \in Seq(A) : ~Has(WithoutCR(t), "CR") /\ (~Has(t, "CR") => WithoutCR(t) = t)
                                  /\ (Has(WithoutCR(t), c) <=> Has(t, c))}
  <2>1. <<>> \in P
    BY WithoutIs DEF Has
  <2>2. ASSUME NEW t \in Seq(A), NEW x \in A, t \in P PROVE Append(t, x) \in P
    <3>1. ~Has(WithoutCR(t), "CR") /\ (~Has(t, "CR") => WithoutCR(t) = t)
          /\ (Has(WithoutCR(t), c) <=> Has(t, c))
      BY <2>2
    <3>2. WithoutCR(t) \in Seq(A) /\ Append(t, x) \in Seq(A)
      BY WithoutIs
    <3>3. WithoutCR(Append(t, x)) = IF x = "CR" THEN WithoutCR(t) ELSE Append(WithoutCR(t), x)
      BY WithoutIs
    <3>4. \A d : Has(Append(t, x), d) <=> Has(t, d) \/ x = d
      BY HasAppend
    <3>5. \A d : Has(Append(WithoutCR(t), x), d) <=> Has(WithoutCR(t), d) \/ x = d
      BY <3>2, HasAppend
    <3>6. CASE x = "CR"
      <4>1. WithoutCR(Append(t, x)) = WithoutCR(t) /\ Has(Append(t, x), "CR")
        BY <3>3, <3>4, <3>6
      <4>2. Has(Append(t, x), c) <=> Has(t, c)
        BY <3>4, <3>6, <1>1
      <4> QED
        BY <3>1, <3>2, <4>1, <4>2
    <3>7. CASE x # "CR"
      <4>1. WithoutCR(Append(t, x)) = Append(WithoutCR(t), x)
        BY <3>3, <3>7
      <4>2. ~Has(WithoutCR(Append(t, x)), "CR")
        BY <3>1, <3>5, <3>7, <4>1
      <4>3. Has(WithoutCR(Append(t, x)), c) <=> Has(Append(t, x), c)
        BY <3>1, <3>4, <3>5, <4>1
      <4>4. ~Has(Append(t, x), "CR") => WithoutCR(Append(t, x)) = Append(t, x)
        BY <3>1, <3>4, <4>1
      <4> QED
        BY <3>2, <4>2, <4>3, <4>4
    <3> QED
      BY <3>6, <3>7
  <2>3. Seq(A) \subseteq P
    <3> HIDE DEF P
    <3> QED
      BY <2>1, <2>2, SeqInduct
  <2>4. s \in P
    <3> HIDE DEF P
    <3> QED
      BY <2>3
  <2> QED
    BY <2>4
<1>2. "LF" # "CR"
  OBVIOUS
<1> QED
  BY <1>1, <1>2, WithoutIs

\* A text as the UnixTextReader leaves it.
IsUnix(A, u) == u \in Seq(A) /\ ~Has(u, "CR") /\ (u = <<>> \/ u[Len(u)] = "LF")

LEMMA UnixFacts ==
    ASSUME NEW A, "LF" \in A, NEW s \in Seq(A)
    PROVE  /\ IsUnix(A, UnixText(s))
           /\ \A c : c \notin {"CR", "LF"} => (Has(UnixText(s), c) <=> Has(s, c))
<1> DEFINE t == WithoutCR(s)
<1>1. t \in Seq(A) /\ ~Has(t, "CR") /\ \A c : c # "CR" => (Has(t, c) <=> Has(s, c))
  BY WithoutFacts
<1>2. UnixText(s) = IF t = <<>> \/ t[Len(t)] = "LF" THEN t ELSE Append(t, "LF")
  BY DEF UnixText, Last
<1> HIDE DEF t
<1>3. CASE t = <<>> \/ t[Len(t)] = "LF"
  BY <1>1, <1>2, <1>3 DEF IsUnix
<1>4. CASE ~(t = <<>> \/ t[Len(t)] = "LF")
  <2>1. UnixText(s) = Append(t, "LF")
    BY <1>2, <1>4
  <2>2. \A c : Has(Append(t, "LF"), c) <=> Has(t, c) \/ "LF" = c
    BY <1>1, HasAppend
  <2>3. Append(t, "LF") \in Seq(A) /\ Append(t, "LF")[Len(Append(t, "LF"))] = "LF"
    BY <1>1
  <2>4. ~Has(Append(t, "LF"), "CR")
    BY <1>1, <2>2
  <2>5. \A c : c \notin {"CR", "LF"} => (Has(Append(t, "LF"), c) <=> Has(s, c))
    BY <1>1, <2>2
  <2> QED
    BY <2>1, <2>3, <2>4, <2>5 DEF IsUnix
<1> QED
  BY <1>3, <1>4

\* Such a text is left as it is.
LEMMA UnixSame ==
    ASSUME NEW A, NEW u, IsUnix(A, u)
    PROVE  UnixText(u) = u
<1>1. u \in Seq(A) /\ ~Has(u, "CR") /\ (u = <<>> \/ u[Len(u)] = "LF")
  BY DEF IsUnix
<1>2. WithoutCR(u) = u
  BY <1>1, WithoutFacts
<1> QED
  BY <1>1, <1>2 DEF UnixText, Last

\* The newline that is trimmed is put back.
LEMMA TrimmedIs ==
    ASSUME NEW A, "LF" \in A, NEW u, IsUnix(A, u)
    PROVE  /\ TrimUnixNL(u) \in Seq(A) /\ UnixText(TrimUnixNL(u)) = u
           /\ TrimUnixNL(u) = <<>> <=> u = <<>>
<1>1. u \in Seq(A) /\ ~Has(u, "CR") /\ (u = <<>> \/ u[Len(u)] = "LF") /\ Len(u) \in Nat
  BY DEF IsUnix
<1>2. CASE Len(u) > 1 /\ u[Len(u)] = "LF" /\ u[Len(u) - 1] # "LF"
  <2> DEFINE f == SubSeq(u, 1, Len(u) - 1)
  <2>1. TrimUnixNL(u) = f
    BY <1>2 DEF TrimUnixNL, Last, Front
  <2>2. f \in Seq(A) /\ Len(f) = Len(u) - 1 /\ f # <<>> /\ \A i \in 1 .. Len(u) - 1 : f[i] = u[i]
    <3>1. f \in Seq(A)
      BY <1>1, <1>2
    <3>2. Len(f) = Len(u) - 1
      BY <1>1, <1>2
    <3>3. \A i \in 1 .. Len(u) - 1 : f[i] = u[i]
      BY <1>1, <1>2
    <3> HIDE DEF f
    <3>4. f # <<>>
      BY <1>1, <1>2, <3>2
    <3> QED
      BY <3>1, <3>2, <3>3, <3>4
  <2> HIDE DEF f
  <2>3. ~Has(f, "CR")
    <3>1. DOMAIN f = 1 .. Len(u) - 1 /\ DOMAIN u = 1 .. Len(u)
      BY <1>1, <2>2
    <3> QED
      BY <1>1, <2>2, <3>1 DEF Has
  <2>4. WithoutCR(f) = f
    BY <2>2, <2>3, WithoutFacts
  <2>5. f[Len(f)] # "LF"
    BY <1>1, <1>2, <2>2
  <2>6. UnixText(f) = Append(f, "LF")
    BY <2>2, <2>4, <2>5 DEF UnixText, Last
  <2>7. Append(f, "LF") = u
    BY <1>1, <1>2, <2>2
  <2>8. u # <<>>
    BY <1>2
  <2> QED
    BY <2>1, <2>2, <2>6, <2>7, <2>8
<1>3. CASE ~(Len(u) > 1 /\ u[Len(u)] = "LF" /\ u[Len(u) - 1] # "LF")
  <2>1. TrimUnixNL(u) = u
    BY <1>3 DEF TrimUnixNL, Last
  <2> QED
    BY <1>1, <2>1, UnixSame
<1> QED
  BY <1>2, <1>3

\* The CR that quotedprintable.Writer adds are taken out again.
LEMMA QuotedFacts ==
    ASSUME NEW A, "LF" \in A, "CR" \in A, NEW u, IsUnix(A, u)
    PROVE  /\ QuotedLines(u) \in Seq(A) /\ UnixText(QuotedLines(u)) = u
           /\ \A c : c # "CR" => (Has(QuotedLines(u), c) <=> Has(u, c))
<1>1. u \in Seq(A) /\ ~Has(u, "CR") /\ (u = <<>> \/ u[Len(u)] = "LF")
  BY DEF IsUnix
<1>2. ASSUME NEW c, c # "CR"
      PROVE  WithoutCR(QuotedLines(u)) = u /\ (Has(QuotedLines(u), c) <=> Has(u, c))
  <2> DEFINE P == {t \in Seq(A) : /\ ~Has(t, "CR") => WithoutCR(QuotedLines(t)) = t
                                  /\ Has(QuotedLines(t), c) <=> Has(t, c)}
  <2>1. <<>> \in P
    BY WithoutIs, QuotedIs DEF Has
  <2>2. ASSUME NEW t \in Seq(A), NEW x \in A, t \in P PROVE Append(t, x) \in P
    <3> DEFINE q == QuotedLines(t)
               r == QuotedLines(Append(t, x))
    <3>1. q \in Seq(A) /\ r = (IF x = "LF" THEN Append(Append(q, "CR"), "LF") ELSE Append(q, x))
      BY QuotedIs
    <3>2. (~Has(t, "CR") => WithoutCR(q) = t) /\ (Has(q, c) <=> Has(t, c))
      BY <2>2
    <3>3. \A d : Has(Append(t, x), d) <=> Has(t, d) \/ x = d
      BY HasAppend
    <3> HIDE DEF q, r
    <3>4. CASE x = "LF"
      <4>1. Append(q, "CR") \in Seq(A) /\ r = Append(Append(q, "CR"), "LF")
        BY <3>1, <3>4
      <4>2. WithoutCR(r) = Append(WithoutCR(q), "LF")
        <5>1. WithoutCR(Append(q, "CR")) = WithoutCR(q)
          BY <3>1, WithoutIs
        <5>2. WithoutCR(Append(Append(q, "CR"), "LF")) = Append(WithoutCR(Append(q, "CR")), "LF")
          BY <4>1, WithoutIs
        <5> QED
          BY <4>1, <5>1, <5>2
      <4>3. Has(r, c) <=> Has(q, c) \/ "LF" = c
        <5>1. Has(Append(q, "CR"), c) <=> Has(q, c) \/ "CR" = c
          BY <3>1, HasAppend
        <5>2. Has(Append(Append(q, "CR"), "LF"), c) <=> Has(Append(q, "CR"), c) \/ "LF" = c
          BY <4>1, HasAppend
        <5> QED
          BY <1>2, <4>1, <5>1, <5>2
      <4>4. ~Has(Append(t, x), "CR") => WithoutCR(r) = Append(t, x)
        BY <3>2, <3>3, <3>4, <4>2
      <4>5. Has(r, c) <=> Has(Append(t, x), c)
        BY <3>2, <3>3, <3>4, <4>3
      <4>6. Append(t, x) \in Seq(A)
        OBVIOUS
      <4> QED
        BY <4>4, <4>5, <4>6 DEF r
    <3>5. CASE x # "LF"
      <4>1. r = Append(q, x)
        BY <3>1, <3>5
      <4>2. WithoutCR(r) = IF x = "CR" THEN WithoutCR(q) ELSE Append(WithoutCR(q), x)
        BY <3>1, <4>1, WithoutIs
      <4>3. Has(r, c) <=> Has(q, c) \/ x = c
        BY <3>1, <4>1, HasAppend
      <4>4. ~Has(Append(t, x), "CR") => WithoutCR(r) = Append(t, x)
        BY <3>2, <3>3, <4>2
      <4>5. Has(r, c) <=> Has(Append(t, x), c)
        BY <3>2, <3>3, <4>3
      <4>6. Append(t, x) \in Seq(A)
        OBVIOUS
      <4> QED
        BY <4>4, <4>5, <4>6 DEF r
    <3> QED
      BY <3>4, <3>5
  <2>3. Seq(A) \subseteq P
    <3> HIDE DEF P
    <3> QED
      BY <2>1, <2>2, SeqInduct
  <2>4. u \in P
    <3> HIDE DEF P
    <3> QED
      BY <1>1, <2>3
  <2> QED
    BY <1>1, <2>4
<1>3. "LF" # "CR"
  OBVIOUS
<1>4. WithoutCR(QuotedLines(u)) = u
  BY <1>2, <1>3
<1>5. UnixText(QuotedLines(u)) = u
  BY <1>1, <1>4 DEF UnixText, Last
<1> QED
  BY <1>1, <1>2, <1>5, QuotedIs

\* The parts of an article, and the articles that come in.
Bytes == {"a", "LF", "CR", "0", "8"}
Encodings == {"none", "8bit", "qp", "base64", "odd"}
PartSet == [type : STRING, charset : STRING, cte : Encodings, head : STRING, data : Seq(Bytes)]
Whole(a) ==
    /\ a.parts \in Seq(PartSet) /\ a.form \in {"single", "parts", "message"}
    /\ a.form # "parts" => Len(a.parts) = 1
    /\ a = [form |-> a.form, subject |-> a.subject, parts |-> a.parts]

\* What a part says.
LEMMA DataIs ==
    ASSUME NEW p \in PartSet
    PROVE  /\ Data(p) \in Seq(Bytes) /\ p.data \in Seq(Bytes)
           /\ Binary(p) => Data(p) = p.data
           /\ ~Binary(p) => /\ Data(p) = UnixText(p.data) /\ IsUnix(Bytes, Data(p))
                            /\ Has(Data(p), "0") <=> Has(p.data, "0")
                            /\ Has(Data(p), "8") <=> Has(p.data, "8")
<1>1. p.data \in Seq(Bytes)
  BY DEF PartSet
<1>2. "LF" \in Bytes
  BY DEF Bytes
<1>3. IsUnix(Bytes, UnixText(p.data)) /\ \A c : c \notin {"CR", "LF"} => (Has(UnixText(p.data), c) <=> Has(p.data, c))
  BY <1>1, <1>2, UnixFacts
<1>4. UnixText(p.data) \in Seq(Bytes)
  BY <1>3 DEF IsUnix
<1>5. (Has(UnixText(p.data), "0") <=> Has(p.data, "0")) /\ (Has(UnixText(p.data), "8") <=> Has(p.data, "8"))
  BY <1>3
<1> QED
  BY <1>1, <1>3, <1>4, <1>5 DEF Data

\* What is kept of a part: what it says, or, of a text, that without the last newline.
KeptAs(p, s) == s = Data(p) \/ (~Binary(p) /\ s = TrimUnixNL(Data(p)))

LEMMA KeptIs ==
    ASSUME NEW p \in PartSet, NEW s, KeptAs(p, s)
    PROVE  (IF Binary(p) THEN s ELSE UnixText(s)) = Data(p)
<1>1. "LF" \in Bytes
  BY DEF Bytes
<1>2. CASE Binary(p)
  BY <1>2 DEF KeptAs
<1>3. CASE ~Binary(p)
  <2>1. IsUnix(Bytes, Data(p))
    BY <1>3, DataIs
  <2>2. UnixText(Data(p)) = Data(p) /\ UnixText(TrimUnixNL(Data(p))) = Data(p)
    BY <1>1, <2>1, UnixSame, TrimmedIs
  <2> QED
    BY <1>3, <2>2 DEF KeptAs
<1> QED
  BY <1>2, <1>3

\* Parts that are eaten in the same way.
Alike(p, q) ==
    /\ q.type = p.type /\ q.charset = p.charset /\ q.head = p.head /\ Data(q) = Data(p)
    /\ Binary(q) <=> Binary(p)
    /\ HasNull(q) <=> HasNull(p)
    /\ Has8Bit(q) <=> Has8Bit(p)

\* What the layout says of a part is so.
Tells(i, p) ==
    /\ i.type = p.type /\ i.charset = p.charset /\ i.head = p.head
    /\ i.binary = Binary(p) /\ i.hasNull = HasNull(p) /\ i.has8Bit = Has8Bit(p)

\* A part that is generated is like the one it was kept of, can be read, and has
\* no NUL as it is.
GoodCopy(p, q) ==
    /\ q \in PartSet /\ Alike(p, q) /\ SameContent(p, q) /\ ~BadEncoding(q)
    /\ q.cte \in {"none", "8bit"} => ~Has(q.data, "0")

LEMMA PartPassed ==
    ASSUME NEW p \in PartSet, ~BadEncoding(p), ~(p.type = "multi" /\ Has(p.data, "0")),
           NEW row, NEW i, Tells(i, p), KeptAs(p, Source(row, i))
    PROVE  GoodCopy(p, Generated(row, i))
<1> DEFINE q == Generated(row, i)
           D == Data(p)
           text == IF i.binary THEN Source(row, i) ELSE UnixText(Source(row, i))
<1>1. text = D
  BY KeptIs DEF Tells
<1>2. q = [type |-> i.type, charset |-> i.charset, head |-> i.head, cte |-> SetCTE(i),
           data |-> IF SetCTE(i) = "qp" THEN QuotedLines(text) ELSE text]
  BY DEF Generated
<1>3. D \in Seq(Bytes) /\ p.data \in Seq(Bytes) /\ p.type \in STRING /\ p.charset \in STRING /\ p.head \in STRING
  BY DataIs DEF PartSet
<1> HIDE DEF text, D
<1>4. q.type = p.type /\ q.charset = p.charset /\ q.head = p.head /\ q.cte = SetCTE(i)
      /\ q.data = IF SetCTE(i) = "qp" THEN QuotedLines(D) ELSE D
  BY <1>1, <1>2 DEF Tells
<1>5. CASE Binary(p)
  <2>1. SetCTE(i) = "base64"
    BY <1>5 DEF SetCTE, Tells
  <2>2. q.cte = "base64" /\ q.data = D
    BY <1>4, <2>1
  <2>3. D = p.data
    BY <1>5, DataIs DEF D
  <2>4. q \in PartSet
    <3>1. "base64" \in Encodings
      BY DEF Encodings
    <3>2. q = [type |-> q.type, charset |-> q.charset, head |-> q.head, cte |-> q.cte, data |-> q.data]
      BY <1>2
    <3> HIDE DEF q
    <3> QED
      BY <1>3, <1>4, <2>2, <3>1, <3>2 DEF PartSet
  <2> HIDE DEF q
  <2>5. Binary(q) /\ Data(q) = D
    BY <2>2 DEF Binary, Data
  <2>6. ~HasNull(q) /\ ~HasNull(p) /\ ~Has8Bit(q) /\ ~Has8Bit(p)
    BY <1>5, <2>5 DEF HasNull, Has8Bit
  <2>7. Alike(p, q)
    BY <1>4, <1>5, <2>5, <2>6 DEF Alike, D
  <2>8. SameContent(p, q)
    BY <1>4, <1>5, <2>2, <2>3, <2>5 DEF SameContent
  <2>9. ~BadEncoding(q)
    BY <1>4, <1>5, <2>2 DEF BadEncoding, Binary
  <2> QED
    BY <2>2, <2>4, <2>7, <2>8, <2>9 DEF GoodCopy, q
<1>6. CASE ~Binary(p)
  <2>1. SetCTE(i) = IF HasNull(p) THEN "qp" ELSE IF Has8Bit(p) THEN "8bit" ELSE "none"
    BY <1>6 DEF SetCTE, Tells
  <2>2. D = UnixText(p.data) /\ IsUnix(Bytes, D) /\ (Has(D, "0") <=> Has(p.data, "0"))
        /\ (Has(D, "8") <=> Has(p.data, "8"))
    BY <1>6, DataIs DEF D
  <2>3. /\ QuotedLines(D) \in Seq(Bytes) /\ UnixText(QuotedLines(D)) = D
        /\ Has(QuotedLines(D), "0") <=> Has(D, "0")
        /\ Has(QuotedLines(D), "8") <=> Has(D, "8")
    <3>1. "LF" \in Bytes /\ "CR" \in Bytes /\ "0" # "CR" /\ "8" # "CR"
      BY DEF Bytes
    <3>2. \A c : c # "CR" => (Has(QuotedLines(D), c) <=> Has(D, c))
      BY <2>2, <3>1, QuotedFacts
    <3>3. QuotedLines(D) \in Seq(Bytes) /\ UnixText(QuotedLines(D)) = D
      BY <2>2, <3>1, QuotedFacts
    <3> QED
      BY <3>1, <3>2, <3>3
  <2>4. UnixText(D) = D
    BY <2>2, UnixSame
  <2>5. q.data \in Seq(Bytes) /\ UnixText(q.data) = D /\ (Has(q.data, "0") <=> Has(p.data, "0"))
        /\ (Has(q.data, "8") <=> Has(p.data, "8"))
    BY <1>3, <1>4, <2>2, <2>3, <2>4
  <2>6. q.cte \in {"qp", "8bit", "none"} /\ q.cte # "base64" /\ q.cte # "odd" /\ q.cte \in Encodings
    BY <1>4, <2>1 DEF Encodings
  <2>7. q \in PartSet
    <3>1. q = [type |-> q.type, charset |-> q.charset, head |-> q.head, cte |-> q.cte, data |-> q.data]
      BY <1>2
    <3> HIDE DEF q
    <3> QED
      BY <1>3, <1>4, <2>5, <2>6, <3>1 DEF PartSet
  <2> HIDE DEF q
  <2>8. ~Binary(q) /\ Data(q) = D
    BY <2>5, <2>6 DEF Binary, Data
  <2>9. (HasNull(q) <=> HasNull(p)) /\ (Has8Bit(q) <=> Has8Bit(p))
    BY <1>6, <2>5, <2>8 DEF HasNull, Has8Bit
  <2>10. Alike(p, q)
    BY <1>4, <1>6, <2>8, <2>9 DEF Alike, D
  <2>11. SameContent(p, q)
    BY <1>4, <1>6, <2>2, <2>5, <2>8 DEF SameContent
  <2>12. HasNull(p) <=> Has(p.data, "0")
    BY <1>6 DEF HasNull
  <2>13. q.cte = "qp" <=> HasNull(p)
    BY <1>4, <2>1
  <2>14. ~BadEncoding(q)
    BY <1>4, <2>6, <2>12, <2>13 DEF BadEncoding
  <2>15. q.cte \in {"none", "8bit"} => ~Has(q.data, "0")
    BY <2>5, <2>12, <2>13
  <2> QED
    BY <2>7, <2>10, <2>11, <2>14, <2>15 DEF GoodCopy, q
<1> QED
  BY <1>5, <1>6

\* What is known of an article while it is eaten.
InfoSet == [type : STRING, charset : STRING, head : STRING, binary : BOOLEAN,
            hasNull : BOOLEAN, has8Bit : BOOLEAN, body : Int]
MessageSet == Seq(Bytes) \cup {Normalized(Data(p)) : p \in PartSet}
Got == [textprocessed : BOOLEAN, message : MessageSet, textAttachment : Nat,
        FI : Seq(Seq(Bytes)), parts : Seq(InfoSet)]

LEMMA PartInfoIs ==
    ASSUME NEW p \in PartSet, NEW b \in Int
    PROVE  PartInfo(p, b) \in InfoSet /\ PartInfo(p, b).body = b /\ Tells(PartInfo(p, b), p)
<1>1. p.type \in STRING /\ p.charset \in STRING /\ p.head \in STRING
  BY DEF PartSet
<1>2. Binary(p) \in BOOLEAN /\ HasNull(p) \in BOOLEAN /\ Has8Bit(p) \in BOOLEAN
  BY DEF Binary, HasNull, Has8Bit
<1> QED
  BY <1>1, <1>2 DEF PartInfo, InfoSet, Tells

\* The message takes the first text, and everything else is a file.
LEMMA GuttleIs ==
    ASSUME NEW got \in Got, NEW p \in PartSet
    PROVE  /\ Guttle(got, p) \in Got
           /\ How(got, p) = "message" =>
                 /\ ~got.textprocessed /\ Guttle(got, p).textprocessed
                 /\ Guttle(got, p).FI = got.FI /\ KeptAs(p, Guttle(got, p).message)
                 /\ Guttle(got, p).parts = Append(got.parts,
                        PartInfo(p, IF Guttle(got, p).message = <<>> THEN NoBody ELSE 0))
           /\ How(got, p) # "message" =>
                 /\ Guttle(got, p).FI = Append(got.FI, Data(p))
                 /\ Guttle(got, p).parts = Append(got.parts, PartInfo(p, Len(got.FI) + 1))
                 /\ got.textprocessed => Guttle(got, p).textprocessed /\ Guttle(got, p).message = got.message
<1> DEFINE s == Data(p)
           how == How(got, p)
           M == CASE how = "message" /\ Binary(p) -> s
                  [] how = "message" /\ ~Binary(p) -> TrimUnixNL(s)
                  [] how = "copied" -> Normalized(s)
                  [] OTHER -> got.message
           filed == Append(got.FI, s)
           told == [got EXCEPT !.textprocessed = @ \/ how # "file", !.message = M]
           tried == (got.textprocessed \/ how # "file")
<1>1. got.textprocessed \in BOOLEAN /\ got.message \in MessageSet /\ got.textAttachment \in Nat
      /\ got.FI \in Seq(Seq(Bytes)) /\ got.parts \in Seq(InfoSet)
  BY DEF Got
<1>2. s \in Seq(Bytes) /\ (~Binary(p) => IsUnix(Bytes, s))
  BY DataIs
<1>3. how = "message" => ~got.textprocessed
  BY DEF How
<1>4. got.textprocessed => how = "file"
  BY DEF How
<1>5. how = "message" => KeptAs(p, M)
  BY DEF KeptAs
<1>6. M \in MessageSet
  <2>1. Normalized(s) \in MessageSet
    BY DEF MessageSet
  <2>2. s \in MessageSet
    BY <1>2 DEF MessageSet
  <2>3. ~Binary(p) => TrimUnixNL(s) \in MessageSet
    <3>1. "LF" \in Bytes
      BY DEF Bytes
    <3> HIDE DEF s
    <3> QED
      BY <1>2, <3>1, TrimmedIs DEF MessageSet
  <2> HIDE DEF s, how
  <2> QED
    BY <1>1, <2>1, <2>2, <2>3
<1>7. how = "file" => M = got.message
  <2> HIDE DEF s, how
  <2> QED
    OBVIOUS
<1>8. filed \in Seq(Seq(Bytes)) /\ Len(filed) = Len(got.FI) + 1 /\ Len(got.FI) + 1 \in Nat
  <2> DEFINE B == Seq(Bytes)
  <2>1. got.FI \in Seq(B) /\ s \in B
    BY <1>1, <1>2
  <2> HIDE DEF B, s
  <2>2. filed \in Seq(B) /\ Len(filed) = Len(got.FI) + 1 /\ Len(got.FI) + 1 \in Nat
    BY <2>1
  <2> QED
    BY <2>2 DEF B
<1>9. told = [textprocessed |-> tried, message |-> M, textAttachment |-> got.textAttachment,
              FI |-> got.FI, parts |-> got.parts]
  <2>1. got = [textprocessed |-> got.textprocessed, message |-> got.message,
               textAttachment |-> got.textAttachment, FI |-> got.FI, parts |-> got.parts]
    BY DEF Got
  <2>2. told = [got EXCEPT !.textprocessed = tried, !.message = M]
    OBVIOUS
  <2> HIDE DEF M, how, tried, told
  <2> QED
    BY <2>1, <2>2
<1>10. tried \in BOOLEAN
  BY <1>1
<1>11. Guttle(got, p) =
          IF how = "message"
          THEN [told EXCEPT !.parts = Append(@, PartInfo(p, IF told.message = <<>> THEN NoBody ELSE 0))]
          ELSE [told EXCEPT !.FI = filed, !.parts = Append(@, PartInfo(p, Len(filed))),
                            !.textAttachment = IF how = "attached" THEN Len(filed) ELSE @]
  BY DEF Guttle
<1> HIDE DEF s, how, M, filed, told, tried
<1>12. CASE how = "message"
  <2> DEFINE i == PartInfo(p, IF M = <<>> THEN NoBody ELSE 0)
  <2>1. i \in InfoSet
    <3>1. (IF M = <<>> THEN NoBody ELSE 0) \in Int
      BY DEF NoBody
    <3> QED
      BY <3>1, PartInfoIs
  <2>2. told.message = M
    BY <1>9
  <2>3. Guttle(got, p) = [told EXCEPT !.parts = Append(@, i)]
    BY <1>11, <1>12, <2>2
  <2> HIDE DEF i
  <2>4. Guttle(got, p) = [textprocessed |-> tried, message |-> M, textAttachment |-> got.textAttachment,
                          FI |-> got.FI, parts |-> Append(got.parts, i)]
    BY <1>9, <2>3
  <2>5. Append(got.parts, i) \in Seq(InfoSet)
    BY <1>1, <2>1
  <2>6. Guttle(got, p) \in Got
    BY <1>1, <1>6, <1>10, <2>4, <2>5 DEF Got
  <2>7. tried
    BY <1>12 DEF tried
  <2>8. /\ ~got.textprocessed /\ Guttle(got, p).textprocessed
        /\ Guttle(got, p).FI = got.FI /\ Guttle(got, p).message = M
        /\ Guttle(got, p).parts = Append(got.parts, i)
    BY <1>3, <1>12, <2>4, <2>7
  <2>9. Guttle(got, p).parts = Append(got.parts, PartInfo(p, IF Guttle(got, p).message = <<>> THEN NoBody ELSE 0))
    BY <2>8 DEF i
  <2> QED
    BY <1>5, <1>12, <2>6, <2>8, <2>9 DEF how
<1>13. CASE how # "message"
  <2> DEFINE i == PartInfo(p, Len(got.FI) + 1)
             t == IF how = "attached" THEN Len(filed) ELSE got.textAttachment
  <2>1. i \in InfoSet
    BY <1>8, PartInfoIs
  <2>2. t \in Nat
    BY <1>1, <1>8
  <2>3. Guttle(got, p) = [told EXCEPT !.FI = filed, !.parts = Append(@, i),
                                      !.textAttachment = IF how = "attached" THEN Len(filed) ELSE @]
    BY <1>8, <1>11, <1>13
  <2>4. Guttle(got, p) = [textprocessed |-> tried, message |-> M, textAttachment |-> t,
                          FI |-> filed, parts |-> Append(got.parts, i)]
    <3> HIDE DEF i
    <3> QED
      BY <1>9, <2>3
  <2> HIDE DEF i, t
  <2>5. Append(got.parts, i) \in Seq(InfoSet)
    BY <1>1, <2>1
  <2>6. Guttle(got, p) \in Got
    BY <1>6, <1>8, <1>10, <2>2, <2>4, <2>5 DEF Got
  <2>7. got.textprocessed => tried
    BY DEF tried
  <2>8. /\ Guttle(got, p).FI = filed /\ Guttle(got, p).parts = Append(got.parts, i)
        /\ got.textprocessed => Guttle(got, p).textprocessed /\ Guttle(got, p).message = got.message
    BY <1>4, <1>7, <2>4, <2>7
  <2> QED
    BY <1>13, <2>6, <2>8 DEF how, i, filed, s
<1> QED
  BY <1>12, <1>13

\* Parts that are alike are eaten in the same way.
LEMMA GuttleAlike ==
    ASSUME NEW p \in PartSet, NEW q \in PartSet, Alike(p, q), NEW got
    PROVE  Guttle(got, q) = Guttle(got, p) /\ \A b : PartInfo(q, b) = PartInfo(p, b)
<1>1. /\ q.type = p.type /\ q.charset = p.charset /\ q.head = p.head /\ Data(q) = Data(p)
      /\ Binary(q) <=> Binary(p)
  BY DEF Alike
<1>2. Binary(q) = Binary(p) /\ HasNull(q) = HasNull(p) /\ Has8Bit(q) = Has8Bit(p)
  BY DEF Alike, Binary, HasNull, Has8Bit
<1>3. \A b : PartInfo(q, b) = PartInfo(p, b)
  BY <1>1, <1>2 DEF PartInfo
<1>4. \A s : Readable(q, s) <=> Readable(p, s)
  BY <1>1 DEF Readable
<1>5. AsMessage(q, Data(q)) = AsMessage(p, Data(p))
  BY <1>1, <1>4 DEF AsMessage
<1>6. How(got, q) = How(got, p)
  BY <1>1, <1>5 DEF How
<1>7. Guttle(got, q) = Guttle(got, p)
  <2> DEFINE s == Data(p)
             how == How(got, p)
             M(x) == CASE how = "message" /\ Binary(x) -> s
                       [] how = "message" /\ ~Binary(x) -> TrimUnixNL(s)
                       [] how = "copied" -> Normalized(s)
                       [] OTHER -> got.message
             T(m) == [got EXCEPT !.textprocessed = @ \/ how # "file", !.message = m]
             R(t, x) == IF how = "message"
                        THEN [t EXCEPT !.parts = Append(@, PartInfo(x, IF t.message = <<>> THEN NoBody ELSE 0))]
                        ELSE [t EXCEPT !.FI = Append(got.FI, s), !.parts = Append(@, PartInfo(x, Len(Append(got.FI, s)))),
                                       !.textAttachment = IF how = "attached" THEN Len(Append(got.FI, s)) ELSE @]
  <2>1. Guttle(got, p) = R(T(M(p)), p)
    BY DEF Guttle
  <2>2. Guttle(got, q) = R(T(M(q)), q)
    BY <1>1, <1>6 DEF Guttle
  <2>3. M(q) = M(p)
    <3> HIDE DEF s, how
    <3> QED
      BY <1>1
  <2>4. ASSUME NEW t PROVE R(t, q) = R(t, p)
    <3>1. PartInfo(q, IF t.message = <<>> THEN NoBody ELSE 0) = PartInfo(p, IF t.message = <<>> THEN NoBody ELSE 0)
      BY <1>3
    <3>2. PartInfo(q, Len(Append(got.FI, s))) = PartInfo(p, Len(Append(got.FI, s)))
      BY <1>3
    <3> HIDE DEF s, how
    <3> QED
      BY <3>1, <3>2
  <2> HIDE DEF M, T, R
  <2> QED
    BY <2>1, <2>2, <2>3, <2>4
<1> QED
  BY <1>3, <1>7

\* What is known after each part.
Meals(ps, g) ==
    /\ g \in [0 .. Len(ps) -> Got] /\ g[0] = Nothing
    /\ \A n \in 0 .. Len(ps) - 1 : g[n + 1] = Guttle(g[n], ps[n + 1])

LEMMA GuttledIs ==
    ASSUME NEW ps \in Seq(PartSet)
    PROVE  \E g : Meals(ps, g) /\ Guttled(ps) = g[Len(ps)]
<1> DEFINE L == Len(ps)
           upTo[n \in 0 .. Len(ps)] == IF n = 0 THEN Nothing ELSE Guttle(upTo[n - 1], ps[n])
           F(f) == [n \in 0 .. L |-> IF n = 0 THEN Nothing ELSE Guttle(f[n - 1], ps[n])]
           op == [x \in Nat \X Got |-> Guttle(x[2], ps[x[1] + 1])]
<1>1. L \in Nat /\ \A n \in 1 .. L : ps[n] \in PartSet
  OBVIOUS
<1>2. \A i \in Nat, v \in Got : op[<<i, v>>] = Guttle(v, ps[i + 1])
  OBVIOUS
<1>3. Nothing \in Got
  <2>1. <<>> \in MessageSet
    BY DEF MessageSet
  <2>2. <<>> \in Seq(InfoSet) /\ 0 \in Nat
    OBVIOUS
  <2>3. <<>> \in Seq(Seq(Bytes))
    OBVIOUS
  <2> QED
    BY <2>1, <2>2, <2>3 DEF Nothing, Got
<1> HIDE DEF op, L
<1>4. StepTo(L, Got, op)
  <2>1. ASSUME NEW i \in 0 .. L - 1, NEW v \in Got PROVE op[<<i, v>>] \in Got
    <3>1. i \in Nat /\ i + 1 \in 1 .. L
      BY <1>1
    <3>2. Guttle(v, ps[i + 1]) \in Got
      BY <1>1, <3>1, GuttleIs
    <3> QED
      BY <1>2, <3>1, <3>2
  <2> QED
    BY <2>1 DEF StepTo
<1>5. PICK g : RunTo(L, Got, Nothing, op, g)
  BY <1>1, <1>3, <1>4, RecursionTo
<1>6. g \in [0 .. L -> Got] /\ g[0] = Nothing /\ \A i \in 0 .. L - 1 : g[i + 1] = op[<<i, g[i]>>]
  BY <1>5 DEF RunTo
<1>7. \A i \in 0 .. L - 1 : g[i + 1] = Guttle(g[i], ps[i + 1])
  <2>1. TAKE i \in 0 .. L - 1
  <2>2. i \in Nat /\ i \in 0 .. L
    BY <1>1
  <2>3. g[i] \in Got
    BY <1>6, <2>2
  <2> QED
    BY <1>2, <1>6, <2>2, <2>3
<1>8. Meals(ps, g)
  BY <1>6, <1>7 DEF Meals, L
<1>9. g = F(g)
  <2>1. ASSUME NEW n \in 0 .. L PROVE g[n] = IF n = 0 THEN Nothing ELSE Guttle(g[n - 1], ps[n])
    <3>1. CASE n = 0
      BY <1>6, <3>1
    <3>2. CASE n # 0
      <4>1. n - 1 \in 0 .. L - 1 /\ (n - 1) + 1 = n
        BY <1>1, <3>2
      <4>2. g[(n - 1) + 1] = Guttle(g[n - 1], ps[(n - 1) + 1])
        BY <1>7, <4>1
      <4> QED
        BY <3>2, <4>1, <4>2
    <3> QED
      BY <3>1, <3>2
  <2>2. g = [n \in 0 .. L |-> g[n]]
    BY <1>6
  <2> QED
    BY <2>1, <2>2
<1>10. upTo = F(upTo)
  <2>1. upTo = CHOOSE k : k = F(k)
    BY DEF L
  <2> HIDE DEF F, upTo
  <2> QED
    BY <1>9, <2>1
<1>11. Guttled(ps) = upTo[L]
  BY DEF Guttled, L
<1>12. ASSUME NEW k, k = F(k) PROVE k[L] = g[L]
  <2>1. \A n \in 0 .. L : k[n] = IF n = 0 THEN Nothing ELSE Guttle(k[n - 1], ps[n])
    BY <1>12
  <2> DEFINE S == {n \in Nat : n <= L => k[n] = g[n]}
  <2> HIDE DEF F
  <2>2. 0 \in S
    BY <1>1, <1>6, <2>1
  <2>3. ASSUME NEW n \in Nat, n \in S PROVE n + 1 \in S
    <3>1. SUFFICES ASSUME n + 1 <= L PROVE k[n + 1] = g[n + 1]
      OBVIOUS
    <3>2. n \in 0 .. L - 1 /\ n + 1 \in 0 .. L /\ n + 1 # 0 /\ (n + 1) - 1 = n /\ n <= L
      BY <1>1, <3>1
    <3>3. k[n] = g[n]
      BY <2>3, <3>2
    <3>4. k[n + 1] = Guttle(k[n], ps[n + 1])
      BY <2>1, <3>2
    <3> QED
      BY <1>7, <3>2, <3>3, <3>4
  <2>4. Nat \subseteq S
    <3> HIDE DEF S
    <3> QED
      BY <2>2, <2>3, Induct
  <2> QED
    BY <1>1, <2>4
<1>13. upTo[L] = g[L]
  <2> HIDE DEF F, upTo
  <2> QED
    BY <1>10, <1>12
<1> QED
  <2> HIDE DEF upTo, F
  <2> QED
    BY <1>8, <1>11, <1>13 DEF L

AllAlike(ps, qs) == Len(qs) = Len(ps) /\ \A k \in 1 .. Len(ps) : Alike(ps[k], qs[k])

LEMMA GuttledAlike ==
    ASSUME NEW ps \in Seq(PartSet), NEW qs \in Seq(PartSet), AllAlike(ps, qs)
    PROVE  Guttled(qs) = Guttled(ps)
<1> DEFINE L == Len(ps)
<1>1. L \in Nat /\ Len(qs) = L /\ \A k \in 1 .. L : ps[k] \in PartSet /\ qs[k] \in PartSet /\ Alike(ps[k], qs[k])
  BY DEF AllAlike
<1>2. PICK g : Meals(ps, g) /\ Guttled(ps) = g[Len(ps)]
  BY GuttledIs
<1>3. PICK h : Meals(qs, h) /\ Guttled(qs) = h[Len(qs)]
  BY GuttledIs
<1>4. g[0] = Nothing /\ h[0] = Nothing
      /\ \A n \in 0 .. L - 1 : g[n + 1] = Guttle(g[n], ps[n + 1]) /\ h[n + 1] = Guttle(h[n], qs[n + 1])
  BY <1>1, <1>2, <1>3 DEF Meals
<1> HIDE DEF L
<1> DEFINE S == {n \in Nat : n <= L => h[n] = g[n]}
<1>5. 0 \in S
  BY <1>4
<1>6. ASSUME NEW n \in Nat, n \in S PROVE n + 1 \in S
  <2>1. SUFFICES ASSUME n + 1 <= L PROVE h[n + 1] = g[n + 1]
    OBVIOUS
  <2>2. n \in 0 .. L - 1 /\ n + 1 \in 1 .. L /\ n <= L
    BY <1>1, <2>1
  <2>3. h[n] = g[n]
    BY <1>6, <2>2
  <2>4. Guttle(g[n], qs[n + 1]) = Guttle(g[n], ps[n + 1])
    BY <1>1, <2>2, GuttleAlike
  <2> QED
    BY <1>4, <2>2, <2>3, <2>4
<1>7. Nat \subseteq S
  <2> HIDE DEF S
  <2> QED
    BY <1>5, <1>6, Induct
<1>8. h[L] = g[L]
  BY <1>1, <1>7
<1> QED
  BY <1>1, <1>2, <1>3, <1>8 DEF L

\* Where the body of a part is: in a file of its own, or it is the message.
BodyOK(got, p, b) ==
    \/ b \in 1 .. Len(got.FI) /\ got.FI[b] = Data(p)
    \/ /\ b \in {0, NoBody} /\ got.textprocessed /\ KeptAs(p, got.message)
       /\ b = NoBody <=> got.message = <<>>
PartAt(got, p, k) ==
    got.parts[k] = PartInfo(p, got.parts[k].body) /\ BodyOK(got, p, got.parts[k].body)
EatenOK(got, ps, n) == Len(got.parts) = n /\ \A k \in 1 .. n : PartAt(got, ps[k], k)

LEMMA OneMore ==
    ASSUME NEW got \in Got, NEW ps \in Seq(PartSet), NEW n \in Nat, n + 1 <= Len(ps), EatenOK(got, ps, n)
    PROVE  EatenOK(Guttle(got, ps[n + 1]), ps, n + 1)
<1> DEFINE p == ps[n + 1]
           r == Guttle(got, p)
<1>1. p \in PartSet
  OBVIOUS
<1>2. got.parts \in Seq(InfoSet) /\ got.FI \in Seq(Seq(Bytes)) /\ Len(got.FI) \in Nat
  <2>1. got.parts \in Seq(InfoSet) /\ got.FI \in Seq(Seq(Bytes))
    BY DEF Got
  <2> QED
    BY <2>1
<1>3. Len(got.parts) = n /\ \A k \in 1 .. n : PartAt(got, ps[k], k)
  BY DEF EatenOK
<1> HIDE DEF p
<1>4. r \in Got
  BY <1>1, GuttleIs
<1>5. ASSUME NEW i \in InfoSet, r.parts = Append(got.parts, i)
      PROVE  Len(r.parts) = n + 1 /\ r.parts[n + 1] = i /\ \A k \in 1 .. n : r.parts[k] = got.parts[k]
  BY <1>2, <1>3, <1>5
<1>6. CASE How(got, p) = "message"
  <2> DEFINE b == IF r.message = <<>> THEN NoBody ELSE 0
  <2>1. /\ ~got.textprocessed /\ r.textprocessed /\ r.FI = got.FI /\ KeptAs(p, r.message)
        /\ r.parts = Append(got.parts, PartInfo(p, b))
    BY <1>1, <1>6, GuttleIs
  <2> HIDE DEF r
  <2>2. b \in Int /\ b \in {0, NoBody} /\ (b = NoBody <=> r.message = <<>>)
    BY DEF NoBody
  <2> HIDE DEF b
  <2>3. PartInfo(p, b) \in InfoSet /\ PartInfo(p, b).body = b
    BY <1>1, <2>2, PartInfoIs
  <2>4. Len(r.parts) = n + 1 /\ r.parts[n + 1] = PartInfo(p, b) /\ \A k \in 1 .. n : r.parts[k] = got.parts[k]
    BY <1>5, <2>1, <2>3
  <2>5. BodyOK(r, p, b)
    BY <2>1, <2>2 DEF BodyOK
  <2>6. PartAt(r, p, n + 1)
    BY <2>3, <2>4, <2>5 DEF PartAt
  <2>7. ASSUME NEW k \in 1 .. n PROVE PartAt(r, ps[k], k)
    <3>1. PartAt(got, ps[k], k) /\ r.parts[k] = got.parts[k]
      BY <1>3, <2>4
    <3>2. BodyOK(r, ps[k], got.parts[k].body)
      BY <2>1, <3>1 DEF PartAt, BodyOK
    <3> QED
      BY <3>1, <3>2 DEF PartAt
  <2>8. \A k \in 1 .. n + 1 : PartAt(r, ps[k], k)
    <3>1. TAKE k \in 1 .. n + 1
    <3>2. k = n + 1 \/ k \in 1 .. n
      OBVIOUS
    <3> QED
      BY <2>6, <2>7, <3>2 DEF p
  <2> QED
    BY <2>4, <2>8 DEF EatenOK, r, p
<1>7. CASE How(got, p) # "message"
  <2> DEFINE b == Len(got.FI) + 1
  <2>1. /\ r.FI = Append(got.FI, Data(p)) /\ r.parts = Append(got.parts, PartInfo(p, b))
        /\ got.textprocessed => r.textprocessed /\ r.message = got.message
    BY <1>1, <1>7, GuttleIs
  <2>2. Data(p) \in Seq(Bytes)
    BY <1>1, DataIs
  <2> HIDE DEF r
  <2>3. Len(r.FI) = b /\ r.FI[b] = Data(p) /\ \A j \in 1 .. Len(got.FI) : r.FI[j] = got.FI[j]
    <3> DEFINE B == Seq(Bytes)
    <3>1. got.FI \in Seq(B) /\ Data(p) \in B
      BY <1>2, <2>2
    <3> HIDE DEF B
    <3> QED
      BY <2>1, <3>1
  <2>4. b \in Int /\ b \in 1 .. b
    BY <1>2
  <2> HIDE DEF b
  <2>5. PartInfo(p, b) \in InfoSet /\ PartInfo(p, b).body = b
    BY <1>1, <2>4, PartInfoIs
  <2>6. Len(r.parts) = n + 1 /\ r.parts[n + 1] = PartInfo(p, b) /\ \A k \in 1 .. n : r.parts[k] = got.parts[k]
    BY <1>5, <2>1, <2>5
  <2>7. BodyOK(r, p, b)
    BY <2>3, <2>4 DEF BodyOK
  <2>8. PartAt(r, p, n + 1)
    BY <2>5, <2>6, <2>7 DEF PartAt
  <2>9. ASSUME NEW k \in 1 .. n PROVE PartAt(r, ps[k], k)
    <3>1. PartAt(got, ps[k], k) /\ r.parts[k] = got.parts[k]
      BY <1>3, <2>6
    <3>2. BodyOK(r, ps[k], got.parts[k].body)
      <4> DEFINE c == got.parts[k].body
      <4>1. BodyOK(got, ps[k], c)
        BY <3>1 DEF PartAt
      <4> HIDE DEF c
      <4>2. CASE c \in 1 .. Len(got.FI) /\ got.FI[c] = Data(ps[k])
        <5>1. c \in 1 .. Len(r.FI) /\ r.FI[c] = Data(ps[k])
          BY <1>2, <2>3, <4>2 DEF b
        <5> QED
          BY <5>1 DEF BodyOK, c
      <4>3. CASE ~(c \in 1 .. Len(got.FI) /\ got.FI[c] = Data(ps[k]))
        BY <2>1, <4>1, <4>3 DEF BodyOK, c
      <4> QED
        BY <4>2, <4>3 DEF c
    <3> QED
      BY <3>1, <3>2 DEF PartAt
  <2>10. \A k \in 1 .. n + 1 : PartAt(r, ps[k], k)
    <3>1. TAKE k \in 1 .. n + 1
    <3>2. k = n + 1 \/ k \in 1 .. n
      OBVIOUS
    <3> QED
      BY <2>8, <2>9, <3>2 DEF p
  <2> QED
    BY <2>6, <2>10 DEF EatenOK, r, p
<1> QED
  BY <1>6, <1>7

\* After the last part all of them are there.
LEMMA AllEaten ==
    ASSUME NEW ps \in Seq(PartSet)
    PROVE  Guttled(ps) \in Got /\ EatenOK(Guttled(ps), ps, Len(ps))
<1>1. PICK g : Meals(ps, g) /\ Guttled(ps) = g[Len(ps)]
  BY GuttledIs
<1> DEFINE L == Len(ps)
<1>2. L \in Nat
  OBVIOUS
<1>3. g \in [0 .. L -> Got] /\ g[0] = Nothing /\ \A n \in 0 .. L - 1 : g[n + 1] = Guttle(g[n], ps[n + 1])
  BY <1>1 DEF Meals
<1> DEFINE S == {n \in Nat : n <= L => EatenOK(g[n], ps, n)}
<1>4. 0 \in S
  BY <1>3 DEF EatenOK, Nothing
<1>5. ASSUME NEW n \in Nat, n \in S PROVE n + 1 \in S
  <2>1. SUFFICES ASSUME n + 1 <= L PROVE EatenOK(g[n + 1], ps, n + 1)
    OBVIOUS
  <2>2. n \in 0 .. L - 1 /\ n \in 0 .. L /\ n <= L
    BY <1>2, <2>1
  <2>3. EatenOK(g[n], ps, n) /\ g[n] \in Got
    BY <1>3, <1>5, <2>2
  <2>4. EatenOK(Guttle(g[n], ps[n + 1]), ps, n + 1)
    BY <2>1, <2>3, OneMore
  <2> QED
    BY <1>3, <2>2, <2>4
<1>6. Nat \subseteq S
  <2> HIDE DEF S, L
  <2> QED
    BY <1>4, <1>5, Induct
<1>7. EatenOK(g[L], ps, L) /\ g[L] \in Got
  BY <1>2, <1>3, <1>6
<1> QED
  BY <1>1, <1>7

\* An article that this code can pass on and has taken in.
Passes(a) ==
    /\ Whole(a)
    /\ a.form = "parts" => a.parts # <<>> /\ \A k \in DOMAIN a.parts : a.parts[k].head # "long"
    /\ \A k \in DOMAIN a.parts : ~(a.parts[k].type = "multi" /\ Has(a.parts[k].data, "0"))
    /\ a.form = "message" => ~Binary(a.parts[1])
    /\ \A k \in DOMAIN a.parts : ~BadEncoding(a.parts[k])

\* What is stored tells of each part and has what it says.
Keeps(a, row) ==
    /\ row.form = a.form /\ row.title = Title(a.subject) /\ row.subject = SubjectHeader(a.subject)
    /\ DOMAIN row.parts = 1 .. Len(a.parts)
    /\ \A k \in 1 .. Len(a.parts) :
          Tells(row.parts[k], a.parts[k]) /\ KeptAs(a.parts[k], Source(row, row.parts[k]))

LEMMA ByJSONIs ==
    ASSUME NEW p \in PartSet, NEW b \in Int, NEW got, BodyOK(got, p, b), NEW row,
           row.message = got.message, row.FI = got.FI, Len(got.FI) \in Nat
    PROVE  Tells(ByJSON(PartInfo(p, b)), p) /\ KeptAs(p, Source(row, ByJSON(PartInfo(p, b))))
<1> DEFINE i == PartInfo(p, b)
           j == ByJSON(i)
<1>1. i.body = b /\ Tells(i, p)
  BY PartInfoIs
<1>2. i = [type |-> i.type, charset |-> i.charset, head |-> i.head, binary |-> i.binary,
           hasNull |-> i.hasNull, has8Bit |-> i.has8Bit, body |-> i.body]
  BY DEF PartInfo
<1> HIDE DEF i
<1>3. j = i \/ (b = NoBody /\ j = [i EXCEPT !.body = 0])
  BY <1>1 DEF ByJSON
<1> HIDE DEF j
<1>4. j.type = i.type /\ j.charset = i.charset /\ j.head = i.head /\ j.binary = i.binary
      /\ j.hasNull = i.hasNull /\ j.has8Bit = i.has8Bit
      /\ (j.body = b \/ (b = NoBody /\ j.body = 0))
  BY <1>1, <1>2, <1>3
<1>5. Tells(j, p)
  BY <1>1, <1>4 DEF Tells
<1>6. CASE b \in 1 .. Len(got.FI) /\ got.FI[b] = Data(p)
  <2>1. b # NoBody /\ b # 0
    BY <1>6 DEF NoBody
  <2>2. Source(row, j) = Data(p)
    BY <1>4, <1>6, <2>1 DEF Source
  <2> QED
    BY <1>5, <2>2 DEF KeptAs, i, j
<1>7. CASE b \in {0, NoBody} /\ KeptAs(p, got.message) /\ (b = NoBody <=> got.message = <<>>)
  <2>1. j.body \in {0, NoBody} /\ (j.body = NoBody => got.message = <<>>)
    BY <1>4, <1>7
  <2>2. 0 # NoBody
    BY DEF NoBody
  <2>3. Source(row, j) = got.message
    BY <2>1, <2>2 DEF Source
  <2> QED
    BY <1>5, <1>7, <2>3 DEF i, j
<1> QED
  BY <1>6, <1>7 DEF BodyOK

LEMMA HeldKeeps ==
    ASSUME NEW a, Passes(a)
    PROVE  Keeps(a, Stored(Devour(a)))
<1> DEFINE row == Devour(a)
           eaten == IF a.form = "message" THEN GuttleInner(a.parts[1]) ELSE Guttled(a.parts)
           H == [row EXCEPT !.parts = [k \in DOMAIN row.parts |-> ByJSON(row.parts[k])]]
           n == Len(a.parts)
<1>1. /\ a.parts \in Seq(PartSet) /\ n \in Nat /\ \A k \in 1 .. n : a.parts[k] \in PartSet
      /\ a.form \in {"single", "parts", "message"} /\ n >= 1 /\ (a.form = "message" => n = 1)
  <2>1. a.parts \in Seq(PartSet) /\ a.form \in {"single", "parts", "message"}
        /\ (a.form # "parts" => n = 1) /\ (a.form = "parts" => a.parts # <<>>)
    BY DEF Passes, Whole
  <2>2. \A ps \in Seq(PartSet) : Len(ps) \in Nat /\ (ps # <<>> => Len(ps) >= 1)
                                /\ \A k \in 1 .. Len(ps) : ps[k] \in PartSet
    OBVIOUS
  <2>3. n \in Nat /\ (a.parts # <<>> => n >= 1) /\ \A k \in 1 .. n : a.parts[k] \in PartSet
    BY <2>1, <2>2
  <2> HIDE DEF n
  <2> QED
    BY <2>1, <2>3
<1>2. row = [form |-> a.form, title |-> Title(a.subject), subject |-> SubjectHeader(a.subject),
             message |-> eaten.message, FI |-> eaten.FI, parts |-> eaten.parts,
             textAttachment |-> eaten.textAttachment]
  BY DEF Devour
<1> HIDE DEF row, eaten, n
<1>3. /\ Len(eaten.FI) \in Nat /\ DOMAIN eaten.parts = 1 .. n
      /\ \A k \in 1 .. n : /\ Tells(ByJSON(eaten.parts[k]), a.parts[k])
                           /\ \A r : r.message = eaten.message /\ r.FI = eaten.FI =>
                                 KeptAs(a.parts[k], Source(r, ByJSON(eaten.parts[k])))
  <2>1. CASE a.form = "message"
    <3> DEFINE p == a.parts[1]
               i == PartInfo(p, 2)
    <3>1. p \in PartSet /\ ~Binary(p) /\ n = 1
      BY <1>1, <2>1 DEF Passes
    <3>2. eaten = [Nothing EXCEPT !.FI = <<InnerFile, Data(p)>>, !.parts = <<[i EXCEPT !.binary = FALSE]>>]
      BY <2>1 DEF eaten, GuttleInner
    <3>3. i.body = 2 /\ Tells(i, p)
      BY <3>1, PartInfoIs
    <3>4. [i EXCEPT !.binary = FALSE] = i
      <4>1. i.binary = FALSE
        BY <3>1 DEF PartInfo, Binary
      <4>2. i = [type |-> i.type, charset |-> i.charset, head |-> i.head, binary |-> i.binary,
                 hasNull |-> i.hasNull, has8Bit |-> i.has8Bit, body |-> i.body]
        BY DEF PartInfo
      <4> HIDE DEF i
      <4> QED
        BY <4>1, <4>2
    <3> HIDE DEF i, p
    <3>5. eaten.FI = <<InnerFile, Data(p)>> /\ eaten.parts = <<i>>
      BY <3>2, <3>4 DEF Nothing
    <3>6. Len(eaten.FI) = 2 /\ eaten.FI[2] = Data(p) /\ DOMAIN eaten.parts = 1 .. 1 /\ eaten.parts[1] = i
      BY <3>5
    <3>7. ByJSON(i) = i
      BY <3>3 DEF ByJSON, NoBody
    <3>8. ASSUME NEW r, r.FI = eaten.FI PROVE KeptAs(p, Source(r, i))
      <4>1. Source(r, i) = Data(p)
        BY <3>3, <3>6, <3>8 DEF Source, NoBody
      <4> QED
        BY <4>1 DEF KeptAs
    <3>9. \A k \in 1 .. n : k = 1
      BY <3>1
    <3> QED
      BY <3>1, <3>3, <3>6, <3>7, <3>8, <3>9 DEF p
  <2>2. CASE a.form # "message"
    <3>1. eaten = Guttled(a.parts)
      BY <2>2 DEF eaten
    <3>2. eaten \in Got /\ EatenOK(eaten, a.parts, n)
      BY <1>1, <3>1, AllEaten DEF n
    <3>3. eaten.parts \in Seq(InfoSet) /\ eaten.FI \in Seq(Seq(Bytes))
      BY <3>2 DEF Got
    <3>4. Len(eaten.FI) \in Nat
      <4> DEFINE B == Seq(Bytes)
      <4>1. eaten.FI \in Seq(B)
        BY <3>3
      <4> HIDE DEF B
      <4> QED
        BY <4>1
    <3>5. DOMAIN eaten.parts = 1 .. n
      BY <3>2, <3>3 DEF EatenOK
    <3>6. ASSUME NEW k \in 1 .. n
          PROVE  /\ Tells(ByJSON(eaten.parts[k]), a.parts[k])
                 /\ \A r : r.message = eaten.message /\ r.FI = eaten.FI =>
                           KeptAs(a.parts[k], Source(r, ByJSON(eaten.parts[k])))
      <4> DEFINE b == eaten.parts[k].body
      <4>1. PartAt(eaten, a.parts[k], k) /\ a.parts[k] \in PartSet
        BY <1>1, <3>2 DEF EatenOK
      <4>2. eaten.parts[k] \in InfoSet
        <5> DEFINE s == eaten.parts
        <5>1. s \in Seq(InfoSet) /\ k \in DOMAIN s
          BY <3>3, <3>5
        <5> HIDE DEF s
        <5>2. s[k] \in InfoSet
          BY <5>1
        <5> QED
          BY <5>2 DEF s
      <4>3. b \in Int
        BY <4>2 DEF InfoSet
      <4>4. eaten.parts[k] = PartInfo(a.parts[k], b) /\ BodyOK(eaten, a.parts[k], b)
        BY <4>1 DEF PartAt
      <4> HIDE DEF b
      <4>5. \A r : r.message = eaten.message /\ r.FI = eaten.FI =>
                      /\ Tells(ByJSON(eaten.parts[k]), a.parts[k])
                      /\ KeptAs(a.parts[k], Source(r, ByJSON(eaten.parts[k])))
        BY <3>4, <4>1, <4>3, <4>4, ByJSONIs
      <4> QED
        BY <4>5
    <3> QED
      BY <3>4, <3>5, <3>6
  <2> QED
    BY <2>1, <2>2
<1>4. Stored(row) = H
  <2>1. row.parts # <<>>
    <3>1. 1 \in DOMAIN row.parts
      BY <1>1, <1>2, <1>3
    <3> QED
      BY <3>1
  <2> QED
    BY <2>1 DEF Stored
<1>5. H = [form |-> a.form, title |-> Title(a.subject), subject |-> SubjectHeader(a.subject),
           message |-> eaten.message, FI |-> eaten.FI,
           parts |-> [k \in DOMAIN eaten.parts |-> ByJSON(eaten.parts[k])],
           textAttachment |-> eaten.textAttachment]
  BY <1>2
<1> HIDE DEF H
<1>6. /\ H.form = a.form /\ H.title = Title(a.subject) /\ H.subject = SubjectHeader(a.subject)
      /\ H.message = eaten.message /\ H.FI = eaten.FI
      /\ DOMAIN H.parts = 1 .. n /\ \A k \in 1 .. n : H.parts[k] = ByJSON(eaten.parts[k])
  BY <1>3, <1>5
<1>7. \A k \in 1 .. n : Tells(H.parts[k], a.parts[k]) /\ KeptAs(a.parts[k], Source(H, H.parts[k]))
  BY <1>3, <1>6
<1> QED
  BY <1>4, <1>6, <1>7 DEF Keeps, row, n

\* What is generated of what is stored.
LEMMA GeneratedIs ==
    ASSUME NEW a, Passes(a), NEW H, Keeps(a, H)
    PROVE  /\ ~CannotWrite(H) /\ Whole(GenerateMessage(H))
           /\ GenerateMessage(H).form = a.form /\ GenerateMessage(H).subject = a.subject
           /\ Len(GenerateMessage(H).parts) = Len(a.parts)
           /\ \A k \in 1 .. Len(a.parts) : GoodCopy(a.parts[k], GenerateMessage(H).parts[k])
<1> DEFINE n == Len(a.parts)
           G == GenerateMessage(H)
<1>1. a.parts \in Seq(PartSet) /\ n \in Nat /\ (\A k \in 1 .. n : a.parts[k] \in PartSet) /\ DOMAIN a.parts = 1 .. n
  <2>1. a.parts \in Seq(PartSet)
    BY DEF Passes, Whole
  <2> QED
    BY <2>1
<1>2. H.form = a.form /\ DOMAIN H.parts = 1 .. n
      /\ \A k \in 1 .. n : Tells(H.parts[k], a.parts[k]) /\ KeptAs(a.parts[k], Source(H, H.parts[k]))
  BY DEF Keeps
<1> HIDE DEF n
<1>3. ~CannotWrite(H)
  <2>1. ASSUME NEW k \in 1 .. n, H.form = "parts" PROVE H.parts[k].head # "long"
    <3>1. H.parts[k].head = a.parts[k].head
      BY <1>2 DEF Tells
    <3>2. a.parts[k].head # "long"
      BY <1>1, <1>2, <2>1 DEF Passes
    <3> QED
      BY <3>1, <3>2
  <2> QED
    BY <1>2, <2>1 DEF CannotWrite
<1>4. G = [form |-> H.form, subject |-> IF H.subject = NoSubject THEN H.title ELSE H.subject,
           parts |-> [k \in 1 .. n |-> Generated(H, H.parts[k])]]
  BY <1>2 DEF GenerateMessage
<1>5. G.form = a.form /\ (\A k \in 1 .. n : G.parts[k] = Generated(H, H.parts[k])) /\ DOMAIN G.parts = 1 .. n
      /\ G.parts = [k \in 1 .. n |-> G.parts[k]]
  BY <1>2, <1>4
<1>6. G.subject = a.subject
  <2>1. G.subject = IF H.subject = NoSubject THEN H.title ELSE H.subject
    BY <1>4
  <2>2. H.title = Title(a.subject) /\ H.subject = IF a.subject = Title(a.subject) THEN NoSubject ELSE a.subject
    BY DEF Keeps, SubjectHeader
  <2>3. a.subject = NoSubject => Title(a.subject) = NoSubject
    BY DEF Title, NoSubject
  <2> HIDE DEF G
  <2> QED
    BY <2>1, <2>2, <2>3
<1>7. ASSUME NEW k \in 1 .. n PROVE GoodCopy(a.parts[k], Generated(H, H.parts[k]))
  <2>1. a.parts[k] \in PartSet /\ ~BadEncoding(a.parts[k])
        /\ ~(a.parts[k].type = "multi" /\ Has(a.parts[k].data, "0"))
    BY <1>1 DEF Passes
  <2> QED
    BY <1>2, <2>1, PartPassed
<1>8. \A k \in 1 .. n : GoodCopy(a.parts[k], G.parts[k])
  <2> HIDE DEF G
  <2> QED
    BY <1>5, <1>7
<1>9. \A k \in 1 .. n : G.parts[k] \in PartSet
  BY <1>8 DEF GoodCopy
<1>10. G = [form |-> G.form, subject |-> G.subject, parts |-> G.parts]
  BY <1>4
<1> HIDE DEF G
<1>11. G.parts \in Seq(PartSet) /\ Len(G.parts) = n
  <2>1. G.parts \in [1 .. n -> PartSet]
    BY <1>5, <1>9
  <2> QED
    BY <1>1, <2>1
<1>12. Whole(G)
  <2>1. a.form \in {"single", "parts", "message"} /\ (a.form # "parts" => n = 1)
    BY DEF Passes, Whole, n
  <2> QED
    BY <1>5, <1>10, <1>11, <2>1 DEF Whole
<1> QED
  BY <1>3, <1>5, <1>6, <1>8, <1>11, <1>12 DEF G, n

\* What is generated is stored as it was.
LEMMA StoredAgain ==
    ASSUME NEW a, Passes(a), NEW b, Whole(b), b.form = a.form, b.subject = a.subject,
           Len(b.parts) = Len(a.parts), \A k \in 1 .. Len(a.parts) : GoodCopy(a.parts[k], b.parts[k])
    PROVE  Devour(b) = Devour(a)
<1>1. a.parts \in Seq(PartSet) /\ b.parts \in Seq(PartSet) /\ (a.form = "message" => Len(a.parts) = 1)
  BY DEF Passes, Whole
<1>2. AllAlike(a.parts, b.parts)
  BY DEF GoodCopy, AllAlike
<1>3. Guttled(b.parts) = Guttled(a.parts)
  BY <1>1, <1>2, GuttledAlike
<1>4. a.form = "message" => GuttleInner(b.parts[1]) = GuttleInner(a.parts[1])
  <2>1. SUFFICES ASSUME a.form = "message" PROVE GuttleInner(b.parts[1]) = GuttleInner(a.parts[1])
    OBVIOUS
  <2> DEFINE p == a.parts[1]
             q == b.parts[1]
  <2>2. Alike(p, q) /\ p \in PartSet /\ q \in PartSet
    BY <1>1, <1>2, <2>1 DEF AllAlike
  <2>3. Data(q) = Data(p) /\ PartInfo(q, 2) = PartInfo(p, 2)
    BY <2>2, GuttleAlike DEF Alike
  <2> HIDE DEF p, q
  <2>4. GuttleInner(q) = GuttleInner(p)
    BY <2>3 DEF GuttleInner
  <2> QED
    BY <2>4 DEF p, q
<1> QED
  BY <1>3, <1>4 DEF Devour

\* What the servers have had, as far as the article has come.
FirstRow == Stored(Devour(article))
SentOn == GenerateMessage(FirstRow)

PassInv ==
    /\ Whole(article) /\ passing \in {"sent", "kept", "refused", "failed"}
    /\ \/ held = <<>> /\ passing \in {"sent", "refused"} /\ onWire = article
       \/ /\ \A k \in DOMAIN article.parts : ~BadEncoding(article.parts[k])
          /\ \/ held = <<FirstRow>> /\ passing = "kept" /\ onWire = article
             \/ held = <<FirstRow>> /\ passing = "failed" /\ CannotWrite(FirstRow)
             \/ held = <<FirstRow>> /\ passing = "sent" /\ onWire = SentOn
             \/ /\ held = <<FirstRow>> /\ passing = "refused"
                /\ \E k \in DOMAIN SentOn.parts : BadEncoding(SentOn.parts[k])
             \/ held = <<FirstRow, Stored(Devour(SentOn))>> /\ passing = "kept" /\ onWire = SentOn

LEMMA PassInitInv ==
    ASSUME NEW articles, \A a \in articles : Whole(a)
    PROVE  PassInit(articles) => PassInv
BY DEF PassInit, PassInv

LEMMA PassStepInv == PassInv /\ [PassNext]_passVars => PassInv'
<1> SUFFICES ASSUME PassInv, [PassNext]_passVars PROVE PassInv'
  OBVIOUS
<1>1. CASE UNCHANGED passVars
  BY <1>1 DEF passVars, PassInv, FirstRow, SentOn
<1>2. CASE TakeIn
  <2>1. article' = article /\ onWire' = onWire /\ passing = "sent" /\ FirstRow' = FirstRow /\ SentOn' = SentOn
    BY <1>2 DEF TakeIn, FirstRow, SentOn
  <2>2. CASE held = <<>>
    <3>1. onWire = article /\ Whole(article)
      BY <2>1, <2>2 DEF PassInv
    <3>2. CASE \E k \in DOMAIN onWire.parts : BadEncoding(onWire.parts[k])
      <4>1. passing' = "refused" /\ held' = held
        BY <1>2, <3>2 DEF TakeIn
      <4> QED
        BY <2>1, <2>2, <3>1, <4>1 DEF PassInv
    <3>3. CASE ~\E k \in DOMAIN onWire.parts : BadEncoding(onWire.parts[k])
      <4>1. passing' = "kept" /\ held' = Append(held, Stored(Devour(onWire)))
        BY <1>2, <3>3 DEF TakeIn
      <4>2. held' = <<FirstRow>>
        BY <2>2, <3>1, <4>1 DEF FirstRow
      <4> QED
        BY <2>1, <3>1, <3>3, <4>1, <4>2 DEF PassInv
    <3> QED
      BY <3>2, <3>3
  <2>3. CASE held # <<>>
    <3>1. /\ Whole(article) /\ \A k \in DOMAIN article.parts : ~BadEncoding(article.parts[k])
          /\ held = <<FirstRow>> /\ onWire = SentOn
      BY <2>1, <2>3 DEF PassInv
    <3>2. CASE \E k \in DOMAIN onWire.parts : BadEncoding(onWire.parts[k])
      <4>1. passing' = "refused" /\ held' = held
        BY <1>2, <3>2 DEF TakeIn
      <4> QED
        BY <2>1, <3>1, <3>2, <4>1 DEF PassInv
    <3>3. CASE ~\E k \in DOMAIN onWire.parts : BadEncoding(onWire.parts[k])
      <4>1. passing' = "kept" /\ held' = Append(held, Stored(Devour(onWire)))
        BY <1>2, <3>3 DEF TakeIn
      <4>2. held' = <<FirstRow, Stored(Devour(SentOn))>>
        <5>1. ASSUME NEW x, NEW y PROVE Append(<<x>>, y) = <<x, y>>
          <6> DEFINE B == {x, y}
          <6>1. x \in B /\ y \in B
            OBVIOUS
          <6> HIDE DEF B
          <6>2. <<x>> \in Seq(B) /\ Len(<<x>>) = 1 /\ <<x>>[1] = x
            BY <6>1
          <6>3. <<x, y>> \in Seq(B) /\ Len(<<x, y>>) = 2 /\ <<x, y>>[1] = x /\ <<x, y>>[2] = y
            BY <6>1
          <6>4. Append(<<x>>, y) \in Seq(B) /\ Len(Append(<<x>>, y)) = 2
                /\ Append(<<x>>, y)[1] = x /\ Append(<<x>>, y)[2] = y
            BY <6>1, <6>2
          <6> DEFINE s == Append(<<x>>, y)
                     t == <<x, y>>
          <6>5. s \in Seq(B) /\ t \in Seq(B) /\ Len(s) = 2 /\ Len(t) = 2 /\ s[1] = t[1] /\ s[2] = t[2]
            BY <6>3, <6>4
          <6> HIDE DEF s, t
          <6>6. \A i \in 1 .. 2 : s[i] = t[i]
            BY <6>5
          <6>7. s = t
            BY <6>5, <6>6
          <6> QED
            BY <6>7 DEF s, t
        <5>2. held' = Append(<<FirstRow>>, Stored(Devour(SentOn)))
          BY <3>1, <4>1
        <5> QED
          BY <5>1, <5>2
      <4> QED
        BY <2>1, <3>1, <4>1, <4>2 DEF PassInv
    <3> QED
      BY <3>2, <3>3
  <2> QED
    BY <2>2, <2>3
<1>3. CASE PassOn
  <2>1. article' = article /\ held' = held /\ passing = "kept" /\ Len(held) = 1
        /\ FirstRow' = FirstRow /\ SentOn' = SentOn
    BY <1>3 DEF PassOn, FirstRow, SentOn
  <2>2. Len(<<FirstRow, Stored(Devour(SentOn))>>) = 2
    OBVIOUS
  <2>3. /\ Whole(article) /\ \A k \in DOMAIN article.parts : ~BadEncoding(article.parts[k])
        /\ held = <<FirstRow>>
    BY <2>1, <2>2 DEF PassInv
  <2>4. held[1] = FirstRow
    BY <2>3
  <2>5. CASE CannotWrite(FirstRow)
    <3>1. passing' = "failed"
      BY <1>3, <2>4, <2>5 DEF PassOn
    <3> QED
      BY <2>1, <2>3, <2>5, <3>1 DEF PassInv, CannotWrite
  <2>6. CASE ~CannotWrite(FirstRow)
    <3>1. passing' = "sent" /\ onWire' = SentOn
      BY <1>3, <2>4, <2>6 DEF PassOn, SentOn
    <3> QED
      BY <2>1, <2>3, <3>1 DEF PassInv
  <2> QED
    BY <2>5, <2>6
<1> QED
  BY <1>1, <1>2, <1>3 DEF PassNext

\* PassedOnWhole: whatever an article says, if this code can pass it on, the next
\* server gets the same and keeps the same.
LEMMA PassInvTrue == PassInv => PassedOnWhole
<1> SUFFICES ASSUME PassInv, Passable, held # <<>>
             PROVE  /\ passing \notin {"refused", "failed"}
                    /\ passing = "sent" \/ Len(held) = 2 =>
                          /\ onWire.form = article.form /\ onWire.subject = article.subject
                          /\ Len(onWire.parts) = Len(article.parts)
                          /\ \A k \in DOMAIN onWire.parts :
                                /\ SameContent(article.parts[k], onWire.parts[k])
                                /\ onWire.parts[k].cte \in {"none", "8bit"} => ~Has(onWire.parts[k].data, "0")
                    /\ Len(held) = 2 => held[2] = held[1]
  BY DEF PassedOnWhole
<1>1. Passes(article)
  BY DEF PassInv, Passable, Passes
<1>2. Keeps(article, FirstRow)
  BY <1>1, HeldKeeps DEF FirstRow
<1>3. /\ ~CannotWrite(FirstRow) /\ Whole(SentOn)
      /\ SentOn.form = article.form /\ SentOn.subject = article.subject
      /\ Len(SentOn.parts) = Len(article.parts)
      /\ \A k \in 1 .. Len(article.parts) : GoodCopy(article.parts[k], SentOn.parts[k])
  BY <1>1, <1>2, GeneratedIs DEF SentOn
<1>4. Devour(SentOn) = Devour(article)
  BY <1>1, <1>3, StoredAgain
<1>5. Stored(Devour(SentOn)) = FirstRow
  BY <1>4 DEF FirstRow
<1>6. DOMAIN SentOn.parts = 1 .. Len(article.parts)
  <2>1. SentOn.parts \in Seq(PartSet)
    BY <1>3 DEF Whole
  <2> QED
    BY <1>3, <2>1
<1>7. \A k \in DOMAIN SentOn.parts :
         /\ ~BadEncoding(SentOn.parts[k]) /\ SameContent(article.parts[k], SentOn.parts[k])
         /\ SentOn.parts[k].cte \in {"none", "8bit"} => ~Has(SentOn.parts[k].data, "0")
  BY <1>3, <1>6 DEF GoodCopy
<1> DEFINE two == <<FirstRow, Stored(Devour(SentOn))>>
<1>8. Len(<<FirstRow>>) = 1 /\ Len(two) = 2 /\ two[1] = FirstRow /\ two[2] = Stored(Devour(SentOn))
  OBVIOUS
<1>9. \/ held = <<FirstRow>> /\ passing = "kept"
      \/ held = <<FirstRow>> /\ passing = "sent" /\ onWire = SentOn
      \/ held = two /\ passing = "kept" /\ onWire = SentOn
  BY <1>3, <1>7 DEF PassInv
<1> HIDE DEF two
<1>10. passing \notin {"refused", "failed"} /\ (passing = "sent" \/ Len(held) = 2 => onWire = SentOn)
       /\ (Len(held) = 2 => held = two)
  BY <1>8, <1>9
<1>11. Len(held) = 2 => held[2] = held[1]
  BY <1>5, <1>8, <1>10
<1> QED
  BY <1>3, <1>7, <1>10, <1>11

THEOREM PassedOnCorrect ==
    ASSUME NEW articles, \A a \in articles : Whole(a)
    PROVE  PassInit(articles) /\ [][PassNext]_passVars => []PassedOnWhole
<1>1. PassInit(articles) => PassInv
  BY PassInitInv
<1>2. PassInv /\ [PassNext]_passVars => PassInv'
  BY PassStepInv
<1>3. PassInv => PassedOnWhole
  BY PassInvTrue
<1>4. QED
  BY <1>1, <1>2, <1>3, PTL
=============================================================================
