-------------------------- MODULE CacheEngineInv --------------------------
(***************************************************************************)
(* The inductive invariant behind the safety properties of CacheEngine:    *)
(* what the calls, their goroutines and the objects know of one another    *)
(* between two steps.  TLC checks it on small instances, module            *)
(* CacheEngineProofs proves it for every set of calls.                     *)
(***************************************************************************)
EXTENDS CacheEngine

\* Where a publisher is before its object has said anything.
OpeningPcs == {"open", "publishFile", "mkTemp", "publishPub", "broken",
               "markBroken"}

\* Where a call that is counted by an object can be.
CountedPcs == OpeningPcs \cup {"wait", "asleep", "copyPub", "wgWait", "rewait",
                               "reasleep", "copyFile", "unreg"}

\* Where a publisher can be.
OwnerPcs == OpeningPcs \cup {"copyPub", "wgWait", "rewait", "reasleep",
                             "copyFile", "unreg", "delist", "closeFile",
                             "clearFile"}

Working(r) == wk[r] \notin {"none", "done"}

Placing(m) == rm[m] \in {"unlink", "parked", "finish", "mark"}

\* A call that has not published its object yet has left no trace of it.
Unpublished(c) ==
    /\ w # c
    /\ n[c] = 0 /\ ~p[c] /\ ~f[c] /\ e[c] = "nil"
    /\ \A r \in Readers : o[r] # c

UnpublishedOK ==
    /\ \A r \in Readers : at[r] # "done" /\ o[r] # r => Unpublished(r) /\ wk[r] = "none"
    /\ \A m \in Removers : rm[m] = "idle" => Unpublished(m)

\* A counted call is on its way to unregister; one that is not counted but
\* still points to an object found it, or left it, with n = 0.
LiveOK ==
    \A r \in Readers :
        /\ live[r] => o[r] # None /\ at[r] \in CountedPcs
        /\ o[r] # None /\ ~live[r] => n[o[r]] = 0
        /\ o[r] # None <=> at[r] \notin {"begin", "second", "done"}

\* A publisher never starts over, and is counted while it opens its files.
OwnerOK ==
    \A r \in Readers :
        /\ o[r] = r => at[r] \in OwnerPcs
        /\ o[r] = r \/ at[r] \in {"begin", "second"} => res[r] # "again"
        /\ at[r] \in OpeningPcs =>
              /\ o[r] = r /\ live[r]
              /\ e[r] = "nil" /\ ~f[r] /\ ~p[r]
              /\ wk[r] = "none"
        /\ at[r] = "publishFile" => rd[r] = "open"

\* While the goroutine runs its publisher is counted and has not moved past
\* the CachePub; the object has no file and no error yet.
WorkerOK ==
    \A r \in Readers :
        /\ Working(r) =>
              /\ o[r] = r /\ live[r]
              /\ at[r] \in {"copyPub", "wgWait", "rewait", "reasleep"}
              /\ e[r] = "nil" /\ ~f[r]
        /\ wk[r] = "publish" => rd[r] = "open"

\* cp_read_done is set by a call that is leaving for good.
ReadDoneOK ==
    \A r \in Readers :
        readDone[r] =>
            /\ at[r] \in {"wgWait", "unreg", "delist", "closeFile", "clearFile",
                          "done"}
            /\ res[r] # "again"

\* An object serves its file only while it has no error, and the handle is
\* open as long as the object has users.
FileOK ==
    \A c \in Readers :
        f[c] => e[c] = "nil" /\ (n[c] > 0 => rd[c] = "open")

\* A counted reader of a file reads the file of its object.
ReadingOK ==
    \A r \in Readers :
        /\ at[r] = "copyFile" /\ live[r] => f[o[r]]
        /\ at[r] \in {"copyPub", "rewait", "reasleep", "copyFile"}
              => o[r] \in Readers

\* Once errRestart is up, nobody reads the CachePub of the object or waits for
\* its file.
RestartOK ==
    \A r \in Readers :
        at[r] \in {"copyPub", "rewait", "reasleep"}
            => e[o[r]] # "restart"

\* A placeholder has nothing to offer until its removal finishes.
PlaceholderOK ==
    \A m \in Removers :
        /\ ~p[m] /\ ~f[m]
        /\ Placing(m) => e[m] = "nil"

ExactCount(c) ==
    \/ n[c] = Cardinality(Users(c))
    \/ n[c] = 0 /\ e[c] # "nil"
    \/ Abandoned(c)

CountOK == \A c \in Calls : ExactCount(c)

\* A removal whose placeholder nobody has overwritten owns the entry until its
\* finish, which then saw this placeholder; the placeholder that is the entry
\* has not been overwritten, and its removal has not finished.
SerialOK ==
    /\ \A m \in Removers \ replaced :
          /\ rm[m] \in {"unlink", "parked", "finish"} => w = m
          /\ rm[m] = "mark" => seen[m] = m
          /\ rm[m] # "panicked"
    /\ w \in Removers => w \notin replaced /\ rm[w] \in {"unlink", "parked", "finish"}
    /\ \A m \in replaced : rm[m] # "idle"

CallsOK == UnpublishedOK /\ LiveOK /\ OwnerOK /\ WorkerOK /\ ReadDoneOK

ObjectsOK ==
    /\ FileOK
    /\ ReadingOK
    /\ RestartOK
    /\ RestartStaysInside
    /\ PlaceholderOK

IInv == CacheTypeOK /\ CallsOK /\ ObjectsOK /\ SerialOK /\ CountOK
=============================================================================
