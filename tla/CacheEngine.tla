---------------------------- MODULE CacheEngine ----------------------------
(***************************************************************************)
(* The get-cached-or-make-on-the-spot file cache of nksrv,                 *)
(* src/src/nksrv/lib/utils/fs/cacheengine/cacheengine.go, as seen by the   *)
(* calls that concern ONE object id: the entry ce.w[objid], the CacheObj   *)
(* values that have been that entry, and the files behind them.  Distinct  *)
(* ids share nothing but the map's lock, so one id is a faithful slice.    *)
(*                                                                         *)
(* A call is one ObtainItem (a Reader) or one RemoveItemStart followed by  *)
(* RemoveItemFinish (a Remover).  A call publishes at most one CacheObj,   *)
(* so a CacheObj is named by the call that created it.  A step is one      *)
(* critical section or one file operation; the build is the unix one       *)
(* (safeToRemoveOpen, remove_unix.go:5), where unlinking an open file is   *)
(* allowed.  What a copy delivers is the subject of module CacheCopy: here *)
(* a copy is a point where the call stays until it ends in one of three    *)
(* ways (nil, a final error, "file already closed").                       *)
(***************************************************************************)
EXTENDS Integers, FiniteSets

CONSTANTS Readers,   \* calls of ObtainItem
          Removers,  \* calls of RemoveItemStart + RemoveItemFinish
          None,      \* nil
          Old        \* the content a previous process left on disk

ASSUME CallsAssumption ==
    /\ IsFiniteSet(Readers)
    /\ Readers \cap Removers = {}
    /\ None \notin Readers \cup Removers
    /\ Old \notin Readers \cup Removers \cup {None}

Calls == Readers \cup Removers

VARIABLES
    w,        \* ce.w[objid]: the call whose object is the entry, or None
    n,        \* CacheObj.n: "current amount of readers (refcount for gc)"
    p,        \* CacheObj.p # nil: there is a CachePub to read from
    f,        \* CacheObj.f # nil: there is a file to read from
    e,        \* CacheObj.e: nil, errRestart or an error
    at,       \* where each ObtainItem is
    o,        \* its local variable o
    live,     \* whether registering found o.n > 0 (nx > 0)
    res,      \* what an ObtainItem is going to return, or that it starts over
    readDone, \* cp_read_done of each ObtainItem
    rm,       \* where each removal is
    seen,     \* the local variable o of its RemoveItemFinish
    replaced, \* history: the removals whose placeholder a later one overwrote
    wk,       \* where the generating goroutine of each ObtainItem is
    pub,      \* err of the CachePub: nil ("live"), io.EOF or a failure
    tmp,      \* the temporary file's handle
    tmpName,  \* whether the temporary file's name is still on disk
    rd,       \* the handle kept in CacheObj.f
    rdGen,    \* the content that handle reads
    stable    \* the content under the stable file name, or None

object    == <<n, p, f, e>>
ceVars    == <<w, object>>
locals    == <<at, o, live, res, readDone>>
removal   == <<rm, seen, replaced>>
files     == <<tmp, tmpName, rd, rdGen, stable>>
cacheVars == <<ceVars, locals, removal, wk, pub, files>>

(***************************************************************************)
(* Objects and condition variables.                                        *)
(***************************************************************************)

HasNews(c) == p[c] \/ f[c] \/ e[c] # "nil"

\* &CacheObj{n: 1}; the other fields of a new object are nil.
NewObject(c) == n' = [n EXCEPT ![c] = 1] /\ UNCHANGED <<p, f, e>>

\* c.Broadcast(): the calls asleep on the object of c look again.
Woken(c) ==
    [x \in Readers |->
        IF o[x] = c /\ at[x] = "asleep" THEN "wait"
        ELSE IF o[x] = c /\ at[x] = "reasleep" THEN "rewait" ELSE at[x]]

Go(r, l)     == at' = [at EXCEPT ![r] = l]
RmGoto(m, l) == rm' = [rm EXCEPT ![m] = l]

\* What an ObtainItem does about the object of c, seen as it is now.
Dispatch(r, c) ==
    /\ Go(r, IF e[c] # "nil" THEN "unreg"
               ELSE IF f[c] THEN "copyFile"
               ELSE IF p[c] THEN "copyPub" ELSE "wait")
    /\ res' = [res EXCEPT ![r] = IF e[c] = "restart" THEN "again"
                               ELSE IF e[c] = "fail" THEN "objErr" ELSE "none"]

\* (Wrong variant: counts the call even when n is 0.)
RegisterAlways(r) ==
    /\ n' = [n EXCEPT ![w] = @ + 1]
    /\ live' = [live EXCEPT ![r] = n[w] > 0]
    /\ o' = [o EXCEPT ![r] = w]
    /\ Dispatch(r, w)
    /\ UNCHANGED <<p, f, e>>

\* register_to_o on the current entry: counts the call unless n is 0.
Register(r) ==
    /\ n' = [n EXCEPT ![w] = IF @ > 0 THEN @ + 1 ELSE @]
    /\ live' = [live EXCEPT ![r] = n[w] > 0]
    /\ o' = [o EXCEPT ![r] = w]
    /\ Dispatch(r, w)
    /\ UNCHANGED <<p, f, e>>

\* (Wrong variant: deletes the entry whoever it belongs to.)
DelistAny(c) == w' = None

\* delete(ce.w, objid), if the entry is still the object of c.
Delist(c) == w' = IF w = c THEN None ELSE w

\* End of unregister_from_o: return the result, or goto begin.
Leave(r) ==
    /\ Go(r, IF res[r] = "again" THEN "begin" ELSE "done")
    /\ res' = [res EXCEPT ![r] = IF @ = "again" THEN "none" ELSE @]
    /\ o' = [o EXCEPT ![r] = None]

-----------------------------------------------------------------------------
(***************************************************************************)
(* ObtainItem.                                                             *)
(***************************************************************************)

\* First look at the map.  An entry with n = 0 is not taken: the call yields
\* and looks again, which is a step that changes nothing.
FirstCheck(r) ==
    /\ at[r] = "begin"
    /\ \/ /\ w = None
          /\ Go(r, "second")
          /\ UNCHANGED <<object, o, live, res>>
       \/ /\ w # None
          /\ n[w] > 0
          /\ Register(r)
       \/ /\ w # None
          /\ n[w] = 0
          /\ UNCHANGED <<object, at, o, live, res>>
    /\ UNCHANGED <<removal, w, readDone, wk, pub, files>>

\* (Wrong variant: publishes without looking at the map a second time.)
SecondCheckBlind(r) ==
    /\ at[r] = "second"
    /\ w' = r
    /\ NewObject(r)
    /\ o' = [o EXCEPT ![r] = r]
    /\ live' = [live EXCEPT ![r] = TRUE]
    /\ Go(r, "open")
    /\ UNCHANGED <<removal, res, readDone, wk, pub, files>>

\* Second look, under the write lock: publish a new object, or register with
\* the entry that has appeared, whatever its n.
SecondCheck(r) ==
    /\ at[r] = "second"
    /\ \/ /\ w = None
          /\ w' = r
          /\ NewObject(r)
          /\ o' = [o EXCEPT ![r] = r]
          /\ live' = [live EXCEPT ![r] = TRUE]
          /\ Go(r, "open")
          /\ UNCHANGED res
       \/ /\ w # None
          /\ Register(r)
          /\ UNCHANGED w
    /\ UNCHANGED <<removal, readDone, wk, pub, files>>

\* The call that published the object opens the stable file.
OpenPassive(r) ==
    /\ at[r] = "open"
    /\ \/ /\ stable # None
          /\ rd' = [rd EXCEPT ![r] = "open"]
          /\ rdGen' = [rdGen EXCEPT ![r] = stable]
          /\ Go(r, "publishFile")
       \/ /\ stable = None
          /\ Go(r, "mkTemp")
          /\ UNCHANGED <<rd, rdGen>>
       \/ /\ Go(r, "broken")       \* an error other than "not exist"
          /\ UNCHANGED <<rd, rdGen>>
    /\ UNCHANGED <<removal, ceVars, o, live, res, readDone, wk, pub, tmp, tmpName, stable>>

PublishFile(r) ==
    /\ at[r] = "publishFile"
    /\ f' = [f EXCEPT ![r] = TRUE]
    /\ at' = [Woken(r) EXCEPT ![r] = "copyFile"]
    /\ UNCHANGED <<removal, w, n, p, e, o, live, res, readDone, wk, pub, files>>

NewTempFile(r) ==
    /\ at[r] = "mkTemp"
    /\ \/ /\ tmp' = [tmp EXCEPT ![r] = "open"]
          /\ tmpName' = [tmpName EXCEPT ![r] = TRUE]
          /\ Go(r, "publishPub")
       \/ /\ Go(r, "broken")
          /\ UNCHANGED <<tmp, tmpName>>
    /\ UNCHANGED <<removal, ceVars, o, live, res, readDone, wk, pub, rd, rdGen, stable>>

\* Put up the CachePub, tell the waiting calls, start the goroutine.
PublishPub(r) ==
    /\ at[r] = "publishPub"
    /\ p' = [p EXCEPT ![r] = TRUE]
    /\ at' = [Woken(r) EXCEPT ![r] = "copyPub"]
    /\ wk' = [wk EXCEPT ![r] = "gen"]
    /\ UNCHANGED <<removal, w, n, f, e, o, live, res, readDone, pub, files>>

\* oo_broken called by the publisher itself, in its two critical sections.
OwnerBroken(r) ==
    /\ at[r] = "broken"
    /\ Delist(r)
    /\ Go(r, "markBroken")
    /\ UNCHANGED <<removal, object, o, live, res, readDone, wk, pub, files>>

OwnerMarkBroken(r) ==
    /\ at[r] = "markBroken"
    /\ e' = [e EXCEPT ![r] = "fail"]
    /\ n' = [n EXCEPT ![r] = 0]
    /\ at' = [Woken(r) EXCEPT ![r] = "done"]
    /\ res' = [res EXCEPT ![r] = "openErr"]
    /\ live' = [live EXCEPT ![r] = FALSE]
    /\ o' = [o EXCEPT ![r] = None]
    /\ UNCHANGED <<removal, w, p, f, readDone, wk, pub, files>>

\* Lines 327-346: look at the object, sleep on its condition if it is silent.
AwaitNews(r) ==
    /\ at[r] = "wait"
    /\ IF HasNews(o[r])
       THEN Dispatch(r, o[r])
       ELSE Go(r, "asleep") /\ UNCHANGED res
    /\ UNCHANGED <<removal, ceVars, o, live, readDone, wk, pub, files>>

\* CopyFrom(CachePub) ends without "file already closed": the reader got all
\* it wanted, or its client or the generation failed.
CopyPubEnds(r) ==
    /\ at[r] = "copyPub"
    /\ \E out \in {"ok", "copyErr"} : res' = [res EXCEPT ![r] = out]
    /\ readDone' = [readDone EXCEPT ![r] = TRUE]
    /\ Go(r, "wgWait")
    /\ UNCHANGED <<removal, ceVars, o, live, wk, pub, files>>

\* CopyFrom(CachePub) runs into the closed temporary file.
CopyPubClosed(r) ==
    /\ at[r] = "copyPub"
    /\ tmp[o[r]] = "closed"
    /\ \/ /\ pub[o[r]] = "eof"
          /\ Go(r, "rewait")
          /\ UNCHANGED res
       \/ /\ pub[o[r]] # "eof"
          /\ Go(r, "wgWait")
          /\ res' = [res EXCEPT ![r] = "pubErr"]
    /\ UNCHANGED <<removal, ceVars, o, live, readDone, wk, pub, files>>

\* wg.Wait(): only the publisher has added to its own wg.
WaitWorker(r) ==
    /\ at[r] = "wgWait"
    /\ wk[r] \in {"none", "done"}
    /\ Go(r, "unreg")
    /\ UNCHANGED <<removal, ceVars, o, live, res, readDone, wk, pub, files>>

\* Lines 381-391: after "closed", wait for the reopened file or an error.
AwaitReopened(r) ==
    /\ at[r] = "rewait"
    /\ \/ /\ e[o[r]] # "nil"
          /\ Go(r, "unreg")
          /\ res' = [res EXCEPT ![r] =
                       IF e[o[r]] = "restart" THEN "restartErr" ELSE "objErr"]
       \/ /\ e[o[r]] = "nil" /\ f[o[r]]
          /\ Go(r, "copyFile")
          /\ UNCHANGED res
       \/ /\ e[o[r]] = "nil" /\ ~f[o[r]]
          /\ Go(r, "reasleep")
          /\ UNCHANGED res
    /\ UNCHANGED <<removal, ceVars, o, live, readDone, wk, pub, files>>

\* CopyFrom(sharedReader): a read of a closed handle fails.
CopyFileEnds(r) ==
    /\ at[r] = "copyFile"
    /\ \E out \in {"ok", "copyErr"} :
         res' = [res EXCEPT ![r] =
                   IF rd[o[r]] = "closed" THEN "closedErr" ELSE out]
    /\ Go(r, "unreg")
    /\ UNCHANGED <<removal, ceVars, o, live, readDone, wk, pub, files>>

\* (Wrong variant: takes the object out one user too early.)
UnregisterEarly(r) ==
    /\ at[r] = "unreg"
    /\ n' = [n EXCEPT ![o[r]] = IF @ > 0 THEN @ - 1 ELSE @]
    /\ live' = [live EXCEPT ![r] = FALSE]
    /\ IF n[o[r]] \in {1, 2}
       THEN Go(r, "delist") /\ UNCHANGED <<o, res>>
       ELSE Leave(r)
    /\ UNCHANGED <<removal, w, p, f, e, readDone, wk, pub, files>>

\* unregister_from_o: its critical section on o, then, for the last user, the
\* map, the handle, and o.f.
Unregister(r) ==
    /\ at[r] = "unreg"
    /\ n' = [n EXCEPT ![o[r]] = IF @ > 0 THEN @ - 1 ELSE @]
    /\ live' = [live EXCEPT ![r] = FALSE]
    /\ IF n[o[r]] = 1
       THEN Go(r, "delist") /\ UNCHANGED <<o, res>>
       ELSE Leave(r)
    /\ UNCHANGED <<removal, w, p, f, e, readDone, wk, pub, files>>

LastDelist(r) ==
    /\ at[r] = "delist"
    /\ Delist(o[r])
    /\ IF f[o[r]]
       THEN Go(r, "closeFile") /\ UNCHANGED <<o, res>>
       ELSE Leave(r)
    /\ UNCHANGED <<removal, object, live, readDone, wk, pub, files>>

LastClose(r) ==
    /\ at[r] = "closeFile"
    /\ rd' = [rd EXCEPT ![o[r]] = "closed"]
    /\ Go(r, "clearFile")
    /\ UNCHANGED <<removal, ceVars, o, live, res, readDone, wk, pub, tmp, tmpName,
                   rdGen, stable>>

LastClear(r) ==
    /\ at[r] = "clearFile"
    /\ f' = [f EXCEPT ![o[r]] = FALSE]
    /\ Leave(r)
    /\ UNCHANGED <<removal, w, n, p, e, live, readDone, wk, pub, files>>

-----------------------------------------------------------------------------
(***************************************************************************)
(* The generating goroutine of the ObtainItem r.                           *)
(***************************************************************************)

\* Generate, then Finish or Cancel.
Generate(r) ==
    /\ wk[r] = "gen"
    /\ \E out \in {"eof", "failed"} : pub' = [pub EXCEPT ![r] = out]
    /\ wk' = [wk EXCEPT ![r] = "close"]
    /\ UNCHANGED <<removal, ceVars, locals, files>>

\* (Wrong variant: waits until the readers have finished, as the XXX note at
\* line 239 considers.)
CloseTempPolite(r) ==
    /\ wk[r] = "close"
    /\ \A x \in Readers : ~(o[x] = r /\ at[x] = "copyPub")
    /\ tmp' = [tmp EXCEPT ![r] = "closed"]
    /\ \/ pub[r] = "eof" /\ wk' = [wk EXCEPT ![r] = "unpubOk"]
       \/ wk' = [wk EXCEPT ![r] = "unpubErr"]
    /\ UNCHANGED <<removal, ceVars, locals, pub, tmpName, rd, rdGen, stable>>

\* fx.Close(), which may report an error of its own.
CloseTemp(r) ==
    /\ wk[r] = "close"
    /\ tmp' = [tmp EXCEPT ![r] = "closed"]
    /\ \/ pub[r] = "eof" /\ wk' = [wk EXCEPT ![r] = "unpubOk"]
       \/ wk' = [wk EXCEPT ![r] = "unpubErr"]
    /\ UNCHANGED <<removal, ceVars, locals, pub, tmpName, rd, rdGen, stable>>

\* oo.p = nil, without telling anyone.
Unpublish(r) ==
    /\ wk[r] \in {"unpubOk", "unpubErr"}
    /\ p' = [p EXCEPT ![r] = FALSE]
    /\ wk' = [wk EXCEPT ![r] = IF @ = "unpubOk" THEN "stat" ELSE "rmTemp"]
    /\ UNCHANGED <<removal, w, n, f, e, locals, pub, files>>

\* RenameNoClobber: the Stat.  "Exists" counts as success and leaves the
\* temporary file where it is.
StatStable(r) ==
    /\ wk[r] = "stat"
    /\ \E next \in {"rmTemp", IF stable = None THEN "rename" ELSE "decide"} :
         wk' = [wk EXCEPT ![r] = next]
    /\ UNCHANGED <<removal, ceVars, locals, pub, files>>

\* RenameNoClobber: the Rename, which overwrites what has come in between.
RenameTemp(r) ==
    /\ wk[r] = "rename"
    /\ \/ /\ stable' = r
          /\ tmpName' = [tmpName EXCEPT ![r] = FALSE]
          /\ wk' = [wk EXCEPT ![r] = "decide"]
       \/ /\ wk' = [wk EXCEPT ![r] = "rmTemp"]
          /\ UNCHANGED <<stable, tmpName>>
    /\ UNCHANGED <<removal, ceVars, locals, pub, tmp, rd, rdGen>>

\* Lines 268-285: nobody but the publisher uses the object and it has finished
\* reading, so the file is not opened again.
Decide(r) ==
    /\ wk[r] = "decide"
    /\ \/ /\ readDone[r] /\ n[r] = 1
          /\ e' = [e EXCEPT ![r] = "restart"]
          /\ at' = Woken(r)
          /\ wk' = [wk EXCEPT ![r] = "done"]
       \/ /\ ~(readDone[r] /\ n[r] = 1)
          /\ wk' = [wk EXCEPT ![r] = "reopen"]
          /\ UNCHANGED <<e, at>>
    /\ UNCHANGED <<removal, w, n, p, f, o, live, res, readDone, pub, files>>

ReopenStable(r) ==
    /\ wk[r] = "reopen"
    /\ \/ /\ stable # None
          /\ rd' = [rd EXCEPT ![r] = "open"]
          /\ rdGen' = [rdGen EXCEPT ![r] = stable]
          /\ wk' = [wk EXCEPT ![r] = "publish"]
       \/ /\ wk' = [wk EXCEPT ![r] = "broken"]
          /\ UNCHANGED <<rd, rdGen>>
    /\ UNCHANGED <<removal, ceVars, locals, pub, tmp, tmpName, stable>>

PublishReopened(r) ==
    /\ wk[r] = "publish"
    /\ f' = [f EXCEPT ![r] = TRUE]
    /\ at' = Woken(r)
    /\ wk' = [wk EXCEPT ![r] = "done"]
    /\ UNCHANGED <<removal, w, n, p, e, o, live, res, readDone, pub, files>>

\* (Wrong variant: leaves the temporary file.)
RemoveTempNot(r) ==
    /\ wk[r] = "rmTemp"
    /\ wk' = [wk EXCEPT ![r] = "broken"]
    /\ UNCHANGED <<removal, ceVars, locals, pub, files>>

\* os.Remove(tn) after an error.
RemoveTemp(r) ==
    /\ wk[r] = "rmTemp"
    /\ tmpName' = [tmpName EXCEPT ![r] = FALSE]
    /\ wk' = [wk EXCEPT ![r] = "broken"]
    /\ UNCHANGED <<removal, ceVars, locals, pub, tmp, rd, rdGen, stable>>

WorkerBroken(r) ==
    /\ wk[r] = "broken"
    /\ Delist(r)
    /\ wk' = [wk EXCEPT ![r] = "markBroken"]
    /\ UNCHANGED <<removal, object, locals, pub, files>>

WorkerMarkBroken(r) ==
    /\ wk[r] = "markBroken"
    /\ e' = [e EXCEPT ![r] = "fail"]
    /\ n' = [n EXCEPT ![r] = 0]
    /\ at' = Woken(r)
    /\ wk' = [wk EXCEPT ![r] = "done"]
    /\ UNCHANGED <<removal, w, p, f, o, live, res, readDone, pub, files>>

-----------------------------------------------------------------------------
(***************************************************************************)
(* RemoveItemStart and RemoveItemFinish.                                   *)
(***************************************************************************)

\* Overwrite the entry with a placeholder, whatever it is: an object with its
\* users, or the placeholder of another removal of the id.
RemoveStart(m) ==
    /\ rm[m] = "idle"
    /\ w' = m
    /\ replaced' = replaced \cup ({w} \cap Removers)
    /\ NewObject(m)
    /\ RmGoto(m, "unlink")
    /\ UNCHANGED <<seen, locals, wk, pub, files>>

\* os.Remove(filename): after an error RemoveItemStart calls
\* RemoveItemFinish itself, otherwise the caller does so later.
Unlink(m) ==
    /\ rm[m] = "unlink"
    /\ \/ stable' = None /\ RmGoto(m, "parked")
       \/ RmGoto(m, "finish") /\ UNCHANGED stable
    /\ UNCHANGED <<ceVars, seen, replaced, locals, wk, pub, tmp, tmpName, rd, rdGen>>

\* RemoveItemFinish, under ce.m.
RemoveFinish(m) ==
    /\ rm[m] \in {"parked", "finish"}
    /\ Delist(m)
    /\ seen' = [seen EXCEPT ![m] = w]
    /\ RmGoto(m, IF w = None THEN "done" ELSE "mark")
    /\ UNCHANGED <<object, replaced, locals, wk, pub, files>>

\* RemoveItemFinish, after ce.m: the sanity check of the entry it saw, then
\* its own placeholder is marked and the sleepers are woken.
RemoveMark(m) ==
    /\ rm[m] = "mark"
    /\ \/ /\ HasNews(seen[m])
          /\ RmGoto(m, "panicked")
          /\ UNCHANGED <<object, seen, at>>
       \/ /\ ~HasNews(seen[m])
          /\ e' = [e EXCEPT ![m] = "restart"]
          /\ n' = [n EXCEPT ![m] = 0]
          /\ UNCHANGED <<p, f>>
          /\ at' = Woken(m)
          /\ RmGoto(m, "done")
          /\ seen' = [seen EXCEPT ![m] = None]
    /\ UNCHANGED <<w, replaced, o, live, res, readDone, wk, pub, files>>

-----------------------------------------------------------------------------

Crashed == \E m \in Removers : rm[m] = "panicked"

\* The finish of a removal whose placeholder was overwritten returns early when
\* there is no entry any more: those who sleep on that placeholder stay there.
Stranded(r) == at[r] = "asleep" /\ o[r] \in replaced

Terminated ==
    \/ Crashed
    \/ /\ \A r \in Readers :
            (at[r] = "done" \/ Stranded(r)) /\ wk[r] \in {"none", "done"}
       /\ \A m \in Removers : rm[m] \in {"idle", "done"}

Obtaining(r) ==
    \/ FirstCheck(r) \/ SecondCheck(r)
    \/ OpenPassive(r) \/ PublishFile(r) \/ NewTempFile(r) \/ PublishPub(r)
    \/ OwnerBroken(r) \/ OwnerMarkBroken(r)
    \/ AwaitNews(r) \/ CopyPubClosed(r) \/ WaitWorker(r) \/ AwaitReopened(r)
    \/ Unregister(r) \/ LastDelist(r) \/ LastClose(r) \/ LastClear(r)

Copying(r) == CopyPubEnds(r) \/ CopyFileEnds(r)

Generating(r) ==
    \/ Generate(r) \/ CloseTemp(r) \/ Unpublish(r)
    \/ StatStable(r) \/ RenameTemp(r) \/ Decide(r)
    \/ ReopenStable(r) \/ PublishReopened(r)
    \/ RemoveTemp(r) \/ WorkerBroken(r) \/ WorkerMarkBroken(r)

Removing(m) == Unlink(m) \/ RemoveFinish(m) \/ RemoveMark(m)

CacheInit ==
    /\ w = None
    /\ n = [c \in Calls |-> 0]
    /\ p = [c \in Calls |-> FALSE]
    /\ f = [c \in Calls |-> FALSE]
    /\ e = [c \in Calls |-> "nil"]
    /\ at = [r \in Readers |-> "begin"]
    /\ o = [r \in Readers |-> None]
    /\ live = [r \in Readers |-> FALSE]
    /\ res = [r \in Readers |-> "none"]
    /\ readDone = [r \in Readers |-> FALSE]
    /\ rm = [m \in Removers |-> "idle"]
    /\ seen = [m \in Removers |-> None]
    /\ replaced = {}
    /\ wk = [r \in Readers |-> "none"]
    /\ pub = [r \in Readers |-> "live"]
    /\ tmp = [r \in Readers |-> "none"]
    /\ tmpName = [r \in Readers |-> FALSE]
    /\ rd = [r \in Readers |-> "none"]
    /\ rdGen = [r \in Readers |-> None]
    /\ stable \in {None, Old}

Step ==
    \/ \E r \in Readers : Obtaining(r) \/ Copying(r) \/ Generating(r)
    \/ \E m \in Removers : RemoveStart(m) \/ Removing(m)

\* A panic ends the process; calls that have all returned leave it idle.
CacheNext ==
    \/ ~Crashed /\ Step
    \/ Terminated /\ UNCHANGED cacheVars

CacheSpec == CacheInit /\ [][CacheNext]_cacheVars

\* The Go scheduler lets every goroutine that can take a step take it, and a
\* generation and a started removal end.  The copies to the clients in Prompt
\* end too; a client outside Prompt may stop reading for ever.
Fairness(Prompt) ==
    /\ \A r \in Readers : WF_cacheVars(~Crashed /\ Obtaining(r))
    /\ \A r \in Readers : WF_cacheVars(~Crashed /\ Generating(r))
    /\ \A r \in Prompt : WF_cacheVars(~Crashed /\ Copying(r))
    /\ \A m \in Removers : WF_cacheVars(~Crashed /\ Removing(m))

-----------------------------------------------------------------------------
(***************************************************************************)
(* Properties.                                                             *)
(***************************************************************************)

ReaderPcs == {"begin", "second", "open", "publishFile", "mkTemp", "publishPub",
              "broken", "markBroken", "wait", "asleep", "copyPub", "wgWait",
              "rewait", "reasleep", "copyFile", "unreg", "delist",
              "closeFile", "clearFile", "done"}
RemoverPcs == {"idle", "unlink", "parked", "finish", "mark", "panicked", "done"}
WorkerPcs == {"none", "gen", "close", "unpubOk", "unpubErr", "stat", "rename",
              "decide", "reopen", "publish", "rmTemp", "broken", "markBroken",
              "done"}
Handle == {"none", "open", "closed"}

\* Every variable keeps its type; the reference counter never goes negative.
CacheTypeOK ==
    /\ w \in Calls \cup {None}
    /\ n \in [Calls -> Nat]
    /\ p \in [Calls -> BOOLEAN]
    /\ f \in [Calls -> BOOLEAN]
    /\ e \in [Calls -> {"nil", "restart", "fail"}]
    /\ at \in [Readers -> ReaderPcs]
    /\ o \in [Readers -> Calls \cup {None}]
    /\ rm \in [Removers -> RemoverPcs]
    /\ seen \in [Removers -> Calls \cup {None}]
    /\ replaced \subseteq Removers
    /\ live \in [Readers -> BOOLEAN]
    /\ res \in [Readers -> {"none", "again", "ok", "copyErr", "closedErr",
                            "pubErr", "objErr", "openErr", "restartErr"}]
    /\ readDone \in [Readers -> BOOLEAN]
    /\ wk \in [Readers -> WorkerPcs]
    /\ pub \in [Readers -> {"live", "eof", "failed"}]
    /\ tmp \in [Readers -> Handle]
    /\ tmpName \in [Readers -> BOOLEAN]
    /\ rd \in [Readers -> Handle]
    /\ rdGen \in [Readers -> Readers \cup {Old, None}]
    /\ stable \in Readers \cup {Old, None}

\* The calls that count as users of the object of c: the ObtainItems that
\* registered with it while it was alive, and the removal it stands for.
Users(c) ==
    {r \in Readers : o[r] = c /\ live[r]} \cup
    {m \in Removers \cap {c} : rm[m] \in {"unlink", "parked", "finish", "mark"}}

\* A placeholder that was overwritten and whose removal has ended: its
\* RemoveItemFinish may have returned early, with the counter still up.
Abandoned(c) == c \in Removers \cap replaced /\ rm[c] \in {"done", "panicked"}

\* CacheObj.n ("current amount of readers, refcount for gc", line 43) counts
\* the users exactly, until an error takes the object out of use; only the
\* placeholder of a removal that another one overtook is left as it was.
RefCountExact ==
    \A c \in Calls : \/ n[c] = Cardinality(Users(c))
                     \/ n[c] = 0 /\ e[c] # "nil"
                     \/ Abandoned(c)

\* The file of an object is closed by its last user only: no call that
\* registered while the object was alive ever reads a closed handle
\* (unregister_from_o, lines 128-144).
UsedFileStaysOpen ==
    \A r \in Readers : at[r] = "copyFile" /\ live[r] => rd[o[r]] = "open"

\* errRestart is an internal signal: no ObtainItem hands it to its client
\* (line 390 would), because the goroutine raises it only when the publisher
\* is the sole user and has finished reading (lines 268-285).
RestartStaysInside ==
    \A r \in Readers : res[r] # "restartErr"

\* What holds until an item is removed.
Unremoved == \A m \in Removers : rm[m] = "idle"

\* Until a removal begins, one generation of the id runs at a time, and it is
\* the one of the current entry.
SingleFlight ==
    Unremoved =>
        \A r \in Readers :
            wk[r] \in {"gen", "close", "unpubOk", "unpubErr", "stat", "rename"}
                => w = r

\* Until a removal begins, a reader that was interrupted by the close of the
\* temporary file goes on in the very content it started with.
ResumesSameContent ==
    Unremoved => \A r \in Readers : tmp[r] # "none" /\ rd[r] # "none" => rdGen[r] = r

\* Until a removal begins, a failed or finished generation leaves no temporary
\* file.
NoStrayTempFile ==
    Unremoved => \A r \in Readers : wk[r] = "done" => ~tmpName[r]

\* From RemoveItemStart until RemoveItemFinish the entry is the placeholder,
\* whatever the users of the object it displaced still do, unless another
\* removal of the id overwrites it: nobody publishes an object for an item that
\* is being removed (lines 403-409), and the finish of such a removal meets
\* nothing but its own placeholder.
PlaceholderHoldsEntry ==
    \A m \in Removers \ replaced :
        /\ rm[m] \in {"unlink", "parked", "finish"} => w = m
        /\ rm[m] # "panicked"

\* The sanity check of RemoveItemFinish (lines 498-502) never fires: "we can't
\* be overwritten by valid object", "if we're overwritten, that has to be
\* placeholder object too".
NeverPanics == ~Crashed

=============================================================================
