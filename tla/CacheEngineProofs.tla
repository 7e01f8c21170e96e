------------------------- MODULE CacheEngineProofs -------------------------
(***************************************************************************)
(* Proofs about CacheEngine for every finite set of calls.  The argument:  *)
(* each conjunct of IInv (module CacheEngineInv) is preserved by each      *)
(* action, given the others.  Types come first and need nothing else;      *)
(* CallsStep and ObjectsStep follow what the calls and the objects know of *)
(* one another; SerialStep follows the placeholder of a removal; CountStep *)
(* follows the reference counter, where the cardinality of the set of      *)
(* users moves with registration and unregistration.                       *)
(***************************************************************************)
EXTENDS CacheEngineInv, FiniteSetTheorems, TLAPS

\* Every step keeps the types; no other part of the invariant is needed.
LEMMA TypeStep ==
    ASSUME CacheTypeOK, Step
    PROVE  CacheTypeOK'
<1> USE CallsAssumption
    DEF CacheTypeOK, Calls, ReaderPcs, RemoverPcs, WorkerPcs, Handle, Go, RmGoto,
        object, ceVars, locals, removal, files
<1>1. ASSUME NEW r \in Readers, Register(r), w \in Calls
      PROVE  /\ n' \in [Calls -> Nat]
             /\ live' \in [Readers -> BOOLEAN]
             /\ o' \in [Readers -> Calls \cup {None}]
             /\ at' \in [Readers -> ReaderPcs]
             /\ res' \in [Readers -> {"none", "again", "ok", "copyErr",
                          "closedErr", "pubErr", "objErr", "openErr",
                          "restartErr"}]
  <2>1. n' \in [Calls -> Nat] /\ live' \in [Readers -> BOOLEAN]
    BY <1>1 DEF Register
  <2>2. o' \in [Readers -> Calls \cup {None}]
    BY <1>1 DEF Register
  <2>3. Dispatch(r, w)
    BY <1>1 DEF Register
  <2>4. at' \in [Readers -> ReaderPcs]
    BY <2>3 DEF Dispatch
  <2>5. res' \in [Readers -> {"none", "again", "ok", "copyErr", "closedErr",
                              "pubErr", "objErr", "openErr", "restartErr"}]
    BY <2>3 DEF Dispatch
  <2>6. QED
    BY <2>1, <2>2, <2>4, <2>5
<1>2. ASSUME NEW r \in Readers, FirstCheck(r)
      PROVE  CacheTypeOK'
  <2>1. CASE w = None
    BY <1>2, <2>1 DEF FirstCheck
  <2>2. CASE w # None /\ n[w] > 0
    <3>1. Register(r) /\ UNCHANGED <<w, removal, readDone, wk, pub, files>>
      BY <1>2, <2>2 DEF FirstCheck
    <3>2. UNCHANGED <<p, f, e>>
      BY <3>1 DEF Register
    <3>3. QED
      BY <1>1, <2>2, <3>1, <3>2
  <2>3. CASE w # None /\ ~(n[w] > 0)
    BY <1>2, <2>3 DEF FirstCheck
  <2>4. QED
    BY <2>1, <2>2, <2>3
<1>3. ASSUME NEW r \in Readers, SecondCheck(r)
      PROVE  CacheTypeOK'
  <2>1. CASE w = None
    <3>1. /\ NewObject(r)
          /\ w' = r
          /\ o' = [o EXCEPT ![r] = r]
          /\ live' = [live EXCEPT ![r] = TRUE]
          /\ at' = [at EXCEPT ![r] = "open"]
          /\ UNCHANGED <<res, removal, readDone, wk, pub, files>>
      BY <1>3, <2>1 DEF SecondCheck
    <3>2. n' \in [Calls -> Nat] /\ UNCHANGED <<p, f, e>>
      BY <3>1 DEF NewObject
    <3>3. QED
      BY <3>1, <3>2
  <2>2. CASE w # None
    <3>1. Register(r) /\ UNCHANGED <<w, removal, readDone, wk, pub, files>>
      BY <1>3, <2>2 DEF SecondCheck
    <3>2. UNCHANGED <<p, f, e>>
      BY <3>1 DEF Register
    <3>3. QED
      BY <1>1, <2>2, <3>1, <3>2
  <2>3. QED
    BY <2>1, <2>2
<1>4. ASSUME NEW r \in Readers, OpenPassive(r)
      PROVE  CacheTypeOK'
  <2>1. rd' \in [Readers -> Handle] /\ rdGen' \in [Readers -> Readers \cup {Old, None}]
    BY <1>4 DEF OpenPassive
  <2>2. at' \in [Readers -> ReaderPcs]
    BY <1>4 DEF OpenPassive
  <2>3. QED
    BY <1>4, <2>1, <2>2 DEF OpenPassive
<1>5. ASSUME NEW r \in Readers, PublishFile(r) \/ PublishPub(r)
      PROVE  CacheTypeOK'
  <2>1. CASE PublishFile(r)
    BY <2>1 DEF PublishFile, Woken
  <2>2. CASE PublishPub(r)
    BY <2>2 DEF PublishPub, Woken
  <2>3. QED
    BY <1>5, <2>1, <2>2
<1>6. ASSUME NEW r \in Readers, NewTempFile(r)
      PROVE  CacheTypeOK'
  <2>1. tmp' \in [Readers -> Handle]
    BY <1>6 DEF NewTempFile
  <2>2. tmpName' \in [Readers -> BOOLEAN]
    BY <1>6 DEF NewTempFile
  <2>3. at' \in [Readers -> ReaderPcs]
    BY <1>6 DEF NewTempFile
  <2>4. QED
    BY <1>6, <2>1, <2>2, <2>3 DEF NewTempFile
<1>7. ASSUME NEW r \in Readers, OwnerBroken(r) \/ OwnerMarkBroken(r)
      PROVE  CacheTypeOK'
  <2>1. CASE OwnerBroken(r)
    BY <2>1 DEF OwnerBroken, Delist
  <2>2. CASE OwnerMarkBroken(r)
    BY <2>2 DEF OwnerMarkBroken, Woken
  <2>3. QED
    BY <1>7, <2>1, <2>2
<1>8. ASSUME NEW r \in Readers,
             AwaitNews(r) \/ CopyPubClosed(r) \/ WaitWorker(r) \/ AwaitReopened(r)
      PROVE  CacheTypeOK'
  <2>1. CASE AwaitNews(r)
    BY <2>1 DEF AwaitNews, Dispatch
  <2>2. CASE CopyPubClosed(r)
    BY <2>2 DEF CopyPubClosed
  <2>3. CASE WaitWorker(r)
    BY <2>3 DEF WaitWorker
  <2>4. CASE AwaitReopened(r)
    BY <2>4 DEF AwaitReopened
  <2>5. QED
    BY <1>8, <2>1, <2>2, <2>3, <2>4
<1>9. ASSUME NEW r \in Readers, Copying(r)
      PROVE  CacheTypeOK'
  <2>1. CASE CopyPubEnds(r)
    BY <2>1 DEF CopyPubEnds
  <2>2. CASE CopyFileEnds(r)
    BY <2>2 DEF CopyFileEnds
  <2>3. QED
    BY <1>9, <2>1, <2>2 DEF Copying
<1>10. ASSUME NEW r \in Readers, Leave(r)
       PROVE  /\ at' \in [Readers -> ReaderPcs]
              /\ o' \in [Readers -> Calls \cup {None}]
              /\ res' \in [Readers -> {"none", "again", "ok", "copyErr",
                           "closedErr", "pubErr", "objErr", "openErr",
                           "restartErr"}]
  BY <1>10 DEF Leave
<1>11. ASSUME NEW r \in Readers, Unregister(r)
       PROVE  CacheTypeOK'
  <2>1. n' \in [Calls -> Nat] /\ live' \in [Readers -> BOOLEAN]
    <3>1. n' = [n EXCEPT ![o[r]] = IF @ > 0 THEN @ - 1 ELSE @]
      BY <1>11 DEF Unregister
    <3>2. live' = [live EXCEPT ![r] = FALSE]
      BY <1>11 DEF Unregister
    <3>3. ASSUME NEW c \in Calls
          PROVE  n'[c] \in Nat
      BY <3>1
    <3>4. n' \in [Calls -> Nat]
      BY <3>1, <3>3
    <3>5. QED
      BY <3>2, <3>4
  <2>2. /\ at' \in [Readers -> ReaderPcs]
        /\ o' \in [Readers -> Calls \cup {None}]
        /\ res' \in [Readers -> {"none", "again", "ok", "copyErr", "closedErr",
                                 "pubErr", "objErr", "openErr", "restartErr"}]
    <3>1. CASE n[o[r]] = 1
      BY <1>11, <3>1 DEF Unregister
    <3>2. CASE n[o[r]] # 1
      <4>1. Leave(r)
        BY <1>11, <3>2 DEF Unregister
      <4>2. QED
        BY <1>10, <4>1
    <3>3. QED
      BY <3>1, <3>2
  <2>3. QED
    BY <1>11, <2>1, <2>2 DEF Unregister
<1>12. ASSUME NEW r \in Readers, LastDelist(r)
       PROVE  CacheTypeOK'
  BY <1>12 DEF LastDelist, Delist, Leave
<1>13. ASSUME NEW r \in Readers, LastClose(r) \/ LastClear(r)
       PROVE  CacheTypeOK'
  <2>1. CASE LastClose(r)
    BY <2>1 DEF LastClose
  <2>2. CASE LastClear(r)
    BY <2>2 DEF LastClear, Leave
  <2>3. QED
    BY <1>13, <2>1, <2>2
<1>14. ASSUME NEW r \in Readers,
              Generate(r) \/ CloseTemp(r) \/ Unpublish(r) \/ StatStable(r)
       PROVE  CacheTypeOK'
  <2>1. CASE Generate(r)
    BY <2>1 DEF Generate
  <2>2. CASE CloseTemp(r)
    BY <2>2 DEF CloseTemp
  <2>3. CASE Unpublish(r)
    BY <2>3 DEF Unpublish
  <2>4. CASE StatStable(r)
    BY <2>4 DEF StatStable
  <2>5. QED
    BY <1>14, <2>1, <2>2, <2>3, <2>4
<1>15. ASSUME NEW r \in Readers, RenameTemp(r)
       PROVE  CacheTypeOK'
  <2>1. tmpName' \in [Readers -> BOOLEAN]
    BY <1>15 DEF RenameTemp
  <2>2. stable' \in Readers \cup {Old, None}
    BY <1>15 DEF RenameTemp
  <2>3. wk' \in [Readers -> WorkerPcs]
    BY <1>15 DEF RenameTemp
  <2>4. QED
    BY <1>15, <2>1, <2>2, <2>3 DEF RenameTemp
<1>16. ASSUME NEW r \in Readers, Decide(r)
       PROVE  CacheTypeOK'
  <2>1. e' \in [Calls -> {"nil", "restart", "fail"}]
    BY <1>16 DEF Decide
  <2>2. at' \in [Readers -> ReaderPcs]
    BY <1>16 DEF Decide, Woken
  <2>3. wk' \in [Readers -> WorkerPcs]
    BY <1>16 DEF Decide
  <2>4. QED
    BY <1>16, <2>1, <2>2, <2>3 DEF Decide
<1>17. ASSUME NEW r \in Readers, ReopenStable(r) \/ PublishReopened(r)
       PROVE  CacheTypeOK'
  <2>1. CASE ReopenStable(r)
    BY <2>1 DEF ReopenStable
  <2>2. CASE PublishReopened(r)
    BY <2>2 DEF PublishReopened, Woken
  <2>3. QED
    BY <1>17, <2>1, <2>2
<1>18. ASSUME NEW r \in Readers,
              RemoveTemp(r) \/ WorkerBroken(r) \/ WorkerMarkBroken(r)
       PROVE  CacheTypeOK'
  <2>1. CASE RemoveTemp(r)
    BY <2>1 DEF RemoveTemp
  <2>2. CASE WorkerBroken(r)
    BY <2>2 DEF WorkerBroken, Delist
  <2>3. CASE WorkerMarkBroken(r)
    BY <2>3 DEF WorkerMarkBroken, Woken
  <2>4. QED
    BY <1>18, <2>1, <2>2, <2>3
<1>19. ASSUME NEW m \in Removers,
              RemoveStart(m) \/ Unlink(m) \/ RemoveFinish(m)
       PROVE  CacheTypeOK'
  BY <1>19 DEF RemoveStart, NewObject, Unlink, RemoveFinish, Delist
<1>20. ASSUME NEW m \in Removers, RemoveMark(m)
       PROVE  CacheTypeOK'
  <2>1. n' \in [Calls -> Nat] /\ e' \in [Calls -> {"nil", "restart", "fail"}]
    BY <1>20 DEF RemoveMark
  <2>2. at' \in [Readers -> ReaderPcs]
    BY <1>20 DEF RemoveMark, Woken
  <2>3. rm' \in [Removers -> RemoverPcs]
    BY <1>20 DEF RemoveMark
  <2>4. seen' \in [Removers -> Calls \cup {None}]
    BY <1>20 DEF RemoveMark
  <2>5. QED
    BY <1>20, <2>1, <2>2, <2>3, <2>4 DEF RemoveMark
<1>21. QED
  BY <1>2, <1>3, <1>4, <1>5, <1>6, <1>7, <1>8, <1>9, <1>11, <1>12, <1>13,
     <1>14, <1>15, <1>16, <1>17, <1>18, <1>19, <1>20
     DEF Step, Obtaining, Generating, Removing

\* The users of an object are finitely many.
LEMMA UsersFinite ==
    ASSUME NEW c
    PROVE  IsFiniteSet(Users(c))
<1>1. IsFiniteSet(Readers \cup {c})
  BY CallsAssumption, FS_AddElement
<1>2. Users(c) \subseteq Readers \cup {c}
  BY DEF Users
<1>3. QED
  BY <1>1, <1>2, FS_Subset

\* An object in use, without an error, is counted by somebody.
LEMMA Counted ==
    ASSUME IInv, NEW c \in Calls, ~Abandoned(c), e[c] = "nil", NEW x \in Users(c)
    PROVE  n[c] > 0
<1>1. n[c] = Cardinality(Users(c))
  BY DEF IInv, CountOK, ExactCount
<1>2. Cardinality(Users(c)) \in Nat /\ Cardinality(Users(c)) # 0
  BY UsersFinite, FS_CardinalityType, FS_EmptySet
<1>3. QED
  BY <1>1, <1>2

\* A publisher that counts alone is the only one that points to its object.
LEMMA SoleUser ==
    ASSUME IInv, NEW r \in Readers, NEW x \in Readers,
           o[r] = r, live[r], e[r] = "nil", n[r] = 1, o[x] = r
    PROVE  x = r
<1>1. live[x]
  <2>1. o[x] # None /\ n[o[x]] # 0
    BY CallsAssumption
  <2>2. QED
    BY <2>1 DEF IInv, CallsOK, LiveOK
<1>2. r \in Users(r) /\ x \in Users(r)
  BY <1>1 DEF Users
<1>3. ~Abandoned(r) /\ r \in Calls
  BY CallsAssumption DEF Abandoned, Calls
<1>4. Cardinality(Users(r)) = 1
  BY <1>3 DEF IInv, CountOK, ExactCount
<1>5. PICK y : Users(r) = {y}
  BY <1>4, UsersFinite, FS_Singleton
<1>6. QED
  BY <1>2, <1>5

\* The part of the invariant about calls and their goroutines is preserved.
LEMMA CallsStep ==
    ASSUME IInv, CacheTypeOK', Step
    PROVE  CallsOK'
<1> USE CallsAssumption DEF IInv, CacheTypeOK, CallsOK, ObjectsOK,
       UnpublishedOK, Unpublished, LiveOK, OwnerOK, WorkerOK, Working, ReadDoneOK,
       FileOK, ReadingOK, RestartOK, PlaceholderOK, Placing,
       OpeningPcs, CountedPcs, OwnerPcs, Go, RmGoto, Calls,
       object, ceVars, locals, removal, files
<1>1. ASSUME NEW r \in Readers, FirstCheck(r)
      PROVE  CallsOK'
  <2>1. UnpublishedOK'
    BY <1>1 DEF FirstCheck, Register, Dispatch
  <2>2. LiveOK'
    BY <1>1 DEF FirstCheck, Register, Dispatch
  <2>3. OwnerOK'
    BY <1>1 DEF FirstCheck, Register, Dispatch
  <2>4. WorkerOK'
    BY <1>1 DEF FirstCheck, Register, Dispatch
  <2>5. ReadDoneOK'
    BY <1>1 DEF FirstCheck, Register, Dispatch
  <2>6. QED
    BY <2>1, <2>2, <2>3, <2>4, <2>5
<1>2. ASSUME NEW r \in Readers, SecondCheck(r)
      PROVE  CallsOK'
  <2>1. CASE w = None
    <3>1. UnpublishedOK'
      BY <1>2, <2>1 DEF SecondCheck, NewObject
    <3>2. LiveOK'
      BY <1>2, <2>1 DEF SecondCheck, NewObject
    <3>3. OwnerOK'
      BY <1>2, <2>1 DEF SecondCheck, NewObject
    <3>4. WorkerOK'
      BY <1>2, <2>1 DEF SecondCheck, NewObject
    <3>5. ReadDoneOK'
      BY <1>2, <2>1 DEF SecondCheck, NewObject
    <3>6. QED
      BY <3>1, <3>2, <3>3, <3>4, <3>5
  <2>2. CASE w # None
    <3>1. UnpublishedOK'
      BY <1>2, <2>2 DEF SecondCheck, Register, Dispatch
    <3>2. LiveOK'
      BY <1>2, <2>2 DEF SecondCheck, Register, Dispatch
    <3>3. OwnerOK'
      BY <1>2, <2>2 DEF SecondCheck, Register, Dispatch
    <3>4. WorkerOK'
      BY <1>2, <2>2 DEF SecondCheck, Register, Dispatch
    <3>5. ReadDoneOK'
      BY <1>2, <2>2 DEF SecondCheck, Register, Dispatch
    <3>6. QED
      BY <3>1, <3>2, <3>3, <3>4, <3>5
  <2>3. QED
    BY <2>1, <2>2
<1>3. ASSUME NEW r \in Readers, OpenPassive(r)
      PROVE  CallsOK'
  <2>1. UnpublishedOK'
    BY <1>3 DEF OpenPassive
  <2>2. LiveOK'
    BY <1>3 DEF OpenPassive
  <2>3. OwnerOK'
    BY <1>3 DEF OpenPassive
  <2>4. WorkerOK'
    BY <1>3 DEF OpenPassive
  <2>5. ReadDoneOK'
    BY <1>3 DEF OpenPassive
  <2>6. QED
    BY <2>1, <2>2, <2>3, <2>4, <2>5
<1>4. ASSUME NEW r \in Readers, PublishFile(r)
      PROVE  CallsOK'
  <2>1. UnpublishedOK'
    BY <1>4 DEF PublishFile, Woken
  <2>2. LiveOK'
    BY <1>4 DEF PublishFile, Woken
  <2>3. OwnerOK'
    BY <1>4 DEF PublishFile, Woken
  <2>4. WorkerOK'
    BY <1>4 DEF PublishFile, Woken
  <2>5. ReadDoneOK'
    BY <1>4 DEF PublishFile, Woken
  <2>6. QED
    BY <2>1, <2>2, <2>3, <2>4, <2>5
<1>5. ASSUME NEW r \in Readers, NewTempFile(r)
      PROVE  CallsOK'
  <2>1. UnpublishedOK'
    BY <1>5 DEF NewTempFile
  <2>2. LiveOK'
    BY <1>5 DEF NewTempFile
  <2>3. OwnerOK'
    BY <1>5 DEF NewTempFile
  <2>4. WorkerOK'
    BY <1>5 DEF NewTempFile
  <2>5. ReadDoneOK'
    BY <1>5 DEF NewTempFile
  <2>6. QED
    BY <2>1, <2>2, <2>3, <2>4, <2>5
<1>6. ASSUME NEW r \in Readers, PublishPub(r)
      PROVE  CallsOK'
  <2>1. UnpublishedOK'
    BY <1>6 DEF PublishPub, Woken
  <2>2. LiveOK'
    BY <1>6 DEF PublishPub, Woken
  <2>3. OwnerOK'
    BY <1>6 DEF PublishPub, Woken
  <2>4. WorkerOK'
    BY <1>6 DEF PublishPub, Woken
  <2>5. ReadDoneOK'
    BY <1>6 DEF PublishPub, Woken
  <2>6. QED
    BY <2>1, <2>2, <2>3, <2>4, <2>5
<1>7. ASSUME NEW r \in Readers, OwnerBroken(r)
      PROVE  CallsOK'
  BY <1>7 DEF OwnerBroken, Delist
<1>8. ASSUME NEW r \in Readers, OwnerMarkBroken(r)
      PROVE  CallsOK'
  <2>1. UnpublishedOK'
    BY <1>8 DEF OwnerMarkBroken, Woken
  <2>2. LiveOK'
    BY <1>8 DEF OwnerMarkBroken, Woken
  <2>3. OwnerOK'
    BY <1>8 DEF OwnerMarkBroken, Woken
  <2>4. WorkerOK'
    BY <1>8 DEF OwnerMarkBroken, Woken
  <2>5. ReadDoneOK'
    BY <1>8 DEF OwnerMarkBroken, Woken
  <2>6. QED
    BY <2>1, <2>2, <2>3, <2>4, <2>5
<1>9. ASSUME NEW r \in Readers, AwaitNews(r)
      PROVE  CallsOK'
  BY <1>9 DEF AwaitNews, Dispatch, HasNews
<1>10. ASSUME NEW r \in Readers, CopyPubEnds(r)
       PROVE  CallsOK'
  BY <1>10 DEF CopyPubEnds
<1>11. ASSUME NEW r \in Readers, CopyPubClosed(r)
       PROVE  CallsOK'
  <2>1. UnpublishedOK'
    BY <1>11 DEF CopyPubClosed
  <2>2. LiveOK'
    BY <1>11 DEF CopyPubClosed
  <2>3. OwnerOK'
    BY <1>11 DEF CopyPubClosed
  <2>4. WorkerOK'
    BY <1>11 DEF CopyPubClosed
  <2>5. ReadDoneOK'
    BY <1>11 DEF CopyPubClosed
  <2>6. QED
    BY <2>1, <2>2, <2>3, <2>4, <2>5
<1>12. ASSUME NEW r \in Readers, WaitWorker(r)
       PROVE  CallsOK'
  BY <1>12 DEF WaitWorker
<1>13. ASSUME NEW r \in Readers, AwaitReopened(r)
       PROVE  CallsOK'
  BY <1>13 DEF AwaitReopened
<1>14. ASSUME NEW r \in Readers, CopyFileEnds(r)
       PROVE  CallsOK'
  BY <1>14 DEF CopyFileEnds
<1>15. ASSUME NEW r \in Readers, Unregister(r)
       PROVE  CallsOK'
  <2>1. UnpublishedOK'
    BY <1>15 DEF Unregister, Leave
  <2>2. LiveOK'
    BY <1>15 DEF Unregister, Leave
  <2>3. OwnerOK'
    BY <1>15 DEF Unregister, Leave
  <2>4. WorkerOK'
    BY <1>15 DEF Unregister, Leave
  <2>5. ReadDoneOK'
    BY <1>15 DEF Unregister, Leave
  <2>6. QED
    BY <2>1, <2>2, <2>3, <2>4, <2>5
<1>16. ASSUME NEW r \in Readers, LastDelist(r)
       PROVE  CallsOK'
  <2>1. UnpublishedOK'
    BY <1>16 DEF LastDelist, Delist, Leave
  <2>2. LiveOK'
    BY <1>16 DEF LastDelist, Delist, Leave
  <2>3. OwnerOK'
    BY <1>16 DEF LastDelist, Delist, Leave
  <2>4. WorkerOK'
    BY <1>16 DEF LastDelist, Delist, Leave
  <2>5. ReadDoneOK'
    BY <1>16 DEF LastDelist, Delist, Leave
  <2>6. QED
    BY <2>1, <2>2, <2>3, <2>4, <2>5
<1>17. ASSUME NEW r \in Readers, LastClose(r)
       PROVE  CallsOK'
  <2>1. ASSUME NEW x \in Readers, o[x] = x, live[x], e[x] = "nil"
        PROVE  o[r] # x
    <3>1. x \in Users(x) /\ ~Abandoned(x)
      BY <2>1 DEF Users, Abandoned
    <3>2. n[x] > 0
      BY <2>1, <3>1, Counted
    <3>3. QED
      BY <1>17, <3>2 DEF LastClose
  <2>2. UnpublishedOK' /\ LiveOK' /\ ReadDoneOK'
    BY <1>17 DEF LastClose
  <2>3. OwnerOK'
    BY <1>17, <2>1 DEF LastClose
  <2>4. WorkerOK'
    BY <1>17, <2>1 DEF LastClose
  <2>5. QED
    BY <2>2, <2>3, <2>4
<1>18. ASSUME NEW r \in Readers, LastClear(r)
       PROVE  CallsOK'
  BY <1>18 DEF LastClear, Leave
<1>19. ASSUME NEW r \in Readers, Generate(r)
       PROVE  CallsOK'
  BY <1>19 DEF Generate
<1>20. ASSUME NEW r \in Readers, CloseTemp(r)
       PROVE  CallsOK'
  BY <1>20 DEF CloseTemp
<1>21. ASSUME NEW r \in Readers, Unpublish(r)
       PROVE  CallsOK'
  BY <1>21 DEF Unpublish
<1>22. ASSUME NEW r \in Readers, StatStable(r)
       PROVE  CallsOK'
  BY <1>22 DEF StatStable
<1>23. ASSUME NEW r \in Readers, RenameTemp(r)
       PROVE  CallsOK'
  BY <1>23 DEF RenameTemp
<1>24. ASSUME NEW r \in Readers, Decide(r)
       PROVE  CallsOK'
  <2>1. UnpublishedOK'
    BY <1>24 DEF Decide, Woken
  <2>2. LiveOK'
    BY <1>24 DEF Decide, Woken
  <2>3. OwnerOK'
    BY <1>24 DEF Decide, Woken
  <2>4. WorkerOK'
    BY <1>24 DEF Decide, Woken
  <2>5. ReadDoneOK'
    BY <1>24 DEF Decide, Woken
  <2>6. QED
    BY <2>1, <2>2, <2>3, <2>4, <2>5
<1>25. ASSUME NEW r \in Readers, ReopenStable(r)
       PROVE  CallsOK'
  BY <1>25 DEF ReopenStable
<1>26. ASSUME NEW r \in Readers, PublishReopened(r)
       PROVE  CallsOK'
  BY <1>26 DEF PublishReopened, Woken
<1>27. ASSUME NEW r \in Readers, RemoveTemp(r)
       PROVE  CallsOK'
  BY <1>27 DEF RemoveTemp
<1>28. ASSUME NEW r \in Readers, WorkerBroken(r)
       PROVE  CallsOK'
  BY <1>28 DEF WorkerBroken, Delist
<1>29. ASSUME NEW r \in Readers, WorkerMarkBroken(r)
       PROVE  CallsOK'
  BY <1>29 DEF WorkerMarkBroken, Woken
<1>30. ASSUME NEW m \in Removers, RemoveStart(m)
       PROVE  CallsOK'
  BY <1>30 DEF RemoveStart, NewObject
<1>31. ASSUME NEW m \in Removers, Unlink(m)
       PROVE  CallsOK'
  BY <1>31 DEF Unlink
<1>32. ASSUME NEW m \in Removers, RemoveFinish(m)
       PROVE  CallsOK'
  BY <1>32 DEF RemoveFinish, Delist
<1>33. ASSUME NEW m \in Removers, RemoveMark(m)
       PROVE  CallsOK'
  <2>1. UnpublishedOK'
    BY <1>33 DEF RemoveMark, HasNews, Woken
  <2>2. LiveOK'
    BY <1>33 DEF RemoveMark, HasNews, Woken
  <2>3. OwnerOK'
    BY <1>33 DEF RemoveMark, HasNews, Woken
  <2>4. WorkerOK'
    BY <1>33 DEF RemoveMark, HasNews, Woken
  <2>5. ReadDoneOK'
    BY <1>33 DEF RemoveMark, HasNews, Woken
  <2>6. QED
    BY <2>1, <2>2, <2>3, <2>4, <2>5
<1>34. QED
  BY <1>1, <1>2, <1>3, <1>4, <1>5, <1>6, <1>7, <1>8, <1>9, <1>10, <1>11, <1>12, <1>13, <1>14, <1>15, <1>16, <1>17, <1>18, <1>19, <1>20, <1>21, <1>22, <1>23, <1>24, <1>25, <1>26, <1>27, <1>28, <1>29, <1>30, <1>31, <1>32, <1>33
     DEF Step, Obtaining, Copying, Generating, Removing


\* The part of the invariant about the objects and their files is preserved.
LEMMA ObjectsStep ==
    ASSUME IInv, CacheTypeOK', Step
    PROVE  ObjectsOK'
<1> USE CallsAssumption DEF IInv, CacheTypeOK, CallsOK, ObjectsOK,
       UnpublishedOK, Unpublished, LiveOK, OwnerOK, WorkerOK, Working, ReadDoneOK,
       FileOK, ReadingOK, RestartOK, RestartStaysInside, PlaceholderOK, Placing,
       OpeningPcs, CountedPcs, OwnerPcs, Go, RmGoto, Calls,
       object, ceVars, locals, removal, files
<1>1. ASSUME NEW r \in Readers, FirstCheck(r)
      PROVE  ObjectsOK'
  <2>1. FileOK'
    <3>1. UNCHANGED <<f, e, rd>>
      BY <1>1 DEF FirstCheck, Register
    <3>2. n' = n \/ n' = [n EXCEPT ![w] = IF @ > 0 THEN @ + 1 ELSE @]
      BY <1>1 DEF FirstCheck, Register
    <3>3. \A c \in Calls : n'[c] > 0 => n[c] > 0
      BY <3>2
    <3>4. QED
      BY <3>1, <3>3
  <2>2. ReadingOK'
    BY <1>1 DEF FirstCheck, Register, Dispatch
  <2>3. RestartOK'
    BY <1>1 DEF FirstCheck, Register, Dispatch
  <2>4. RestartStaysInside'
    BY <1>1 DEF FirstCheck, Register, Dispatch
  <2>5. PlaceholderOK'
    BY <1>1 DEF FirstCheck, Register, Dispatch
  <2>6. QED
    BY <2>1, <2>2, <2>3, <2>4, <2>5
<1>2. ASSUME NEW r \in Readers, SecondCheck(r)
      PROVE  ObjectsOK'
  <2>1. CASE w = None
    <3>1. FileOK'
      BY <1>2, <2>1 DEF SecondCheck, NewObject
    <3>2. ReadingOK'
      BY <1>2, <2>1 DEF SecondCheck, NewObject
    <3>3. RestartOK'
      BY <1>2, <2>1 DEF SecondCheck, NewObject
    <3>4. RestartStaysInside'
      BY <1>2, <2>1 DEF SecondCheck, NewObject
    <3>5. PlaceholderOK'
      BY <1>2, <2>1 DEF SecondCheck, NewObject
    <3>6. QED
      BY <3>1, <3>2, <3>3, <3>4, <3>5
  <2>2. CASE w # None
    <3>1. FileOK'
      <4>1. /\ UNCHANGED <<f, e, rd>>
            /\ n' = [n EXCEPT ![w] = IF @ > 0 THEN @ + 1 ELSE @]
        BY <1>2, <2>2 DEF SecondCheck, Register
      <4>2. \A c \in Calls : n'[c] > 0 => n[c] > 0
        BY <4>1
      <4>3. QED
        BY <4>1, <4>2
    <3>2. ReadingOK'
      BY <1>2, <2>2 DEF SecondCheck, Register, Dispatch
    <3>3. RestartOK'
      BY <1>2, <2>2 DEF SecondCheck, Register, Dispatch
    <3>4. RestartStaysInside'
      BY <1>2, <2>2 DEF SecondCheck, Register, Dispatch
    <3>5. PlaceholderOK'
      BY <1>2, <2>2 DEF SecondCheck, Register, Dispatch
    <3>6. QED
      BY <3>1, <3>2, <3>3, <3>4, <3>5
  <2>3. QED
    BY <2>1, <2>2
<1>3. ASSUME NEW r \in Readers, OpenPassive(r)
      PROVE  ObjectsOK'
  <2>1. FileOK'
    BY <1>3 DEF OpenPassive
  <2>2. ReadingOK'
    BY <1>3 DEF OpenPassive
  <2>3. RestartOK'
    BY <1>3 DEF OpenPassive
  <2>4. RestartStaysInside'
    BY <1>3 DEF OpenPassive
  <2>5. PlaceholderOK'
    BY <1>3 DEF OpenPassive
  <2>6. QED
    BY <2>1, <2>2, <2>3, <2>4, <2>5
<1>4. ASSUME NEW r \in Readers, PublishFile(r)
      PROVE  ObjectsOK'
  <2>1. FileOK'
    BY <1>4 DEF PublishFile, Woken
  <2>2. ReadingOK'
    BY <1>4 DEF PublishFile, Woken
  <2>3. RestartOK'
    BY <1>4 DEF PublishFile, Woken
  <2>4. RestartStaysInside'
    BY <1>4 DEF PublishFile, Woken
  <2>5. PlaceholderOK'
    BY <1>4 DEF PublishFile, Woken
  <2>6. QED
    BY <2>1, <2>2, <2>3, <2>4, <2>5
<1>5. ASSUME NEW r \in Readers, NewTempFile(r)
      PROVE  ObjectsOK'
  <2>1. FileOK'
    BY <1>5 DEF NewTempFile
  <2>2. ReadingOK'
    BY <1>5 DEF NewTempFile
  <2>3. RestartOK'
    BY <1>5 DEF NewTempFile
  <2>4. RestartStaysInside'
    BY <1>5 DEF NewTempFile
  <2>5. PlaceholderOK'
    BY <1>5 DEF NewTempFile
  <2>6. QED
    BY <2>1, <2>2, <2>3, <2>4, <2>5
<1>6. ASSUME NEW r \in Readers, PublishPub(r)
      PROVE  ObjectsOK'
  <2>1. FileOK'
    BY <1>6 DEF PublishPub, Woken
  <2>2. ReadingOK'
    BY <1>6 DEF PublishPub, Woken
  <2>3. RestartOK'
    BY <1>6 DEF PublishPub, Woken
  <2>4. RestartStaysInside'
    BY <1>6 DEF PublishPub, Woken
  <2>5. PlaceholderOK'
    BY <1>6 DEF PublishPub, Woken
  <2>6. QED
    BY <2>1, <2>2, <2>3, <2>4, <2>5
<1>7. ASSUME NEW r \in Readers, OwnerBroken(r)
      PROVE  ObjectsOK'
  BY <1>7 DEF OwnerBroken, Delist
<1>8. ASSUME NEW r \in Readers, OwnerMarkBroken(r)
      PROVE  ObjectsOK'
  <2>1. FileOK'
    BY <1>8 DEF OwnerMarkBroken, Woken
  <2>2. ReadingOK'
    BY <1>8 DEF OwnerMarkBroken, Woken
  <2>3. RestartOK'
    BY <1>8 DEF OwnerMarkBroken, Woken
  <2>4. RestartStaysInside'
    BY <1>8 DEF OwnerMarkBroken, Woken
  <2>5. PlaceholderOK'
    BY <1>8 DEF OwnerMarkBroken, Woken
  <2>6. QED
    BY <2>1, <2>2, <2>3, <2>4, <2>5
<1>9. ASSUME NEW r \in Readers, AwaitNews(r)
      PROVE  ObjectsOK'
  BY <1>9 DEF AwaitNews, Dispatch, HasNews
<1>10. ASSUME NEW r \in Readers, CopyPubEnds(r)
       PROVE  ObjectsOK'
  BY <1>10 DEF CopyPubEnds
<1>11. ASSUME NEW r \in Readers, CopyPubClosed(r)
       PROVE  ObjectsOK'
  <2>1. FileOK'
    BY <1>11 DEF CopyPubClosed
  <2>2. ReadingOK'
    BY <1>11 DEF CopyPubClosed
  <2>3. RestartOK'
    BY <1>11 DEF CopyPubClosed
  <2>4. RestartStaysInside'
    BY <1>11 DEF CopyPubClosed
  <2>5. PlaceholderOK'
    BY <1>11 DEF CopyPubClosed
  <2>6. QED
    BY <2>1, <2>2, <2>3, <2>4, <2>5
<1>12. ASSUME NEW r \in Readers, WaitWorker(r)
       PROVE  ObjectsOK'
  BY <1>12 DEF WaitWorker
<1>13. ASSUME NEW r \in Readers, AwaitReopened(r)
       PROVE  ObjectsOK'
  BY <1>13 DEF AwaitReopened
<1>14. ASSUME NEW r \in Readers, CopyFileEnds(r)
       PROVE  ObjectsOK'
  BY <1>14 DEF CopyFileEnds
<1>15. ASSUME NEW r \in Readers, Unregister(r)
       PROVE  ObjectsOK'
  <2>1. FileOK'
    BY <1>15 DEF Unregister, Leave
  <2>2. ReadingOK'
    BY <1>15 DEF Unregister, Leave
  <2>3. RestartOK'
    BY <1>15 DEF Unregister, Leave
  <2>4. RestartStaysInside'
    BY <1>15 DEF Unregister, Leave
  <2>5. PlaceholderOK'
    BY <1>15 DEF Unregister, Leave
  <2>6. QED
    BY <2>1, <2>2, <2>3, <2>4, <2>5
<1>16. ASSUME NEW r \in Readers, LastDelist(r)
       PROVE  ObjectsOK'
  <2>1. FileOK'
    BY <1>16 DEF LastDelist, Delist, Leave
  <2>2. ReadingOK'
    BY <1>16 DEF LastDelist, Delist, Leave
  <2>3. RestartOK'
    BY <1>16 DEF LastDelist, Delist, Leave
  <2>4. RestartStaysInside'
    BY <1>16 DEF LastDelist, Delist, Leave
  <2>5. PlaceholderOK'
    BY <1>16 DEF LastDelist, Delist, Leave
  <2>6. QED
    BY <2>1, <2>2, <2>3, <2>4, <2>5
<1>17. ASSUME NEW r \in Readers, LastClose(r)
       PROVE  ObjectsOK'
  BY <1>17 DEF LastClose
<1>18. ASSUME NEW r \in Readers, LastClear(r)
       PROVE  ObjectsOK'
  <2>1. ASSUME NEW x \in Readers, o[x] = o[r], live[x], at[x] = "copyFile"
        PROVE  FALSE
    <3>1. n[o[r]] = 0 /\ f[o[r]] /\ o[r] \in Readers
      BY <1>18, <2>1 DEF LastClear
    <3>2. x \in Users(o[r]) /\ ~Abandoned(o[r]) /\ e[o[r]] = "nil"
      BY <2>1, <3>1 DEF Users, Abandoned
    <3>3. QED
      BY <3>1, <3>2, Counted
  <2>2. FileOK'
    BY <1>18 DEF LastClear, Leave
  <2>3. ReadingOK'
    BY <1>18, <2>1 DEF LastClear, Leave
  <2>4. RestartOK' /\ RestartStaysInside' /\ PlaceholderOK'
    BY <1>18 DEF LastClear, Leave
  <2>5. QED
    BY <2>2, <2>3, <2>4
<1>19. ASSUME NEW r \in Readers, Generate(r)
       PROVE  ObjectsOK'
  BY <1>19 DEF Generate
<1>20. ASSUME NEW r \in Readers, CloseTemp(r)
       PROVE  ObjectsOK'
  BY <1>20 DEF CloseTemp
<1>21. ASSUME NEW r \in Readers, Unpublish(r)
       PROVE  ObjectsOK'
  BY <1>21 DEF Unpublish
<1>22. ASSUME NEW r \in Readers, StatStable(r)
       PROVE  ObjectsOK'
  BY <1>22 DEF StatStable
<1>23. ASSUME NEW r \in Readers, RenameTemp(r)
       PROVE  ObjectsOK'
  BY <1>23 DEF RenameTemp
<1>24. ASSUME NEW r \in Readers, Decide(r)
       PROVE  ObjectsOK'
  <2>1. CASE readDone[r] /\ n[r] = 1
    <3>1. o[r] = r /\ live[r] /\ e[r] = "nil" /\ at[r] = "wgWait"
      BY <1>24, <2>1 DEF Decide
    <3>2. \A x \in Readers : o[x] = r => x = r
      BY <2>1, <3>1, SoleUser
    <3>3. FileOK' /\ ReadingOK'
      BY <1>24, <2>1, <3>1, <3>2 DEF Decide, Woken
    <3>4. RestartOK' /\ RestartStaysInside' /\ PlaceholderOK'
      BY <1>24, <2>1, <3>1, <3>2 DEF Decide, Woken
    <3>5. QED
      BY <3>3, <3>4
  <2>2. CASE ~(readDone[r] /\ n[r] = 1)
    BY <1>24, <2>2 DEF Decide
  <2>3. QED
    BY <2>1, <2>2
<1>25. ASSUME NEW r \in Readers, ReopenStable(r)
       PROVE  ObjectsOK'
  BY <1>25 DEF ReopenStable
<1>26. ASSUME NEW r \in Readers, PublishReopened(r)
       PROVE  ObjectsOK'
  BY <1>26 DEF PublishReopened, Woken
<1>27. ASSUME NEW r \in Readers, RemoveTemp(r)
       PROVE  ObjectsOK'
  BY <1>27 DEF RemoveTemp
<1>28. ASSUME NEW r \in Readers, WorkerBroken(r)
       PROVE  ObjectsOK'
  BY <1>28 DEF WorkerBroken, Delist
<1>29. ASSUME NEW r \in Readers, WorkerMarkBroken(r)
       PROVE  ObjectsOK'
  BY <1>29 DEF WorkerMarkBroken, Woken
<1>30. ASSUME NEW m \in Removers, RemoveStart(m)
       PROVE  ObjectsOK'
  BY <1>30 DEF RemoveStart, NewObject
<1>31. ASSUME NEW m \in Removers, Unlink(m)
       PROVE  ObjectsOK'
  BY <1>31 DEF Unlink
<1>32. ASSUME NEW m \in Removers, RemoveFinish(m)
       PROVE  ObjectsOK'
  BY <1>32 DEF RemoveFinish, Delist
<1>33. ASSUME NEW m \in Removers, RemoveMark(m)
       PROVE  ObjectsOK'
  <2>1. FileOK'
    BY <1>33 DEF RemoveMark, HasNews, Woken
  <2>2. ReadingOK'
    BY <1>33 DEF RemoveMark, HasNews, Woken
  <2>3. RestartOK'
    BY <1>33 DEF RemoveMark, HasNews, Woken
  <2>4. RestartStaysInside'
    BY <1>33 DEF RemoveMark, HasNews, Woken
  <2>5. PlaceholderOK'
    BY <1>33 DEF RemoveMark, HasNews, Woken
  <2>6. QED
    BY <2>1, <2>2, <2>3, <2>4, <2>5
<1>34. QED
  BY <1>1, <1>2, <1>3, <1>4, <1>5, <1>6, <1>7, <1>8, <1>9, <1>10, <1>11, <1>12, <1>13, <1>14, <1>15, <1>16, <1>17, <1>18, <1>19, <1>20, <1>21, <1>22, <1>23, <1>24, <1>25, <1>26, <1>27, <1>28, <1>29, <1>30, <1>31, <1>32, <1>33
     DEF Step, Obtaining, Copying, Generating, Removing


\* A removal that no other one overtakes keeps the entry to itself.
LEMMA SerialStep ==
    ASSUME IInv, CacheTypeOK', Step
    PROVE  SerialOK'
<1> USE CallsAssumption DEF IInv, CacheTypeOK, CallsOK, SerialOK,
       UnpublishedOK, Unpublished, LiveOK, OwnerOK, WorkerOK, Working,
       Placing, OpeningPcs, OwnerPcs, Go, RmGoto, Calls,
       object, ceVars, locals, removal, files
<1>1. ASSUME NEW r \in Readers, FirstCheck(r)
      PROVE  SerialOK'
  BY <1>1 DEF FirstCheck, Register, Dispatch
<1>2. ASSUME NEW r \in Readers, SecondCheck(r)
      PROVE  SerialOK'
  BY <1>2 DEF SecondCheck, Register, Dispatch, NewObject
<1>3. ASSUME NEW r \in Readers, OpenPassive(r)
      PROVE  SerialOK'
  BY <1>3 DEF OpenPassive
<1>4. ASSUME NEW r \in Readers, PublishFile(r)
      PROVE  SerialOK'
  BY <1>4 DEF PublishFile, Woken
<1>5. ASSUME NEW r \in Readers, NewTempFile(r)
      PROVE  SerialOK'
  BY <1>5 DEF NewTempFile
<1>6. ASSUME NEW r \in Readers, PublishPub(r)
      PROVE  SerialOK'
  BY <1>6 DEF PublishPub, Woken
<1>7. ASSUME NEW r \in Readers, OwnerBroken(r)
      PROVE  SerialOK'
  BY <1>7 DEF OwnerBroken, Delist
<1>8. ASSUME NEW r \in Readers, OwnerMarkBroken(r)
      PROVE  SerialOK'
  BY <1>8 DEF OwnerMarkBroken, Woken
<1>9. ASSUME NEW r \in Readers, AwaitNews(r)
      PROVE  SerialOK'
  BY <1>9 DEF AwaitNews, Dispatch, HasNews
<1>10. ASSUME NEW r \in Readers, CopyPubEnds(r)
       PROVE  SerialOK'
  BY <1>10 DEF CopyPubEnds
<1>11. ASSUME NEW r \in Readers, CopyPubClosed(r)
       PROVE  SerialOK'
  BY <1>11 DEF CopyPubClosed
<1>12. ASSUME NEW r \in Readers, WaitWorker(r)
       PROVE  SerialOK'
  BY <1>12 DEF WaitWorker
<1>13. ASSUME NEW r \in Readers, AwaitReopened(r)
       PROVE  SerialOK'
  BY <1>13 DEF AwaitReopened
<1>14. ASSUME NEW r \in Readers, CopyFileEnds(r)
       PROVE  SerialOK'
  BY <1>14 DEF CopyFileEnds
<1>15. ASSUME NEW r \in Readers, Unregister(r)
       PROVE  SerialOK'
  BY <1>15 DEF Unregister, Leave
<1>16. ASSUME NEW r \in Readers, LastDelist(r)
       PROVE  SerialOK'
  <2>1. ASSUME NEW m \in Removers \ replaced, w = m
        PROVE  o[r] # m
    <3>1. CASE o[r] = m
      <4>1. m \in Users(m) /\ ~Abandoned(m) /\ e[m] = "nil"
        BY <2>1 DEF Users, Abandoned, ObjectsOK, PlaceholderOK
      <4>2. n[m] > 0
        BY <4>1, Counted
      <4>3. n[m] = 0
        BY <1>16, <3>1 DEF LastDelist, CountedPcs
      <4>4. QED
        BY <4>2, <4>3
    <3>2. QED
      BY <3>1
  <2>2. \A m \in Removers \ replaced : w = m => w' = m
    BY <1>16, <2>1 DEF LastDelist, Delist
  <2>3. w' \in {w, None}
    BY <1>16 DEF LastDelist, Delist
  <2>4. QED
    BY <1>16, <2>2, <2>3 DEF LastDelist
<1>17. ASSUME NEW r \in Readers, LastClose(r)
       PROVE  SerialOK'
  BY <1>17 DEF LastClose
<1>18. ASSUME NEW r \in Readers, LastClear(r)
       PROVE  SerialOK'
  BY <1>18 DEF LastClear, Leave
<1>19. ASSUME NEW r \in Readers, Generate(r)
       PROVE  SerialOK'
  BY <1>19 DEF Generate
<1>20. ASSUME NEW r \in Readers, CloseTemp(r)
       PROVE  SerialOK'
  BY <1>20 DEF CloseTemp
<1>21. ASSUME NEW r \in Readers, Unpublish(r)
       PROVE  SerialOK'
  BY <1>21 DEF Unpublish
<1>22. ASSUME NEW r \in Readers, StatStable(r)
       PROVE  SerialOK'
  BY <1>22 DEF StatStable
<1>23. ASSUME NEW r \in Readers, RenameTemp(r)
       PROVE  SerialOK'
  BY <1>23 DEF RenameTemp
<1>24. ASSUME NEW r \in Readers, Decide(r)
       PROVE  SerialOK'
  BY <1>24 DEF Decide, Woken
<1>25. ASSUME NEW r \in Readers, ReopenStable(r)
       PROVE  SerialOK'
  BY <1>25 DEF ReopenStable
<1>26. ASSUME NEW r \in Readers, PublishReopened(r)
       PROVE  SerialOK'
  BY <1>26 DEF PublishReopened, Woken
<1>27. ASSUME NEW r \in Readers, RemoveTemp(r)
       PROVE  SerialOK'
  BY <1>27 DEF RemoveTemp
<1>28. ASSUME NEW r \in Readers, WorkerBroken(r)
       PROVE  SerialOK'
  BY <1>28 DEF WorkerBroken, Delist
<1>29. ASSUME NEW r \in Readers, WorkerMarkBroken(r)
       PROVE  SerialOK'
  BY <1>29 DEF WorkerMarkBroken, Woken
<1>30. ASSUME NEW m \in Removers, RemoveStart(m)
       PROVE  SerialOK'
  BY <1>30 DEF RemoveStart, NewObject
<1>31. ASSUME NEW m \in Removers, Unlink(m)
       PROVE  SerialOK'
  BY <1>31 DEF Unlink
<1>32. ASSUME NEW m \in Removers, RemoveFinish(m)
       PROVE  SerialOK'
  BY <1>32 DEF RemoveFinish, Delist
<1>33. ASSUME NEW m \in Removers, RemoveMark(m)
       PROVE  SerialOK'
  <2>1. ~HasNews(m)
    BY <1>33 DEF RemoveMark, HasNews, ObjectsOK, PlaceholderOK
  <2>2. QED
    BY <1>33, <2>1 DEF RemoveMark
<1>34. QED
  BY <1>1, <1>2, <1>3, <1>4, <1>5, <1>6, <1>7, <1>8, <1>9, <1>10, <1>11, <1>12, <1>13, <1>14, <1>15, <1>16, <1>17, <1>18, <1>19, <1>20, <1>21, <1>22, <1>23, <1>24, <1>25, <1>26, <1>27, <1>28, <1>29, <1>30, <1>31, <1>32, <1>33
     DEF Step, Obtaining, Copying, Generating, Removing


\* A step of the reader r moves r into or out of the users of an object, and
\* nobody else.
LEMMA UsersChange ==
    ASSUME NEW r \in Readers, NEW c \in Calls,
           \A x \in Readers \ {r} : o'[x] = o[x] /\ live'[x] = live[x],
           rm' = rm
    PROVE  /\ o'[r] = c /\ live'[r] => Users(c)' = Users(c) \cup {r}
           /\ ~(o'[r] = c /\ live'[r]) => Users(c)' = Users(c) \ {r}
BY CallsAssumption DEF Users

\* The counter stays exact when neither it nor the users of the object change.
LEMMA CountFrame ==
    ASSUME NEW c \in Calls, ExactCount(c), Users(c)' = Users(c), n'[c] = n[c],
           e[c] # "nil" => e'[c] # "nil", Abandoned(c) => Abandoned(c)'
    PROVE  ExactCount(c)'
BY DEF ExactCount

\* Registration counts the call exactly when it makes it a user.
LEMMA RegisterCounts ==
    ASSUME IInv, NEW r \in Readers, o[r] = None, w # None, Register(r),
           UNCHANGED <<rm, replaced>>
    PROVE  CountOK'
<1> USE CallsAssumption DEF CacheTypeOK
<1>1. CacheTypeOK /\ w \in Calls
  BY DEF IInv
<1>2. /\ \A x \in Readers \ {r} : o'[x] = o[x] /\ live'[x] = live[x]
      /\ o'[r] = w
      /\ live'[r] = (n[w] > 0)
      /\ e' = e
      /\ \A c \in Calls \ {w} : n'[c] = n[c]
      /\ n'[w] = IF n[w] > 0 THEN n[w] + 1 ELSE n[w]
  BY <1>1 DEF Register
<1>3. SUFFICES ASSUME NEW c \in Calls
               PROVE  ExactCount(c)'
  BY DEF CountOK
<1>4. ExactCount(c) /\ r \notin Users(c) /\ (Abandoned(c) => Abandoned(c)')
  BY <1>3 DEF IInv, CountOK, Users, Abandoned, Calls
<1>5. CASE c = w /\ n[w] > 0
  <2>1. Users(c)' = Users(c) \cup {r}
    BY <1>2, <1>5, UsersChange
  <2>2. Cardinality(Users(c)') = Cardinality(Users(c)) + 1
    BY <1>4, <2>1, UsersFinite, FS_AddElement
  <2>3. QED
    BY <1>2, <1>4, <1>5, <2>2 DEF ExactCount
<1>6. CASE ~(c = w /\ n[w] > 0)
  <2>1. Users(c)' = Users(c)
    <3>1. Users(c)' = Users(c) \ {r}
      BY <1>2, <1>6, UsersChange
    <3>2. QED
      BY <1>4, <3>1
  <2>2. n'[c] = n[c]
    BY <1>2, <1>6
  <2>3. QED
    BY <1>2, <1>4, <2>1, <2>2, CountFrame
<1>7. QED
  BY <1>5, <1>6

\* unregister_from_o takes the call off the counter that counted it.
LEMMA UnregisterCounts ==
    ASSUME IInv, NEW r \in Readers, Unregister(r)
    PROVE  CountOK'
<1> USE CallsAssumption DEF CacheTypeOK
<1>1. CacheTypeOK /\ o[r] \in Calls
  BY DEF IInv, CallsOK, LiveOK, Unregister
<1>2. /\ \A x \in Readers \ {r} : o'[x] = o[x] /\ live'[x] = live[x]
      /\ ~live'[r]
      /\ e' = e /\ UNCHANGED <<rm, replaced>>
  BY <1>1 DEF Unregister, Leave, removal
<1>3. /\ \A c \in Calls \ {o[r]} : n'[c] = n[c]
      /\ n'[o[r]] = IF n[o[r]] > 0 THEN n[o[r]] - 1 ELSE n[o[r]]
  BY <1>1 DEF Unregister
<1>4. ~live[r] => n[o[r]] = 0
  BY <1>1 DEF IInv, CallsOK, LiveOK, Calls
<1>5. SUFFICES ASSUME NEW c \in Calls
               PROVE  ExactCount(c)'
  BY DEF CountOK
<1>6. ExactCount(c) /\ (Abandoned(c) => Abandoned(c)')
  BY <1>2 DEF IInv, CountOK, Abandoned
<1>7. Users(c)' = Users(c) \ {r}
  BY <1>2, UsersChange
<1>8. CASE c = o[r] /\ live[r]
  <2>1. r \in Users(c)
    BY <1>8 DEF Users
  <2>2. /\ Cardinality(Users(c)') = Cardinality(Users(c)) - 1
        /\ Cardinality(Users(c)) \in Nat
        /\ Cardinality(Users(c)) # 0
    BY <1>7, <2>1, UsersFinite, FS_RemoveElement, FS_CardinalityType, FS_EmptySet
  <2>3. QED
    BY <1>2, <1>3, <1>6, <1>8, <2>2 DEF ExactCount
<1>9. CASE ~(c = o[r] /\ live[r])
  <2>1. Users(c)' = Users(c)
    <3>1. r \notin Users(c)
      BY <1>9 DEF Users
    <3>2. QED
      BY <1>7, <3>1
  <2>2. n'[c] = n[c]
    BY <1>3, <1>4, <1>9
  <2>3. QED
    BY <1>2, <1>6, <2>1, <2>2, CountFrame
<1>10. QED
  BY <1>8, <1>9

\* The counter stays exact in a step that counts nobody and raises no error.
LEMMA CountSame ==
    ASSUME CountOK, UNCHANGED <<n, e, o, live, rm, replaced>>
    PROVE  CountOK'
BY DEF CountOK, ExactCount, Users, Abandoned

\* oo_broken takes the object of c out of use; the publisher itself, if it is
\* the one that fails, leaves it.
LEMMA BrokenCounts ==
    ASSUME IInv, NEW r \in Readers, e' = [e EXCEPT ![r] = "fail"],
           n' = [n EXCEPT ![r] = 0], UNCHANGED <<rm, replaced>>,
           \A x \in Readers \ {r} : o'[x] = o[x] /\ live'[x] = live[x],
           \/ o'[r] = o[r] /\ live'[r] = live[r]
           \/ o[r] = r /\ ~live'[r]
    PROVE  CountOK'
<1> USE CallsAssumption DEF CacheTypeOK, Calls
<1>1. CacheTypeOK
  BY DEF IInv
<1>2. SUFFICES ASSUME NEW c \in Calls
               PROVE  ExactCount(c)'
  BY DEF CountOK
<1>3. CASE c = r
  BY <1>1, <1>3 DEF ExactCount
<1>4. CASE c # r
  <2>1. ExactCount(c) /\ (Abandoned(c) => Abandoned(c)')
    BY DEF IInv, CountOK, Abandoned
  <2>2. n'[c] = n[c] /\ e'[c] = e[c]
    BY <1>1, <1>4
  <2>3. Users(c)' = Users(c)
    BY <1>4 DEF Users
  <2>4. QED
    BY <2>1, <2>2, <2>3, CountFrame
<1>5. QED
  BY <1>3, <1>4

\* The counter stays exact.
LEMMA CountStep ==
    ASSUME IInv, SerialOK', Step
    PROVE  CountOK'
<1> USE CallsAssumption
    DEF IInv, CacheTypeOK, Calls, Go, RmGoto, object, ceVars, locals, removal, files
<1>1. ASSUME NEW r \in Readers, FirstCheck(r)
      PROVE  CountOK'
  <2>1. CASE w = None
    BY <1>1, <2>1, CountSame DEF FirstCheck
  <2>2. CASE w # None /\ n[w] > 0
    <3>1. o[r] = None
      BY <1>1 DEF FirstCheck, CallsOK, LiveOK
    <3>2. Register(r) /\ UNCHANGED <<rm, replaced>>
      BY <1>1, <2>2 DEF FirstCheck
    <3>3. QED
      BY <2>2, <3>1, <3>2, RegisterCounts
  <2>3. CASE w # None /\ ~(n[w] > 0)
    BY <1>1, <2>3, CountSame DEF FirstCheck
  <2>4. QED
    BY <2>1, <2>2, <2>3
<1>2. ASSUME NEW r \in Readers, SecondCheck(r)
      PROVE  CountOK'
  <2>1. CASE w = None
    <3>1. SUFFICES ASSUME NEW c \in Calls
                   PROVE  ExactCount(c)'
      BY DEF CountOK
    <3>2. /\ \A x \in Readers \ {r} : o'[x] = o[x] /\ live'[x] = live[x]
          /\ o'[r] = r /\ live'[r] /\ UNCHANGED <<rm, replaced, e>>
          /\ n' = [n EXCEPT ![r] = 1]
      BY <1>2, <2>1 DEF SecondCheck, NewObject
    <3>3. Unpublished(r) /\ o[r] = None
      BY <1>2 DEF SecondCheck, CallsOK, UnpublishedOK, LiveOK
    <3>4. CASE c = r
      <4>1. Users(c)' = {r}
        BY <3>2, <3>3, <3>4 DEF Users, Unpublished
      <4>2. n'[c] = 1
        BY <3>2, <3>4
      <4>3. QED
        BY <4>1, <4>2, FS_Singleton DEF ExactCount
    <3>5. CASE c # r
      <4>1. Users(c)' = Users(c) \ {r}
        BY <3>2, <3>5, UsersChange
      <4>2. r \notin Users(c)
        BY <3>3 DEF Users
      <4>3. n'[c] = n[c] /\ ExactCount(c) /\ (Abandoned(c) => Abandoned(c)')
        BY <3>2, <3>5 DEF CountOK, Abandoned
      <4>4. Users(c)' = Users(c)
        BY <4>1, <4>2
      <4>5. QED
        BY <3>2, <4>3, <4>4, CountFrame
    <3>6. QED
      BY <3>4, <3>5
  <2>2. CASE w # None
    <3>1. o[r] = None
      BY <1>2 DEF SecondCheck, CallsOK, LiveOK
    <3>2. Register(r) /\ UNCHANGED <<rm, replaced>>
      BY <1>2, <2>2 DEF SecondCheck
    <3>3. QED
      BY <2>2, <3>1, <3>2, RegisterCounts
  <2>3. QED
    BY <2>1, <2>2
<1>3. ASSUME NEW r \in Readers, OwnerMarkBroken(r)
      PROVE  CountOK'
  <2>1. o[r] = r
    BY <1>3 DEF OwnerMarkBroken, CallsOK, OwnerOK, OpeningPcs
  <2>2. QED
    BY <1>3, <2>1, BrokenCounts DEF OwnerMarkBroken
<1>4. ASSUME NEW r \in Readers, WorkerMarkBroken(r)
      PROVE  CountOK'
  <2>1. /\ e' = [e EXCEPT ![r] = "fail"] /\ n' = [n EXCEPT ![r] = 0]
        /\ UNCHANGED <<o, live, rm, replaced>>
    BY <1>4 DEF WorkerMarkBroken
  <2>2. \A x \in Readers : o'[x] = o[x] /\ live'[x] = live[x]
    BY <2>1
  <2>3. QED
    BY <2>1, <2>2, BrokenCounts
<1>5. ASSUME NEW r \in Readers, Unregister(r)
      PROVE  CountOK'
  BY <1>5, UnregisterCounts
<1>6. ASSUME NEW r \in Readers, LastDelist(r) \/ LastClear(r)
      PROVE  CountOK'
  <2>1. ~live[r]
    BY <1>6 DEF LastDelist, LastClear, CallsOK, LiveOK, CountedPcs, OpeningPcs
  <2>2. UNCHANGED <<n, e, live, rm, replaced>>
    BY <1>6 DEF LastDelist, LastClear
  <2>3. \A x \in Readers \ {r} : o'[x] = o[x]
    BY <1>6 DEF LastDelist, LastClear, Leave
  <2>4. \A c \in Calls : Users(c)' = Users(c)
    BY <2>1, <2>2, <2>3 DEF Users
  <2>5. QED
    BY <2>2, <2>4, CountFrame DEF CountOK, Abandoned
<1>7. ASSUME NEW r \in Readers, Decide(r)
      PROVE  CountOK'
  <2>1. UNCHANGED <<n, o, live, rm, replaced>>
    BY <1>7 DEF Decide
  <2>2. \A c \in Calls : e[c] # "nil" => e'[c] # "nil"
    BY <1>7 DEF Decide
  <2>3. \A c \in Calls : Users(c)' = Users(c)
    BY <2>1 DEF Users
  <2>4. QED
    BY <2>1, <2>2, <2>3, CountFrame DEF CountOK, Abandoned
<1>8. ASSUME NEW m \in Removers, RemoveStart(m)
      PROVE  CountOK'
  <2>1. /\ UNCHANGED <<e, o, live>>
        /\ n' = [n EXCEPT ![m] = 1]
        /\ rm' = [rm EXCEPT ![m] = "unlink"]
        /\ replaced \subseteq replaced'
    BY <1>8 DEF RemoveStart, NewObject
  <2>2. Unpublished(m) /\ rm[m] = "idle"
    BY <1>8 DEF RemoveStart, CallsOK, UnpublishedOK
  <2>3. SUFFICES ASSUME NEW c \in Calls
                 PROVE  ExactCount(c)'
    BY DEF CountOK
  <2>4. CASE c = m
    <3>1. Users(c)' = {m}
      BY <2>1, <2>2, <2>4 DEF Users, Unpublished
    <3>2. n'[c] = 1
      BY <2>1, <2>4
    <3>3. QED
      BY <3>1, <3>2, FS_Singleton DEF ExactCount
  <2>5. CASE c # m
    <3>1. Users(c)' = Users(c)
      BY <2>1, <2>5 DEF Users
    <3>2. n'[c] = n[c] /\ ExactCount(c) /\ (Abandoned(c) => Abandoned(c)')
      BY <2>1, <2>2, <2>5 DEF CountOK, Abandoned
    <3>3. QED
      BY <2>1, <3>1, <3>2, CountFrame
  <2>6. QED
    BY <2>4, <2>5
<1>9. ASSUME NEW m \in Removers, Unlink(m)
      PROVE  CountOK'
  <2>1. UNCHANGED <<n, e, o, live, replaced>>
    BY <1>9 DEF Unlink
  <2>2. /\ \A x \in Removers \ {m} : rm'[x] = rm[x]
        /\ rm[m] = "unlink" /\ rm'[m] \in {"parked", "finish"}
    BY <1>9 DEF Unlink
  <2>3. \A c \in Calls : Users(c)' = Users(c) /\ (Abandoned(c) => Abandoned(c)')
    BY <2>1, <2>2 DEF Users, Abandoned
  <2>4. QED
    BY <2>1, <2>3, CountFrame DEF CountOK
<1>10. ASSUME NEW m \in Removers, RemoveFinish(m)
       PROVE  CountOK'
  <2>1. UNCHANGED <<n, e, o, live, replaced>>
    BY <1>10 DEF RemoveFinish
  <2>2. /\ \A x \in Removers \ {m} : rm'[x] = rm[x]
        /\ rm[m] \in {"parked", "finish"}
        /\ rm'[m] = (IF w = None THEN "done" ELSE "mark")
    BY <1>10 DEF RemoveFinish
  <2>3. w = None => m \in replaced'
    BY <1>10, <2>2 DEF SerialOK, RemoveFinish
  <2>4. SUFFICES ASSUME NEW c \in Calls
                 PROVE  ExactCount(c)'
    BY DEF CountOK
  <2>5. CASE c = m /\ w = None
    BY <2>2, <2>3, <2>5 DEF ExactCount, Abandoned
  <2>6. CASE ~(c = m /\ w = None)
    <3>1. Users(c)' = Users(c) /\ (Abandoned(c) => Abandoned(c)')
      BY <2>1, <2>2, <2>6 DEF Users, Abandoned
    <3>2. QED
      BY <2>1, <3>1, CountFrame DEF CountOK
  <2>7. QED
    BY <2>5, <2>6
<1>11. ASSUME NEW m \in Removers, RemoveMark(m)
       PROVE  CountOK'
  <2>1. /\ UNCHANGED <<o, live, replaced>>
        /\ rm[m] = "mark"
        /\ \A x \in Removers \ {m} : rm'[x] = rm[x]
        /\ \/ rm'[m] = "panicked" /\ UNCHANGED <<n, e>>
           \/ /\ rm'[m] = "done"
              /\ n' = [n EXCEPT ![m] = 0]
              /\ e' = [e EXCEPT ![m] = "restart"]
    BY <1>11 DEF RemoveMark
  <2>2. SUFFICES ASSUME NEW c \in Calls
                 PROVE  ExactCount(c)'
    BY DEF CountOK
  <2>3. CASE c = m
    <3>1. CASE rm'[m] = "panicked"
      BY <1>11, <2>3, <3>1 DEF SerialOK, ExactCount, Abandoned
    <3>2. CASE rm'[m] # "panicked"
      BY <2>1, <2>3, <3>2 DEF ExactCount
    <3>3. QED
      BY <3>1, <3>2
  <2>4. CASE c # m
    <3>1. Users(c)' = Users(c) /\ (Abandoned(c) => Abandoned(c)')
      BY <2>1, <2>4 DEF Users, Abandoned
    <3>2. n'[c] = n[c] /\ e'[c] = e[c]
      BY <2>1, <2>4
    <3>3. QED
      BY <3>1, <3>2, CountFrame DEF CountOK
  <2>5. QED
    BY <2>3, <2>4
<1>12. ASSUME NEW r \in Readers, OpenPassive(r)
       PROVE  CountOK'
  BY <1>12, CountSame DEF OpenPassive
<1>13. ASSUME NEW r \in Readers, PublishFile(r)
       PROVE  CountOK'
  BY <1>13, CountSame DEF PublishFile
<1>14. ASSUME NEW r \in Readers, NewTempFile(r)
       PROVE  CountOK'
  BY <1>14, CountSame DEF NewTempFile
<1>15. ASSUME NEW r \in Readers, PublishPub(r)
       PROVE  CountOK'
  BY <1>15, CountSame DEF PublishPub
<1>16. ASSUME NEW r \in Readers, OwnerBroken(r)
       PROVE  CountOK'
  BY <1>16, CountSame DEF OwnerBroken
<1>17. ASSUME NEW r \in Readers, AwaitNews(r)
       PROVE  CountOK'
  BY <1>17, CountSame DEF AwaitNews
<1>18. ASSUME NEW r \in Readers, CopyPubEnds(r)
       PROVE  CountOK'
  BY <1>18, CountSame DEF CopyPubEnds
<1>19. ASSUME NEW r \in Readers, CopyPubClosed(r)
       PROVE  CountOK'
  BY <1>19, CountSame DEF CopyPubClosed
<1>20. ASSUME NEW r \in Readers, WaitWorker(r)
       PROVE  CountOK'
  BY <1>20, CountSame DEF WaitWorker
<1>21. ASSUME NEW r \in Readers, AwaitReopened(r)
       PROVE  CountOK'
  BY <1>21, CountSame DEF AwaitReopened
<1>22. ASSUME NEW r \in Readers, CopyFileEnds(r)
       PROVE  CountOK'
  BY <1>22, CountSame DEF CopyFileEnds
<1>23. ASSUME NEW r \in Readers, LastClose(r)
       PROVE  CountOK'
  BY <1>23, CountSame DEF LastClose
<1>24. ASSUME NEW r \in Readers, Generate(r)
       PROVE  CountOK'
  BY <1>24, CountSame DEF Generate
<1>25. ASSUME NEW r \in Readers, CloseTemp(r)
       PROVE  CountOK'
  BY <1>25, CountSame DEF CloseTemp
<1>26. ASSUME NEW r \in Readers, Unpublish(r)
       PROVE  CountOK'
  BY <1>26, CountSame DEF Unpublish
<1>27. ASSUME NEW r \in Readers, StatStable(r)
       PROVE  CountOK'
  BY <1>27, CountSame DEF StatStable
<1>28. ASSUME NEW r \in Readers, RenameTemp(r)
       PROVE  CountOK'
  BY <1>28, CountSame DEF RenameTemp
<1>29. ASSUME NEW r \in Readers, ReopenStable(r)
       PROVE  CountOK'
  BY <1>29, CountSame DEF ReopenStable
<1>30. ASSUME NEW r \in Readers, PublishReopened(r)
       PROVE  CountOK'
  BY <1>30, CountSame DEF PublishReopened
<1>31. ASSUME NEW r \in Readers, RemoveTemp(r)
       PROVE  CountOK'
  BY <1>31, CountSame DEF RemoveTemp
<1>32. ASSUME NEW r \in Readers, WorkerBroken(r)
       PROVE  CountOK'
  BY <1>32, CountSame DEF WorkerBroken
<1>33. QED
  BY <1>1, <1>2, <1>3, <1>4, <1>5, <1>6, <1>7, <1>8, <1>9, <1>10, <1>11,
     <1>12, <1>13, <1>14, <1>15, <1>16, <1>17, <1>18, <1>19, <1>20, <1>21,
     <1>22, <1>23, <1>24, <1>25, <1>26, <1>27, <1>28, <1>29, <1>30, <1>31,
     <1>32
     DEF Step, Obtaining, Copying, Generating, Removing

\* Initially nothing is published, so every part of the invariant is vacuous.
LEMMA InitInv ==
    ASSUME CacheInit
    PROVE  IInv
<1> USE CallsAssumption DEF CacheInit, Calls
<1>1. CacheTypeOK
  BY DEF CacheTypeOK, ReaderPcs, RemoverPcs, WorkerPcs, Handle
<1>2. CallsOK
  BY DEF CallsOK, UnpublishedOK, Unpublished, LiveOK, OwnerOK, WorkerOK,
         Working, ReadDoneOK, OpeningPcs
<1>3. ObjectsOK
  BY DEF ObjectsOK, FileOK, ReadingOK, RestartOK, RestartStaysInside,
         PlaceholderOK
<1>4. SerialOK
  BY DEF SerialOK, Placing
<1>5. CountOK
  <2>1. \A c \in Calls : n[c] = 0 /\ Users(c) = {}
    BY DEF Users
  <2>2. QED
    BY <2>1, FS_EmptySet DEF CountOK, ExactCount
<1>6. QED
  BY <1>1, <1>2, <1>3, <1>4, <1>5 DEF IInv

\* What the invariant says does not change when no variable does.
LEMMA StutterInv ==
    ASSUME IInv, UNCHANGED cacheVars
    PROVE  IInv'
<1> USE DEF cacheVars, ceVars, object, locals, removal, files, IInv
<1>1. CacheTypeOK'
  BY DEF CacheTypeOK
<1>2. CallsOK'
  BY DEF CallsOK, UnpublishedOK, Unpublished, LiveOK, OwnerOK, WorkerOK,
         Working, ReadDoneOK
<1>3. ObjectsOK'
  BY DEF ObjectsOK, FileOK, ReadingOK, RestartOK, RestartStaysInside,
         PlaceholderOK, Placing
<1>4. SerialOK'
  BY DEF SerialOK, Placing
<1>5. CountOK'
  BY CountSame
<1>6. QED
  BY <1>1, <1>2, <1>3, <1>4, <1>5

\* Every variable keeps its type whatever the calls, their generations and the
\* removals do, and in whatever order: no counter goes below zero.
THEOREM Typing == CacheSpec => []CacheTypeOK
<1>1. CacheInit => CacheTypeOK
  BY InitInv DEF IInv
<1>2. CacheTypeOK /\ [CacheNext]_cacheVars => CacheTypeOK'
  <2>1. ASSUME CacheTypeOK, UNCHANGED cacheVars
        PROVE  CacheTypeOK'
    BY <2>1 DEF CacheTypeOK, cacheVars, ceVars, object, locals, removal, files
  <2>2. QED
    BY <2>1, TypeStep DEF CacheNext
<1>3. QED
  BY <1>1, <1>2, PTL DEF CacheSpec

\* The inductive invariant holds in every reachable state, for any finite set
\* of calls, with removals that overlap or not.
THEOREM Invariance == CacheSpec => []IInv
<1>1. CacheInit => IInv
  BY InitInv
<1>2. IInv /\ [CacheNext]_cacheVars => IInv'
  <2>1. ASSUME IInv, Step
        PROVE  IInv'
    <3>1. CacheTypeOK'
      BY <2>1, TypeStep DEF IInv
    <3>2. CallsOK' /\ ObjectsOK' /\ SerialOK'
      BY <2>1, <3>1, CallsStep, ObjectsStep, SerialStep
    <3>3. CountOK'
      BY <2>1, <3>2, CountStep
    <3>4. QED
      BY <3>1, <3>2, <3>3 DEF IInv
  <2>2. QED
    BY <2>1, StutterInv DEF CacheNext
<1>3. QED
  BY <1>1, <1>2, PTL DEF CacheSpec

\* No call that registered while the object was alive reads a file that
\* another call has closed: the last user of lines 128-144 is the last.
THEOREM FileOfUserStaysOpen == CacheSpec => []UsedFileStaysOpen
<1>1. IInv => UsedFileStaysOpen
  <2>1. SUFFICES ASSUME IInv, NEW r \in Readers, at[r] = "copyFile", live[r]
                 PROVE  rd[o[r]] = "open"
    BY DEF UsedFileStaysOpen
  <2>2. o[r] \in Readers /\ f[o[r]] /\ e[o[r]] = "nil"
    BY <2>1, CallsAssumption
       DEF IInv, CacheTypeOK, ObjectsOK, ReadingOK, FileOK, Calls
  <2>3. r \in Users(o[r]) /\ ~Abandoned(o[r]) /\ o[r] \in Calls
    BY <2>1, <2>2, CallsAssumption DEF Users, Abandoned, Calls
  <2>4. n[o[r]] > 0
    BY <2>1, <2>2, <2>3, Counted
  <2>5. QED
    BY <2>1, <2>2, <2>3, <2>4 DEF IInv, ObjectsOK, FileOK
<1>2. QED
  BY <1>1, Invariance, PTL

\* errRestart never leaves the engine (line 390 could hand it to a client):
\* it is raised only for a publisher that counts alone and has read all.
THEOREM NoRestartForClients == CacheSpec => []RestartStaysInside
<1>1. IInv => RestartStaysInside
  BY DEF IInv, ObjectsOK
<1>2. QED
  BY <1>1, Invariance, PTL

\* The reference counter of every object is the number of its users until an
\* error takes the object out of use, with removals that overtake one another
\* too; only the placeholder of a removal that was overtaken keeps its count.
THEOREM CounterExact == CacheSpec => []RefCountExact
<1>1. IInv => RefCountExact
  BY DEF IInv, CountOK, ExactCount, RefCountExact
<1>2. QED
  BY <1>1, Invariance, PTL

\* However many removals of an id overlap: the entry is the placeholder of a
\* removal until its finish unless a later removal has overwritten it, and the
\* sanity check of lines 498-502 panics in no finish but that of an overtaken
\* removal.
THEOREM RemovalHoldsEntry == CacheSpec => []PlaceholderHoldsEntry
<1>1. IInv => PlaceholderHoldsEntry
  BY DEF IInv, SerialOK, PlaceholderHoldsEntry
<1>2. QED
  BY <1>1, Invariance, PTL

-----------------------------------------------------------------------------
(***************************************************************************)
(* What CacheEngine promises about an item that nobody removes, for every  *)
(* finite set of calls: one generation at a time, no temporary file left,  *)
(* and a reader goes on in the content it began with.  The argument: from  *)
(* the moment a call publishes its object until its generation has ended,  *)
(* the entry is that object.  Only the last user of an object takes it out *)
(* before that, and there the counter (CountOK of IInv) says that the      *)
(* publisher is still a user.                                              *)
(***************************************************************************)
\* Where the goroutine has not yet put the file in its place.
FlyingPcs == {"gen", "close", "unpubOk", "unpubErr", "stat", "rename"}

\* The call opens its files, or its goroutine runs and has not failed for good.
Staged(r) ==
    \/ at[r] \in OpeningPcs \ {"markBroken"}
    \/ wk[r] \in FlyingPcs \cup {"decide", "reopen", "publish", "rmTemp", "broken"}

\* The handles of an object follow where its publisher and its goroutine are.
HandlesOK ==
    \A r \in Readers :
        /\ at[r] # "done" /\ o[r] # r => rd[r] = "none" /\ tmp[r] = "none"
        /\ tmp[r] # "none" => at[r] \notin OpeningPcs \ {"publishPub"}
        /\ at[r] = "publishPub" \/ Working(r) => tmp[r] # "none"
        /\ at[r] \in {"open", "mkTemp"} => rd[r] = "none"
        /\ f[r] => rd[r] # "none"
        /\ at[r] = "closeFile" => o[r] \in Readers /\ rd[o[r]] # "none"

\* A staged object is the entry.
EntryOK == \A r \in Readers : Staged(r) => w = r

\* There is no stable file while one is made, and then it is the one made.
StableOK ==
    \A r \in Readers :
        /\ at[r] \in {"mkTemp", "publishPub"} \/ wk[r] \in FlyingPcs => stable = None
        /\ wk[r] \in {"decide", "reopen"} => stable = r

TempOK ==
    \A r \in Readers :
        tmpName[r] => at[r] = "publishPub" \/ wk[r] \in FlyingPcs \cup {"rmTemp"}

ContentOK == \A r \in Readers : tmp[r] # "none" /\ rd[r] # "none" => rdGen[r] = r

FlightOK == Unremoved => EntryOK /\ StableOK /\ TempOK /\ ContentOK

\* The handles follow every step.
LEMMA HandlesStep ==
    ASSUME IInv, HandlesOK, CacheTypeOK', Step
    PROVE  HandlesOK'
<1> USE CallsAssumption
    DEF HandlesOK, CacheTypeOK, Go, RmGoto, object, ceVars, locals, removal, files,
        Calls, IInv, CallsOK, ObjectsOK, UnpublishedOK, Unpublished, LiveOK, OwnerOK,
        WorkerOK, Working, FileOK, PlaceholderOK, OpeningPcs, OwnerPcs, CountedPcs
<1>1. ASSUME NEW r \in Readers,
             FirstCheck(r)
      PROVE  HandlesOK'
  BY <1>1 DEF FirstCheck, Register, Dispatch
<1>2. ASSUME NEW r \in Readers,
             SecondCheck(r)
      PROVE  HandlesOK'
  BY <1>2 DEF SecondCheck, Register, Dispatch, NewObject
<1>3. ASSUME NEW r \in Readers,
             OpenPassive(r) \/ NewTempFile(r)
      PROVE  HandlesOK'
  BY <1>3 DEF OpenPassive, NewTempFile
<1>4. ASSUME NEW r \in Readers,
             PublishFile(r)
      PROVE  HandlesOK'
  BY <1>4 DEF PublishFile, Woken
<1>5. ASSUME NEW r \in Readers,
             PublishPub(r)
      PROVE  HandlesOK'
  BY <1>5 DEF PublishPub, Woken
<1>6. ASSUME NEW r \in Readers,
             OwnerBroken(r)
      PROVE  HandlesOK'
  BY <1>6 DEF OwnerBroken, Delist
<1>7. ASSUME NEW r \in Readers,
             OwnerMarkBroken(r)
      PROVE  HandlesOK'
  BY <1>7 DEF OwnerMarkBroken, Woken
<1>8. ASSUME NEW r \in Readers,
             AwaitNews(r) \/ AwaitReopened(r) \/ WaitWorker(r)
      PROVE  HandlesOK'
  BY <1>8 DEF AwaitNews, Dispatch, AwaitReopened, WaitWorker
<1>9. ASSUME NEW r \in Readers,
             CopyPubClosed(r) \/ CopyPubEnds(r) \/ CopyFileEnds(r)
      PROVE  HandlesOK'
  BY <1>9 DEF CopyPubClosed, CopyPubEnds, CopyFileEnds
<1>10. ASSUME NEW r \in Readers,
              Unregister(r)
       PROVE  HandlesOK'
  BY <1>10 DEF Unregister, Leave
<1>11. ASSUME NEW r \in Readers,
              LastDelist(r)
       PROVE  HandlesOK'
  BY <1>11 DEF LastDelist, Delist, Leave
<1>12. ASSUME NEW r \in Readers,
              LastClose(r) \/ LastClear(r)
       PROVE  HandlesOK'
  BY <1>12 DEF LastClose, LastClear, Leave
<1>13. ASSUME NEW r \in Readers,
              Generate(r) \/ CloseTemp(r) \/ Unpublish(r)
       PROVE  HandlesOK'
  BY <1>13 DEF Generate, CloseTemp, Unpublish
<1>14. ASSUME NEW r \in Readers,
              StatStable(r) \/ RenameTemp(r) \/ RemoveTemp(r)
       PROVE  HandlesOK'
  BY <1>14 DEF StatStable, RenameTemp, RemoveTemp
<1>15. ASSUME NEW r \in Readers,
              Decide(r)
       PROVE  HandlesOK'
  BY <1>15 DEF Decide, Woken
<1>16. ASSUME NEW r \in Readers,
              ReopenStable(r) \/ PublishReopened(r)
       PROVE  HandlesOK'
  BY <1>16 DEF ReopenStable, PublishReopened, Woken
<1>17. ASSUME NEW r \in Readers,
              WorkerBroken(r) \/ WorkerMarkBroken(r)
       PROVE  HandlesOK'
  BY <1>17 DEF WorkerBroken, Delist, WorkerMarkBroken, Woken
<1>18. ASSUME NEW m \in Removers,
              RemoveStart(m) \/ Unlink(m) \/ RemoveFinish(m) \/ RemoveMark(m)
       PROVE  HandlesOK'
  BY <1>18 DEF RemoveStart, NewObject, Unlink, RemoveFinish, Delist,
     RemoveMark, Woken
<1>19. QED
  BY <1>1, <1>2, <1>3, <1>4, <1>5, <1>6, <1>7, <1>8, <1>9, <1>10, <1>11, <1>12, <1>13, <1>14, <1>15, <1>16, <1>17, <1>18 DEF Step, Obtaining, Copying, Generating, Removing

\* While nothing is removed, every step is one of an ObtainItem.
LEMMA UnremovedStep ==
    ASSUME CacheTypeOK, Step, Unremoved'
    PROVE  /\ Unremoved
           /\ \E r \in Readers : Obtaining(r) \/ Copying(r) \/ Generating(r)
<1> USE DEF CacheTypeOK, Unremoved, RmGoto, removal
<1>1. ASSUME NEW m \in Removers, RemoveStart(m) \/ Removing(m)
      PROVE  FALSE
  BY <1>1 DEF RemoveStart, Removing, Unlink, RemoveFinish, RemoveMark
<1>2. PICK r \in Readers : Obtaining(r) \/ Copying(r) \/ Generating(r)
  BY <1>1 DEF Step
<1>3. rm' = rm
  BY <1>2
     DEF Obtaining, Copying, Generating, FirstCheck, SecondCheck, OpenPassive,
         PublishFile, NewTempFile, PublishPub, OwnerBroken, OwnerMarkBroken,
         AwaitNews, CopyPubClosed, WaitWorker, AwaitReopened, Unregister,
         LastDelist, LastClose, LastClear, CopyPubEnds, CopyFileEnds,
         Generate, CloseTemp, Unpublish, StatStable, RenameTemp, Decide,
         ReopenStable, PublishReopened, RemoveTemp, WorkerBroken,
         WorkerMarkBroken
<1>4. QED
  BY <1>2, <1>3

\* The publisher of a staged object is one of its users, so n is not 0.
LEMMA StagedCounts ==
    ASSUME IInv, NEW x \in Readers, Staged(x)
    PROVE  n[x] > 0
<1>1. o[x] = x /\ live[x] /\ e[x] = "nil"
  BY DEF IInv, CallsOK, OwnerOK, WorkerOK, Working, Staged, FlyingPcs,
         OpeningPcs
<1>2. x \in Users(x) /\ ~Abandoned(x) /\ x \in Calls
  BY <1>1, CallsAssumption DEF Users, Abandoned, Calls
<1>3. QED
  BY <1>1, <1>2, Counted

\* A staged object stays the entry: nobody publishes over an entry, and the last
\* user of an object cannot be there while its publisher is staged.
LEMMA EntryStep ==
    ASSUME IInv, EntryOK, CacheTypeOK',
           NEW q \in Readers, Obtaining(q) \/ Copying(q) \/ Generating(q)
    PROVE  EntryOK'
<1> USE CallsAssumption
    DEF EntryOK, Staged, FlyingPcs, CacheTypeOK, Go, object, ceVars, locals, files,
        Calls, IInv, CallsOK, ObjectsOK, UnpublishedOK, Unpublished, LiveOK, OwnerOK,
        WorkerOK, Working, FileOK, PlaceholderOK, OpeningPcs, OwnerPcs, CountedPcs
<1>1. ASSUME NEW r \in Readers,
             FirstCheck(r)
      PROVE  EntryOK'
  BY <1>1 DEF FirstCheck, Register, Dispatch
<1>2. ASSUME NEW r \in Readers,
             SecondCheck(r)
      PROVE  EntryOK'
  BY <1>2 DEF SecondCheck, Register, Dispatch, NewObject
<1>3. ASSUME NEW r \in Readers,
             OpenPassive(r) \/ NewTempFile(r)
      PROVE  EntryOK'
  BY <1>3 DEF OpenPassive, NewTempFile
<1>4. ASSUME NEW r \in Readers,
             PublishFile(r)
      PROVE  EntryOK'
  BY <1>4 DEF PublishFile, Woken
<1>5. ASSUME NEW r \in Readers,
             PublishPub(r)
      PROVE  EntryOK'
  BY <1>5 DEF PublishPub, Woken
<1>6. ASSUME NEW r \in Readers,
             OwnerBroken(r)
      PROVE  EntryOK'
  BY <1>6 DEF OwnerBroken, Delist
<1>7. ASSUME NEW r \in Readers,
             OwnerMarkBroken(r)
      PROVE  EntryOK'
  BY <1>7 DEF OwnerMarkBroken, Woken
<1>8. ASSUME NEW r \in Readers,
             AwaitNews(r) \/ AwaitReopened(r) \/ WaitWorker(r)
      PROVE  EntryOK'
  BY <1>8 DEF AwaitNews, Dispatch, AwaitReopened, WaitWorker
<1>9. ASSUME NEW r \in Readers,
             CopyPubClosed(r) \/ CopyPubEnds(r) \/ CopyFileEnds(r)
      PROVE  EntryOK'
  BY <1>9 DEF CopyPubClosed, CopyPubEnds, CopyFileEnds
<1>10. ASSUME NEW r \in Readers,
              Unregister(r)
       PROVE  EntryOK'
  BY <1>10 DEF Unregister, Leave
<1>11. ASSUME NEW r \in Readers,
              LastDelist(r)
       PROVE  EntryOK'
  <2>1. n[o[r]] = 0
    BY <1>11 DEF LastDelist
  <2>2. \A x \in Readers : Staged(x) => w # o[r]
    BY <2>1, StagedCounts
  <2>3. \A x \in Readers : Staged(x)' => Staged(x)
    BY <1>11 DEF LastDelist, Leave
  <2>4. QED
    BY <1>11, <2>2, <2>3 DEF LastDelist, Delist
<1>12. ASSUME NEW r \in Readers,
              LastClose(r) \/ LastClear(r)
       PROVE  EntryOK'
  BY <1>12 DEF LastClose, LastClear, Leave
<1>13. ASSUME NEW r \in Readers,
              Generate(r) \/ CloseTemp(r) \/ Unpublish(r)
       PROVE  EntryOK'
  BY <1>13 DEF Generate, CloseTemp, Unpublish
<1>14. ASSUME NEW r \in Readers,
              StatStable(r) \/ RenameTemp(r) \/ RemoveTemp(r)
       PROVE  EntryOK'
  BY <1>14 DEF StatStable, RenameTemp, RemoveTemp
<1>15. ASSUME NEW r \in Readers,
              Decide(r)
       PROVE  EntryOK'
  BY <1>15 DEF Decide, Woken
<1>16. ASSUME NEW r \in Readers,
              ReopenStable(r) \/ PublishReopened(r)
       PROVE  EntryOK'
  BY <1>16 DEF ReopenStable, PublishReopened, Woken
<1>17. ASSUME NEW r \in Readers,
              WorkerBroken(r) \/ WorkerMarkBroken(r)
       PROVE  EntryOK'
  BY <1>17 DEF WorkerBroken, Delist, WorkerMarkBroken, Woken
<1>18. QED
  BY <1>1, <1>2, <1>3, <1>4, <1>5, <1>6, <1>7, <1>8, <1>9, <1>10, <1>11, <1>12, <1>13, <1>14, <1>15, <1>16, <1>17 DEF Obtaining, Copying, Generating

\* The goroutine that puts the file in its place is alone.
LEMMA StableStep ==
    ASSUME IInv, EntryOK, StableOK, CacheTypeOK',
           NEW q \in Readers, Obtaining(q) \/ Copying(q) \/ Generating(q)
    PROVE  StableOK'
<1> USE CallsAssumption
    DEF StableOK, EntryOK, Staged, FlyingPcs, CacheTypeOK, Go, object, ceVars, locals,
        files, Calls, IInv, CallsOK, ObjectsOK, UnpublishedOK, Unpublished, LiveOK, OwnerOK,
        WorkerOK, Working, FileOK, PlaceholderOK, OpeningPcs, OwnerPcs, CountedPcs
<1>1. ASSUME NEW r \in Readers,
             FirstCheck(r)
      PROVE  StableOK'
  BY <1>1 DEF FirstCheck, Register, Dispatch
<1>2. ASSUME NEW r \in Readers,
             SecondCheck(r)
      PROVE  StableOK'
  BY <1>2 DEF SecondCheck, Register, Dispatch, NewObject
<1>3. ASSUME NEW r \in Readers,
             OpenPassive(r) \/ NewTempFile(r)
      PROVE  StableOK'
  BY <1>3 DEF OpenPassive, NewTempFile
<1>4. ASSUME NEW r \in Readers,
             PublishFile(r)
      PROVE  StableOK'
  BY <1>4 DEF PublishFile, Woken
<1>5. ASSUME NEW r \in Readers,
             PublishPub(r)
      PROVE  StableOK'
  BY <1>5 DEF PublishPub, Woken
<1>6. ASSUME NEW r \in Readers,
             OwnerBroken(r)
      PROVE  StableOK'
  BY <1>6 DEF OwnerBroken, Delist
<1>7. ASSUME NEW r \in Readers,
             OwnerMarkBroken(r)
      PROVE  StableOK'
  BY <1>7 DEF OwnerMarkBroken, Woken
<1>8. ASSUME NEW r \in Readers,
             AwaitNews(r) \/ AwaitReopened(r) \/ WaitWorker(r)
      PROVE  StableOK'
  BY <1>8 DEF AwaitNews, Dispatch, AwaitReopened, WaitWorker
<1>9. ASSUME NEW r \in Readers,
             CopyPubClosed(r) \/ CopyPubEnds(r) \/ CopyFileEnds(r)
      PROVE  StableOK'
  BY <1>9 DEF CopyPubClosed, CopyPubEnds, CopyFileEnds
<1>10. ASSUME NEW r \in Readers,
              Unregister(r)
       PROVE  StableOK'
  BY <1>10 DEF Unregister, Leave
<1>11. ASSUME NEW r \in Readers,
              LastDelist(r)
       PROVE  StableOK'
  BY <1>11 DEF LastDelist, Delist, Leave
<1>12. ASSUME NEW r \in Readers,
              LastClose(r) \/ LastClear(r)
       PROVE  StableOK'
  BY <1>12 DEF LastClose, LastClear, Leave
<1>13. ASSUME NEW r \in Readers,
              Generate(r) \/ CloseTemp(r) \/ Unpublish(r)
       PROVE  StableOK'
  BY <1>13 DEF Generate, CloseTemp, Unpublish
<1>14. ASSUME NEW r \in Readers,
              StatStable(r) \/ RenameTemp(r) \/ RemoveTemp(r)
       PROVE  StableOK'
  BY <1>14 DEF StatStable, RenameTemp, RemoveTemp
<1>15. ASSUME NEW r \in Readers,
              Decide(r)
       PROVE  StableOK'
  BY <1>15 DEF Decide, Woken
<1>16. ASSUME NEW r \in Readers,
              ReopenStable(r) \/ PublishReopened(r)
       PROVE  StableOK'
  BY <1>16 DEF ReopenStable, PublishReopened, Woken
<1>17. ASSUME NEW r \in Readers,
              WorkerBroken(r) \/ WorkerMarkBroken(r)
       PROVE  StableOK'
  BY <1>17 DEF WorkerBroken, Delist, WorkerMarkBroken, Woken
<1>18. QED
  BY <1>1, <1>2, <1>3, <1>4, <1>5, <1>6, <1>7, <1>8, <1>9, <1>10, <1>11, <1>12, <1>13, <1>14, <1>15, <1>16, <1>17 DEF Obtaining, Copying, Generating

\* A temporary file has somebody who will rename or remove it.
LEMMA TempStep ==
    ASSUME IInv, StableOK, TempOK, CacheTypeOK',
           NEW q \in Readers, Obtaining(q) \/ Copying(q) \/ Generating(q)
    PROVE  TempOK'
<1> USE CallsAssumption
    DEF TempOK, StableOK, FlyingPcs, CacheTypeOK, Go, object, ceVars, locals,
        files, Calls, IInv, CallsOK, ObjectsOK, UnpublishedOK, Unpublished, LiveOK, OwnerOK,
        WorkerOK, Working, FileOK, PlaceholderOK, OpeningPcs, OwnerPcs, CountedPcs
<1>1. ASSUME NEW r \in Readers,
             FirstCheck(r)
      PROVE  TempOK'
  BY <1>1 DEF FirstCheck, Register, Dispatch
<1>2. ASSUME NEW r \in Readers,
             SecondCheck(r)
      PROVE  TempOK'
  BY <1>2 DEF SecondCheck, Register, Dispatch, NewObject
<1>3. ASSUME NEW r \in Readers,
             OpenPassive(r) \/ NewTempFile(r)
      PROVE  TempOK'
  BY <1>3 DEF OpenPassive, NewTempFile
<1>4. ASSUME NEW r \in Readers,
             PublishFile(r)
      PROVE  TempOK'
  BY <1>4 DEF PublishFile, Woken
<1>5. ASSUME NEW r \in Readers,
             PublishPub(r)
      PROVE  TempOK'
  BY <1>5 DEF PublishPub, Woken
<1>6. ASSUME NEW r \in Readers,
             OwnerBroken(r)
      PROVE  TempOK'
  BY <1>6 DEF OwnerBroken, Delist
<1>7. ASSUME NEW r \in Readers,
             OwnerMarkBroken(r)
      PROVE  TempOK'
  BY <1>7 DEF OwnerMarkBroken, Woken
<1>8. ASSUME NEW r \in Readers,
             AwaitNews(r) \/ AwaitReopened(r) \/ WaitWorker(r)
      PROVE  TempOK'
  BY <1>8 DEF AwaitNews, Dispatch, AwaitReopened, WaitWorker
<1>9. ASSUME NEW r \in Readers,
             CopyPubClosed(r) \/ CopyPubEnds(r) \/ CopyFileEnds(r)
      PROVE  TempOK'
  BY <1>9 DEF CopyPubClosed, CopyPubEnds, CopyFileEnds
<1>10. ASSUME NEW r \in Readers,
              Unregister(r)
       PROVE  TempOK'
  BY <1>10 DEF Unregister, Leave
<1>11. ASSUME NEW r \in Readers,
              LastDelist(r)
       PROVE  TempOK'
  BY <1>11 DEF LastDelist, Delist, Leave
<1>12. ASSUME NEW r \in Readers,
              LastClose(r) \/ LastClear(r)
       PROVE  TempOK'
  BY <1>12 DEF LastClose, LastClear, Leave
<1>13. ASSUME NEW r \in Readers,
              Generate(r) \/ CloseTemp(r) \/ Unpublish(r)
       PROVE  TempOK'
  BY <1>13 DEF Generate, CloseTemp, Unpublish
<1>14. ASSUME NEW r \in Readers,
              StatStable(r) \/ RenameTemp(r) \/ RemoveTemp(r)
       PROVE  TempOK'
  BY <1>14 DEF StatStable, RenameTemp, RemoveTemp
<1>15. ASSUME NEW r \in Readers,
              Decide(r)
       PROVE  TempOK'
  BY <1>15 DEF Decide, Woken
<1>16. ASSUME NEW r \in Readers,
              ReopenStable(r) \/ PublishReopened(r)
       PROVE  TempOK'
  BY <1>16 DEF ReopenStable, PublishReopened, Woken
<1>17. ASSUME NEW r \in Readers,
              WorkerBroken(r) \/ WorkerMarkBroken(r)
       PROVE  TempOK'
  BY <1>17 DEF WorkerBroken, Delist, WorkerMarkBroken, Woken
<1>18. QED
  BY <1>1, <1>2, <1>3, <1>4, <1>5, <1>6, <1>7, <1>8, <1>9, <1>10, <1>11, <1>12, <1>13, <1>14, <1>15, <1>16, <1>17 DEF Obtaining, Copying, Generating

\* What is opened again is what was made.
LEMMA ContentStep ==
    ASSUME IInv, HandlesOK, StableOK, ContentOK, CacheTypeOK',
           NEW q \in Readers, Obtaining(q) \/ Copying(q) \/ Generating(q)
    PROVE  ContentOK'
<1> USE CallsAssumption
    DEF ContentOK, HandlesOK, StableOK, FlyingPcs, CacheTypeOK, Go, object, ceVars,
        locals, files, Calls, IInv, CallsOK, ObjectsOK, UnpublishedOK, Unpublished, LiveOK, OwnerOK,
        WorkerOK, Working, FileOK, PlaceholderOK, OpeningPcs, OwnerPcs, CountedPcs
<1>1. ASSUME NEW r \in Readers,
             FirstCheck(r)
      PROVE  ContentOK'
  BY <1>1 DEF FirstCheck, Register, Dispatch
<1>2. ASSUME NEW r \in Readers,
             SecondCheck(r)
      PROVE  ContentOK'
  BY <1>2 DEF SecondCheck, Register, Dispatch, NewObject
<1>3. ASSUME NEW r \in Readers,
             OpenPassive(r) \/ NewTempFile(r)
      PROVE  ContentOK'
  BY <1>3 DEF OpenPassive, NewTempFile
<1>4. ASSUME NEW r \in Readers,
             PublishFile(r)
      PROVE  ContentOK'
  BY <1>4 DEF PublishFile, Woken
<1>5. ASSUME NEW r \in Readers,
             PublishPub(r)
      PROVE  ContentOK'
  BY <1>5 DEF PublishPub, Woken
<1>6. ASSUME NEW r \in Readers,
             OwnerBroken(r)
      PROVE  ContentOK'
  BY <1>6 DEF OwnerBroken, Delist
<1>7. ASSUME NEW r \in Readers,
             OwnerMarkBroken(r)
      PROVE  ContentOK'
  BY <1>7 DEF OwnerMarkBroken, Woken
<1>8. ASSUME NEW r \in Readers,
             AwaitNews(r) \/ AwaitReopened(r) \/ WaitWorker(r)
      PROVE  ContentOK'
  BY <1>8 DEF AwaitNews, Dispatch, AwaitReopened, WaitWorker
<1>9. ASSUME NEW r \in Readers,
             CopyPubClosed(r) \/ CopyPubEnds(r) \/ CopyFileEnds(r)
      PROVE  ContentOK'
  BY <1>9 DEF CopyPubClosed, CopyPubEnds, CopyFileEnds
<1>10. ASSUME NEW r \in Readers,
              Unregister(r)
       PROVE  ContentOK'
  BY <1>10 DEF Unregister, Leave
<1>11. ASSUME NEW r \in Readers,
              LastDelist(r)
       PROVE  ContentOK'
  BY <1>11 DEF LastDelist, Delist, Leave
<1>12. ASSUME NEW r \in Readers,
              LastClose(r) \/ LastClear(r)
       PROVE  ContentOK'
  BY <1>12 DEF LastClose, LastClear, Leave
<1>13. ASSUME NEW r \in Readers,
              Generate(r) \/ CloseTemp(r) \/ Unpublish(r)
       PROVE  ContentOK'
  BY <1>13 DEF Generate, CloseTemp, Unpublish
<1>14. ASSUME NEW r \in Readers,
              StatStable(r) \/ RenameTemp(r) \/ RemoveTemp(r)
       PROVE  ContentOK'
  BY <1>14 DEF StatStable, RenameTemp, RemoveTemp
<1>15. ASSUME NEW r \in Readers,
              Decide(r)
       PROVE  ContentOK'
  BY <1>15 DEF Decide, Woken
<1>16. ASSUME NEW r \in Readers,
              ReopenStable(r) \/ PublishReopened(r)
       PROVE  ContentOK'
  BY <1>16 DEF ReopenStable, PublishReopened, Woken
<1>17. ASSUME NEW r \in Readers,
              WorkerBroken(r) \/ WorkerMarkBroken(r)
       PROVE  ContentOK'
  BY <1>17 DEF WorkerBroken, Delist, WorkerMarkBroken, Woken
<1>18. QED
  BY <1>1, <1>2, <1>3, <1>4, <1>5, <1>6, <1>7, <1>8, <1>9, <1>10, <1>11, <1>12, <1>13, <1>14, <1>15, <1>16, <1>17 DEF Obtaining, Copying, Generating

\* Nothing is published and no handle is open at the start.
LEMMA FlightInit ==
    ASSUME CacheInit
    PROVE  HandlesOK /\ FlightOK
BY CallsAssumption
   DEF CacheInit, HandlesOK, FlightOK, EntryOK, StableOK, TempOK, ContentOK, Staged,
       FlyingPcs, OpeningPcs, Working, Calls

\* Handles and flight hold in every reachable state, with removals or without.
THEOREM FlightInvariance == CacheSpec => [](HandlesOK /\ FlightOK)
<1>1. CacheInit => HandlesOK /\ FlightOK
  BY FlightInit
<1>2. IInv /\ HandlesOK /\ FlightOK /\ [CacheNext]_cacheVars => (HandlesOK /\ FlightOK)'
  <2>1. ASSUME IInv, HandlesOK, FlightOK, Step
        PROVE  (HandlesOK /\ FlightOK)'
    <3>1. CacheTypeOK /\ CacheTypeOK'
      BY <2>1, TypeStep DEF IInv
    <3>2. HandlesOK'
      BY <2>1, <3>1, HandlesStep
    <3>3. ASSUME Unremoved'
          PROVE  (EntryOK /\ StableOK /\ TempOK /\ ContentOK)'
      <4>1. EntryOK /\ StableOK /\ TempOK /\ ContentOK
        BY <2>1, <3>1, <3>3, UnremovedStep DEF FlightOK
      <4>2. PICK r \in Readers : Obtaining(r) \/ Copying(r) \/ Generating(r)
        BY <2>1, <3>1, <3>3, UnremovedStep
      <4>3. EntryOK'
        BY <2>1, <3>1, <4>1, <4>2, EntryStep
      <4>4. StableOK'
        BY <2>1, <3>1, <4>1, <4>2, StableStep
      <4>5. TempOK'
        BY <2>1, <3>1, <4>1, <4>2, TempStep
      <4>6. ContentOK'
        BY <2>1, <3>1, <4>1, <4>2, ContentStep
      <4>7. QED
        BY <4>3, <4>4, <4>5, <4>6
    <3>4. QED
      BY <3>2, <3>3 DEF FlightOK
  <2>2. ASSUME HandlesOK, FlightOK, UNCHANGED cacheVars
        PROVE  (HandlesOK /\ FlightOK)'
    BY <2>2
       DEF HandlesOK, FlightOK, Unremoved, EntryOK, StableOK, TempOK, ContentOK,
           Staged, Working, cacheVars, ceVars, object, locals, removal, files
  <2>3. QED
    BY <2>1, <2>2 DEF CacheNext
<1>3. QED
  BY <1>1, <1>2, Invariance, PTL DEF CacheSpec

\* However many calls ask for an item at once: until a removal begins, one
\* generation of it runs at a time, and the entry is its object
\* (lines 181-199: the second look under the write lock).
THEOREM OneGenerationAtATime == CacheSpec => []SingleFlight
<1>1. FlightOK => SingleFlight
  BY DEF FlightOK, EntryOK, Staged, FlyingPcs, SingleFlight
<1>2. QED
  BY <1>1, FlightInvariance, PTL

\* Until a removal begins, a generation that ended, well or not, has left no
\* temporary file: RenameNoClobber cannot find the name taken, for nobody else
\* makes the file meanwhile.
THEOREM NoTempFileStays == CacheSpec => []NoStrayTempFile
<1>1. IInv /\ FlightOK => NoStrayTempFile
  BY DEF FlightOK, TempOK, FlyingPcs, NoStrayTempFile, IInv, CallsOK, OwnerOK,
         OpeningPcs
<1>2. QED
  BY <1>1, FlightInvariance, Invariance, PTL

\* Until a removal begins, a reader that the close of the temporary file
\* interrupted goes on in the content that it began with: the file opened by
\* name is the one that was renamed to it.
THEOREM SameContent == CacheSpec => []ResumesSameContent
<1>1. FlightOK => ResumesSameContent
  BY DEF FlightOK, ContentOK, ResumesSameContent
<1>2. QED
  BY <1>1, FlightInvariance, PTL
=============================================================================
