-------------------------- MODULE PullerTodoProofs --------------------------
(***************************************************************************)
(* Proofs about PullerTodo, for lists of any length, any capacity of the   *)
(* queue and any numbers of the articles.                                  *)
(***************************************************************************)
EXTENDS PullerTodo, TLAPS

\* The actions of the caller and of the response loop, one by one.
LEMMA NextCases ==
    ASSUME [TodoNext]_todoVars
    PROVE  \/ Poll("poll1", "wanted") \/ Poll("poll2", "reference") \/ Poll("poll3", "ask")
           \/ Wanted \/ Reference \/ Ask \/ Queue \/ CloseTodo \/ AwaitWorker
           \/ ErrAwaitWorker \/ Return
           \/ TakeTodo \/ ReadGood \/ ReadStrange \/ ReadFatal \/ RaiseMax
           \/ UNCHANGED todoVars
BY DEF TodoNext, Calling, Responding, Finished

Reading == ReadGood \/ ReadStrange \/ ReadFatal

\* Which actions change what.
LEMMA Frames ==
    ASSUME [TodoNext]_todoVars
    PROVE  /\ UNCHANGED <<list, maxid>>
           /\ Ask \/ UNCHANGED asked
           /\ Reading \/ UNCHANGED answered
           /\ Queue \/ TakeTodo \/ UNCHANGED todochan
           /\ CloseTodo \/ UNCHANGED closed
           /\ Return \/ UNCHANGED <<recorded, stored>>
           /\ Wanted \/ RaiseMax \/ UNCHANGED newMax
           /\ Wanted \/ Reading \/ UNCHANGED fate
           /\ Reference \/ UNCHANGED declined
           /\ TakeTodo \/ Reading \/ RaiseMax \/ UNCHANGED cur
<1> USE NextCases DEF caller, group, worker, wire, todoVars, Reading, Answer
<1>1. UNCHANGED <<list, maxid>>
  BY DEF Poll, Wanted, Reference, Ask, Queue, CloseTodo, AwaitWorker, ErrAwaitWorker, Return,
     TakeTodo, ReadGood, ReadStrange, ReadFatal, RaiseMax
<1>2. Ask \/ UNCHANGED asked
  BY DEF Poll, Wanted, Reference, Queue, CloseTodo, AwaitWorker, ErrAwaitWorker, Return,
     TakeTodo, ReadGood, ReadStrange, ReadFatal, RaiseMax
<1>3. Reading \/ UNCHANGED answered
  BY DEF Poll, Wanted, Reference, Ask, Queue, CloseTodo, AwaitWorker, ErrAwaitWorker, Return,
     TakeTodo, RaiseMax
<1>4. Queue \/ TakeTodo \/ UNCHANGED todochan
  BY DEF Poll, Wanted, Reference, Ask, CloseTodo, AwaitWorker, ErrAwaitWorker, Return,
     ReadGood, ReadStrange, ReadFatal, RaiseMax
<1>5. CloseTodo \/ UNCHANGED closed
  BY DEF Poll, Wanted, Reference, Ask, Queue, AwaitWorker, ErrAwaitWorker, Return,
     TakeTodo, ReadGood, ReadStrange, ReadFatal, RaiseMax
<1>6. Return \/ UNCHANGED <<recorded, stored>>
  BY DEF Poll, Wanted, Reference, Ask, Queue, CloseTodo, AwaitWorker, ErrAwaitWorker,
     TakeTodo, ReadGood, ReadStrange, ReadFatal, RaiseMax
<1>7. Wanted \/ RaiseMax \/ UNCHANGED newMax
  BY DEF Poll, Reference, Ask, Queue, CloseTodo, AwaitWorker, ErrAwaitWorker, Return,
     TakeTodo, ReadGood, ReadStrange, ReadFatal
<1>8. Wanted \/ Reading \/ UNCHANGED fate
  BY DEF Poll, Reference, Ask, Queue, CloseTodo, AwaitWorker, ErrAwaitWorker, Return,
     TakeTodo, RaiseMax
<1>9. Reference \/ UNCHANGED declined
  BY DEF Poll, Wanted, Ask, Queue, CloseTodo, AwaitWorker, ErrAwaitWorker, Return,
     TakeTodo, ReadGood, ReadStrange, ReadFatal, RaiseMax
<1>10. TakeTodo \/ Reading \/ RaiseMax \/ UNCHANGED cur
  BY DEF Poll, Wanted, Reference, Ask, Queue, CloseTodo, AwaitWorker, ErrAwaitWorker, Return
<1> QED
  BY <1>1, <1>2, <1>3, <1>4, <1>5, <1>6, <1>7, <1>8, <1>9, <1>10

-----------------------------------------------------------------------------
(***************************************************************************)
(* Every step keeps the types.                                             *)
(***************************************************************************)

\* The loop variable stays within the list, or one past it.
LEMMA CallerStep ==
    ASSUME CallerTyped, cpc \in Looping => i <= Len(list), list \in Seq(Ids), [TodoNext]_todoVars
    PROVE  CallerTyped'
<1> USE Frames DEF GoLine, CallerTyped, CallerPcs
<1>1. ASSUME NEW here, NEW there \in CallerPcs, Poll(here, there) PROVE CallerTyped'
  BY <1>1 DEF Poll, TakeFinish
<1>2. CASE Wanted
  BY <1>2 DEF Wanted, NextArticle, Looping
<1>3. CASE Reference
  BY <1>3 DEF Reference
<1>4. CASE Ask
  BY <1>4 DEF Ask
<1>5. CASE Queue
  <2>1. ASSUME NextArticle, UNCHANGED <<err, fatal>> PROVE CallerTyped'
    BY <1>5, <2>1 DEF Queue, NextArticle, Looping
  <2>2. ASSUME TakeFinish, UNCHANGED i PROVE CallerTyped'
    BY <2>2 DEF TakeFinish
  <2> QED
    BY <1>5, <2>1, <2>2 DEF Queue
<1>6. CASE CloseTodo \/ AwaitWorker \/ ErrAwaitWorker \/ Return
  BY <1>6 DEF CloseTodo, AwaitWorker, ErrAwaitWorker, Return
<1>7. CASE UNCHANGED caller
  BY <1>7 DEF caller
<1> QED
  BY <1>1, <1>2, <1>3, <1>4, <1>5, <1>6, <1>7, NextCases
  DEF todoVars, TakeTodo, ReadGood, ReadStrange, ReadFatal, Answer, RaiseMax

\* The group id is one of the numbers on the list, or what it was.
LEMMA GroupStep ==
    ASSUME GroupTyped, cpc \in Looping => i \in 1 .. Len(list),
           wpc = "raise" => cur \in 1 .. Len(list), [TodoNext]_todoVars
    PROVE  GroupTyped'
<1>a. ASSUME NEW a \in 1 .. Len(list), Raise(list[a])
      PROVE  newMax' \in {-1} \cup Ids
  <2>1. list[a] \in Ids
    BY DEF GroupTyped
  <2> QED
    BY <1>a, <2>1 DEF Raise, GroupTyped
<1>1. newMax' \in {-1} \cup Ids
  <2>1. CASE Wanted
    BY <1>a, <2>1 DEF Wanted, Looping, GroupTyped
  <2>2. CASE RaiseMax
    BY <1>a, <2>2 DEF RaiseMax
  <2> QED
    BY <2>1, <2>2, Frames DEF GroupTyped
<1>2. recorded' \in {Known} \cup Ids /\ stored' \in BOOLEAN
  <2>1. CASE Return
    <3>1. \/ newMax >= 0 /\ recorded' = newMax /\ stored' = TRUE
          \/ UNCHANGED <<recorded, stored>>
      BY <2>1, Zenon DEF Return
    <3>2. newMax >= 0 => newMax \in Ids
      BY DEF GroupTyped
    <3> QED
      BY <3>1, <3>2 DEF GroupTyped
  <2> QED
    BY <2>1, Frames DEF GroupTyped
<1> QED
  BY <1>1, <1>2, Frames DEF GroupTyped

\* The queue holds positions of the list, and no more of them than it can.
LEMMA ChannelStep ==
    ASSUME ChannelTyped, cpc = "queue" => i \in 1 .. Len(list), [TodoNext]_todoVars
    PROVE  ChannelTyped'
<1>1. UNCHANGED list
  BY Frames
<1>2. CASE Queue
  <2>1. CASE UNCHANGED todochan
    BY <1>1, <1>2, <2>1 DEF Queue, ChannelTyped
  <2>2. CASE i \in 1 .. Len(list) /\ todochan' = Append(todochan, i) /\ Len(todochan) < QueueCap
    <3>1. Len(todochan') = Len(todochan) + 1 /\ todochan' \in Seq(1 .. Len(list))
      BY <2>2 DEF ChannelTyped
    <3>2. Len(todochan) \in Nat
      BY DEF ChannelTyped
    <3> QED
      BY <1>1, <1>2, <2>2, <3>1, <3>2, TodoAssumption DEF Queue, ChannelTyped
  <2> QED
    BY <1>2, <2>1, <2>2 DEF Queue
<1>3. CASE TakeTodo
  <2>1. CASE UNCHANGED todochan
    BY <1>1, <1>3, <2>1 DEF TakeTodo, ChannelTyped
  <2>2. CASE todochan # <<>> /\ todochan' = Tail(todochan)
    <3>1. Len(todochan') = Len(todochan) - 1 /\ todochan' \in Seq(1 .. Len(list))
      BY <2>2 DEF ChannelTyped
    <3>2. Len(todochan) \in Nat
      BY DEF ChannelTyped
    <3> QED
      BY <1>1, <1>3, <3>1, <3>2, TodoAssumption DEF TakeTodo, ChannelTyped
  <2> QED
    BY <1>3, <2>1, <2>2 DEF TakeTodo
<1>4. CASE CloseTodo
  BY <1>1, <1>4 DEF CloseTodo, ChannelTyped
<1> QED
  BY <1>1, <1>2, <1>3, <1>4, Frames DEF ChannelTyped

\* The response loop is at an article of the list or at none.
LEMMA WorkerStep ==
    ASSUME WorkerTyped, ChannelTyped, [TodoNext]_todoVars
    PROVE  WorkerTyped'
<1> USE Frames DEF WorkerTyped, LoopPcs
<1>1. CASE TakeTodo
  BY <1>1 DEF TakeTodo, ChannelTyped
<1>2. CASE Reading
  BY <1>2 DEF Reading, ReadGood, ReadStrange, ReadFatal, Answer
<1>3. CASE RaiseMax
  BY <1>3 DEF RaiseMax
<1>4. cur' = cur /\ wpc' \in LoopPcs => WorkerTyped'
  OBVIOUS
<1> QED
  BY <1>1, <1>2, <1>3, <1>4, NextCases
  DEF Reading, todoVars, worker, Poll, Wanted, Reference, Ask, Queue, CloseTodo, AwaitWorker,
      ErrAwaitWorker, Return, TakeFinish

\* Only what is on the list is asked for, and no answer comes unasked.
LEMMA WireStep ==
    ASSUME WireTyped, cpc = "ask" => i \in 1 .. Len(list), [TodoNext]_todoVars
    PROVE  WireTyped'
<1>1. UNCHANGED list
  BY Frames
<1>2. CASE Ask
  <2>1. CASE UNCHANGED asked
    BY <1>1, <1>2, <2>1 DEF Ask, WireTyped
  <2>2. CASE i \in 1 .. Len(list) /\ asked' = Append(asked, i)
    <3>1. Len(asked') = Len(asked) + 1 /\ asked' \in Seq(1 .. Len(list))
      BY <2>2 DEF WireTyped
    <3>2. Len(asked) \in Nat
      BY DEF WireTyped
    <3> QED
      BY <1>1, <1>2, <3>1, <3>2 DEF Ask, WireTyped
  <2> QED
    BY <1>2, <2>1, <2>2 DEF Ask
<1>3. CASE Reading
  BY <1>1, <1>3 DEF Reading, ReadGood, ReadStrange, ReadFatal, Answer, WireTyped
<1> QED
  BY <1>1, <1>2, <1>3, Frames DEF WireTyped

LEMMA FateStep ==
    ASSUME FateTyped, cpc \in Looping => i \in 1 .. Len(list), [TodoNext]_todoVars
    PROVE  FateTyped'
<1> USE Frames DEF FateTyped
<1>1. CASE Wanted
  BY <1>1 DEF Wanted, Looping
<1>2. CASE Reading
  BY <1>2 DEF Reading, ReadGood, ReadStrange, ReadFatal, Answer
<1>3. CASE Reference
  BY <1>3 DEF Reference, Looping
<1> QED
  BY <1>1, <1>2, <1>3

LEMMA TypeStep ==
    ASSUME TodoInv, [TodoNext]_todoVars
    PROVE  TodoTypeOK'
<1>1. /\ CallerTyped /\ GroupTyped /\ WorkerTyped /\ ChannelTyped /\ WireTyped /\ FateTyped
      /\ cpc \in Looping => i <= Len(list)
      /\ wpc \in {"read", "raise"} => cur \in 1 .. Len(list)
  BY DEF TodoInv, TodoTypeOK, Ascending, Largest
<1>2. cpc \in Looping => i \in 1 .. Len(list)
  BY <1>1 DEF CallerTyped, GroupTyped
<1>3. list \in Seq(Ids)
  BY <1>1 DEF GroupTyped
<1>4. cpc = "queue" \/ cpc = "ask" => i \in 1 .. Len(list)
  BY <1>2 DEF Looping
<1> QED
  BY <1>1, <1>2, <1>3, <1>4, CallerStep, GroupStep, ChannelStep, WorkerStep, WireStep, FateStep
  DEF TodoTypeOK

-----------------------------------------------------------------------------
(***************************************************************************)
(* Every step keeps the rest of the invariant.                             *)
(***************************************************************************)

\* The response loop ends once and is waited for once.
LEMMA EndStep ==
    ASSUME Ending, [TodoNext]_todoVars
    PROVE  Ending'
<1> USE DEF Ending, GoLine, caller, worker
<1>1. ASSUME NEW here \in {"poll1", "poll2", "poll3"}, NEW there \in {"wanted", "reference", "ask"},
             Poll(here, there)
      PROVE  Ending'
  BY <1>1 DEF Poll, TakeFinish
<1>2. CASE Wanted
  BY <1>2 DEF Wanted, NextArticle
<1>3. CASE Reference
  BY <1>3 DEF Reference
<1>4. CASE Ask
  BY <1>4 DEF Ask
<1>5. CASE Queue
  BY <1>5 DEF Queue, NextArticle, TakeFinish
<1>6. CASE CloseTodo
  BY <1>6 DEF CloseTodo
<1>7. CASE AwaitWorker
  BY <1>7 DEF AwaitWorker
<1>8. CASE ErrAwaitWorker
  BY <1>8 DEF ErrAwaitWorker
<1>9. CASE Return
  BY <1>9 DEF Return
<1>10. CASE TakeTodo
  BY <1>10 DEF TakeTodo
<1>11. CASE Reading
  BY <1>11 DEF Reading, ReadGood, ReadStrange, ReadFatal, Answer
<1>12. CASE RaiseMax
  BY <1>12 DEF RaiseMax
<1>13. CASE UNCHANGED todoVars
  BY <1>13 DEF todoVars
<1> QED
  BY <1>1, <1>2, <1>3, <1>4, <1>5, <1>6, <1>7, <1>8, <1>9, <1>10, <1>11, <1>12, <1>13,
     NextCases DEF Reading

\* What Ending rules out: that a receive from finishchan in the loop meets a
\* response loop that has ended by itself.
LEMMA FinishIsFatal ==
    ASSUME Ending, TakeFinish, cpc \in Looping
    PROVE  wpc = "offer" /\ wpc' = "done" /\ cpc' = "return" /\ err' = "worker"
BY DEF Ending, TakeFinish, Looping, GoLine

\* The commands without an answer stay in line.
LEMMA LineStep ==
    ASSUME ChannelTyped, WireTyped, Ending, InLine, [TodoNext]_todoVars
    PROVE  InLine'
<1>1. /\ todochan \in Seq(1 .. Len(list)) /\ Len(todochan) \in Nat
      /\ asked \in Seq(1 .. Len(list)) /\ Len(asked) \in Nat
      /\ answered \in 0 .. Len(asked)
  BY DEF ChannelTyped, WireTyped
<1>n. Len(todochan) \in Nat /\ Len(asked) \in Nat /\ answered \in Nat
  BY <1>1
<1>2. ASSUME UNCHANGED <<asked, answered, todochan>>, cpc # "queue", cpc' # "queue",
             \/ UNCHANGED <<wpc, cur>>
             \/ wpc \notin {"read", "done"} /\ wpc' # "read"
      PROVE  InLine'
  BY <1>1, <1>2 DEF InLine, Held, Owed
<1>3. ASSUME wpc' = "done" PROVE InLine'
  BY <1>3 DEF InLine
<1>4. ASSUME NEW here \in {"poll1", "poll2", "poll3"}, NEW there \in {"wanted", "reference", "ask"},
             Poll(here, there)
      PROVE  InLine'
  <2>1. CASE TakeFinish
    BY <1>3, <1>4, <2>1, FinishIsFatal DEF Poll, Looping
  <2>2. CASE UNCHANGED wpc /\ GoLine(there)
    BY <1>2, <1>4, <2>2 DEF Poll, GoLine, wire
  <2> QED
    BY <1>4, <2>1, <2>2 DEF Poll
<1>5. CASE Wanted
  BY <1>2, <1>5 DEF Wanted, NextArticle, GoLine, wire, worker
<1>6. CASE Reference
  BY <1>2, <1>6 DEF Reference, GoLine, wire, worker
<1>7. CASE Ask
  <2>1. CASE UNCHANGED asked /\ cpc' = "errClose"
    BY <1>2, <1>7, <2>1 DEF Ask, worker
  <2>2. CASE asked' = Append(asked, i) /\ cpc' = "queue"
    <3>1. UNCHANGED <<i, todochan, wpc, cur, answered>> /\ cpc = "ask"
      BY <1>7 DEF Ask, worker
    <3>2. Len(asked') = Len(asked) + 1 /\ asked'[Len(asked')] = i
      BY <1>1, <2>2
    <3>3. \A k \in 1 .. Len(asked) : asked'[k] = asked[k]
      BY <1>1, <2>2
    <3>4. Owed = 0 /\ Owed' = 1 /\ Held' = Held /\ Held \in {0, 1} /\ cpc' = "queue"
      BY <2>2, <3>1 DEF Owed, Held
    <3>5. CASE wpc # "done"
      <4>1. Len(asked) = answered + Held + Len(todochan)
        BY <1>1, <3>4, <3>5 DEF InLine
      <4>2. \A k \in 1 .. Len(todochan) : asked'[answered + Held + k] = todochan[k]
        <5> TAKE k \in 1 .. Len(todochan)
        <5>1. answered + Held + k \in 1 .. Len(asked)
          BY <1>n, <3>4, <4>1
        <5>2. asked[answered + Held + k] = todochan[k]
          BY <3>5 DEF InLine
        <5> QED
          BY <3>3, <5>1, <5>2
      <4>3. wpc = "read" => asked'[answered + 1] = cur
        BY <1>1, <3>3, <3>5, <4>1 DEF InLine, Held
      <4>4. Len(asked') = answered' + Held' + Len(todochan') + Owed'
        BY <1>n, <3>1, <3>2, <3>4, <4>1
      <4>5. \A k \in 1 .. Len(todochan') : asked'[answered' + Held' + k] = todochan'[k]
        BY <3>1, <3>4, <4>2
      <4> QED
        BY <3>1, <3>2, <4>3, <4>4, <4>5 DEF InLine
    <3> QED
      BY <3>1, <3>5 DEF InLine
  <2> QED
    BY <1>7, <2>1, <2>2 DEF Ask, GoLine
<1>8. CASE Queue
  <2>1. CASE TakeFinish
    BY <1>3, <1>8, <2>1, FinishIsFatal DEF Queue, Looping
  <2>2. CASE todochan' = Append(todochan, i) /\ NextArticle /\ UNCHANGED wpc
    <3>1. UNCHANGED <<cur, asked, answered>> /\ cpc = "queue" /\ cpc' # "queue"
      BY <1>8, <2>2 DEF Queue, NextArticle, GoLine, wire
    <3>2. Len(todochan') = Len(todochan) + 1 /\ todochan'[Len(todochan')] = i
      BY <1>1, <2>2
    <3>3. \A k \in 1 .. Len(todochan) : todochan'[k] = todochan[k]
      BY <1>1, <2>2
    <3>4. Owed = 1 /\ Owed' = 0 /\ Held' = Held /\ Held \in {0, 1} /\ wpc' = wpc
      BY <2>2, <3>1 DEF Owed, Held
    <3>5. CASE wpc # "done"
      <4>1. /\ Len(asked) = answered + Held + Len(todochan) + 1
            /\ asked[answered + Held + Len(todochan) + 1] = i
        BY <1>1, <3>1, <3>4, <3>5 DEF InLine
      <4>2. \A k \in 1 .. Len(todochan) + 1 : asked[answered + Held + k] = todochan'[k]
        <5>1. \A k \in 1 .. Len(todochan) : asked[answered + Held + k] = todochan'[k]
          BY <3>3, <3>5 DEF InLine
        <5>2. \A k \in 1 .. Len(todochan) + 1 : k \in 1 .. Len(todochan) \/ k = Len(todochan) + 1
          BY <1>n
        <5>3. asked[answered + Held + (Len(todochan) + 1)] = todochan'[Len(todochan) + 1]
          BY <1>n, <3>2, <3>4, <4>1
        <5> QED
          BY <5>1, <5>2, <5>3
      <4>3. Len(asked') = answered' + Held' + Len(todochan') + Owed'
        BY <1>n, <3>1, <3>2, <3>4, <4>1
      <4>4. \A k \in 1 .. Len(todochan') : asked'[answered' + Held' + k] = todochan'[k]
        BY <3>1, <3>2, <3>4, <4>2
      <4>5. wpc' = "read" => asked'[answered' + 1] = cur'
        BY <3>1, <3>4, <3>5 DEF InLine
      <4> QED
        BY <3>1, <4>3, <4>4, <4>5 DEF InLine
    <3> QED
      BY <3>4, <3>5 DEF InLine
  <2> QED
    BY <1>8, <2>1, <2>2 DEF Queue
<1>9. CASE CloseTodo
  BY <1>2, <1>9 DEF CloseTodo, GoLine, wire, worker
<1>10. CASE AwaitWorker
  BY <1>2, <1>3, <1>10 DEF AwaitWorker, GoLine, wire
<1>11. CASE ErrAwaitWorker
  BY <1>2, <1>3, <1>11 DEF ErrAwaitWorker, GoLine, wire
<1>12. CASE Return
  BY <1>2, <1>12 DEF Return, GoLine, wire, worker
<1>13. CASE TakeTodo
  <2>1. UNCHANGED <<cpc, i, asked, answered>> /\ wpc = "take"
    BY <1>13 DEF TakeTodo, caller, wire
  <2>2. CASE UNCHANGED <<cur, todochan>> /\ wpc' = "closed"
    BY <1>1, <2>1, <2>2 DEF InLine, Held, Owed
  <2>3. CASE todochan # <<>> /\ cur' = Head(todochan) /\ todochan' = Tail(todochan) /\ wpc' = "read"
    <3>1. Len(todochan') = Len(todochan) - 1 /\ Len(todochan) >= 1 /\ cur' = todochan[1]
      BY <1>1, <2>3
    <3>2. \A k \in 1 .. Len(todochan') : todochan'[k] = todochan[k + 1]
      BY <1>1, <2>3
    <3>3. Held = 0 /\ Held' = 1 /\ Owed' = Owed /\ Owed \in {0, 1} /\ wpc' = "read"
      BY <2>1, <2>3 DEF Owed, Held
    <3>4. /\ Len(asked) = answered + Len(todochan) + Owed
          /\ \A k \in 1 .. Len(todochan) : asked[answered + k] = todochan[k]
          /\ cpc = "queue" => asked[Len(asked)] = i
      BY <1>1, <2>1, <3>3 DEF InLine
    <3>5. \A k \in 1 .. Len(todochan') : asked[answered + 1 + k] = todochan'[k]
      <4> TAKE k \in 1 .. Len(todochan')
      <4>1. k + 1 \in 1 .. Len(todochan) /\ answered + 1 + k = answered + (k + 1)
        BY <1>1, <3>1
      <4> QED
        BY <3>2, <3>4, <4>1
    <3> QED
      BY <1>1, <2>1, <3>1, <3>3, <3>4, <3>5 DEF InLine
  <2> QED
    BY <1>13, <2>2, <2>3 DEF TakeTodo
<1>14. CASE Reading
  <2>1. /\ UNCHANGED <<cpc, i, todochan, asked>> /\ answered' = answered + 1
        /\ wpc = "read" /\ wpc' # "read"
    BY <1>14 DEF Reading, ReadGood, ReadStrange, ReadFatal, Answer, caller
  <2> QED
    BY <1>1, <2>1 DEF InLine, Held, Owed
<1>15. CASE RaiseMax
  <2>1. UNCHANGED <<cpc, i, todochan, asked, answered>> /\ wpc = "raise" /\ wpc' = "take"
    BY <1>15 DEF RaiseMax, caller, wire
  <2> QED
    BY <1>1, <2>1 DEF InLine, Held, Owed
<1>16. CASE UNCHANGED todoVars
  BY <1>16 DEF todoVars, caller, worker, wire, InLine, Held, Owed
<1> QED
  BY <1>4, <1>5, <1>6, <1>7, <1>8, <1>9, <1>10, <1>11, <1>12, <1>13, <1>14, <1>15, <1>16,
     NextCases DEF Reading

\* In the loop, all that has been asked for lies before the article at hand.
LEMMA AskedBefore ==
    ASSUME Ending, Ascending, cpc \in Looping, cpc # "queue"
    PROVE  \A k \in 1 .. Len(asked) : asked[k] < i
BY DEF Ending, Ascending, Looping

\* Nobody but the two goroutines' meeting makes the response loop "done", and
\* nothing undoes it.
LEMMA StaysDone ==
    ASSUME Ending, [TodoNext]_todoVars, wpc = "done"
    PROVE  wpc' = "done" /\ cpc' \in {"return", "returned"} /\ UNCHANGED <<i, asked, err>>
<1>1. cpc \in {"return", "returned"}
  BY DEF Ending
<1> QED
  BY <1>1, NextCases
  DEF Poll, Wanted, Reference, Ask, Queue, CloseTodo, AwaitWorker, ErrAwaitWorker, Return,
      TakeTodo, ReadGood, ReadStrange, ReadFatal, Answer, RaiseMax, todoVars, caller, worker, wire,
      TakeFinish, GoLine

\* The list is walked, and asked for, in its order.
LEMMA AscendingStep ==
    ASSUME CallerTyped, GroupTyped, WireTyped, Ending, Ascending, [TodoNext]_todoVars
    PROVE  Ascending'
<1>1. /\ list' = list /\ Len(list) \in Nat /\ i \in Nat
      /\ asked \in Seq(1 .. Len(list)) /\ Len(asked) \in Nat
  BY Frames DEF CallerTyped, GroupTyped, WireTyped
<1>a. \A k \in 1 .. Len(asked) : asked[k] \in Nat
  BY <1>1
<1>2. CASE wpc = "done"
  <2>1. cpc \in {"return", "returned"}
    BY <1>2 DEF Ending
  <2> QED
    BY <1>1, <1>2, <2>1, StaysDone DEF Ascending, Looping
<1>3. ASSUME wpc # "done", UNCHANGED <<i, asked>>,
             cpc = "queue" => cpc' = "queue" \/ wpc' = "done",
             cpc' \in Looping => cpc \in Looping,
             cpc' \in {"close", "await"} => cpc \in {"close", "await"},
             err' = "nil" /\ cpc' \in {"return", "returned"} =>
                 err = "nil" /\ cpc \in {"await", "return", "returned"}
      PROVE  Ascending'
  BY <1>1, <1>3 DEF Ascending
<1>4. ASSUME wpc # "done", UNCHANGED asked, NextArticle, cpc \in Looping
      PROVE  Ascending'
  <2>1. i' = i + 1 /\ i <= Len(list) /\ cpc' = (IF i < Len(list) THEN "poll1" ELSE "close")
    BY <1>4 DEF NextArticle, GoLine, Ascending
  <2>2. \A k \in 1 .. Len(asked) : asked[k] < i + 1
    BY <1>1, <1>a, <1>4 DEF Ascending
  <2> QED
    BY <1>1, <1>4, <2>1, <2>2 DEF Ascending, Looping
<1>5. ASSUME NEW here \in {"poll1", "poll2", "poll3"}, NEW there \in {"wanted", "reference", "ask"},
             Poll(here, there), wpc # "done"
      PROVE  Ascending'
  <2>1. CASE TakeFinish
    BY <1>3, <1>5, <2>1, FinishIsFatal DEF Poll, Looping, wire
  <2>2. CASE UNCHANGED err /\ GoLine(there)
    BY <1>3, <1>5, <2>2 DEF Poll, GoLine, wire, Looping
  <2> QED
    BY <1>5, <2>1, <2>2 DEF Poll
<1>6. ASSUME Wanted, wpc # "done" PROVE Ascending'
  <2>1. CASE UNCHANGED i
    <3>1. cpc = "wanted" /\ cpc' \in {"errClose", "poll2"} /\ UNCHANGED asked
      BY <1>1, <1>6, <2>1 DEF Wanted, NextArticle, GoLine, wire
    <3> QED
      BY <1>3, <1>6, <2>1, <3>1 DEF Looping
  <2>2. CASE NextArticle
    BY <1>4, <1>6, <2>2 DEF Wanted, wire, Looping
  <2> QED
    BY <1>6, <2>1, <2>2 DEF Wanted
<1>7. ASSUME Reference, wpc # "done" PROVE Ascending'
  BY <1>3, <1>7 DEF Reference, GoLine, wire, Looping
<1>8. ASSUME Ask, wpc # "done" PROVE Ascending'
  <2>1. CASE UNCHANGED asked /\ cpc' = "errClose"
    BY <1>3, <1>8, <2>1 DEF Ask, Looping
  <2>2. CASE asked' = Append(asked, i) /\ cpc' = "queue"
    <3>1. cpc = "ask" /\ i' = i
      BY <1>8 DEF Ask
    <3>2. Len(asked') = Len(asked) + 1 /\ asked'[Len(asked) + 1] = i
      BY <1>1, <2>2
    <3>3. \A k \in 1 .. Len(asked) : asked'[k] = asked[k]
      BY <1>1, <2>2
    <3>4. \A k \in 1 .. Len(asked) : asked'[k] < i
      BY <3>1, <3>3, AskedBefore DEF Looping
    <3>5. \A k \in 1 .. Len(asked) + 1 : k \in 1 .. Len(asked) \/ k = Len(asked) + 1
      BY <1>1
    <3>6. \A k, l \in 1 .. Len(asked') : k < l => asked'[k] < asked'[l]
      <4> TAKE k, l \in 1 .. Len(asked')
      <4> HAVE k < l
      <4>1. k \in 1 .. Len(asked)
        BY <1>1, <3>2
      <4>2. CASE l \in 1 .. Len(asked)
        BY <3>3, <4>1, <4>2 DEF Ascending
      <4>3. CASE l = Len(asked) + 1
        BY <3>2, <3>4, <4>1, <4>3
      <4> QED
        BY <3>2, <3>5, <4>2, <4>3
    <3>7. cpc' = "queue"
      BY <2>2
    <3>8. \A k \in 1 .. Len(asked') : asked'[k] < i' \/ asked'[k] = i'
      BY <3>1, <3>2, <3>4, <3>5
    <3>9. i <= Len(list)
      BY <3>1 DEF Ascending, Looping
    <3> QED
      BY <1>1, <3>1, <3>6, <3>7, <3>8, <3>9 DEF Ascending
  <2> QED
    BY <1>8, <2>1, <2>2 DEF Ask, GoLine
<1>9. ASSUME Queue, wpc # "done" PROVE Ascending'
  <2>1. CASE TakeFinish
    <3>1. cpc = "queue" /\ UNCHANGED <<i, asked>>
      BY <1>9, <2>1 DEF Queue, TakeFinish, NextArticle, GoLine, wire
    <3> QED
      BY <1>3, <1>9, <2>1, <3>1, FinishIsFatal DEF Looping
  <2>2. CASE NextArticle
    BY <1>4, <1>9, <2>2 DEF Queue, wire, Looping
  <2> QED
    BY <1>9, <2>1, <2>2 DEF Queue
<1>10. ASSUME CloseTodo \/ AwaitWorker \/ ErrAwaitWorker \/ Return, wpc # "done" PROVE Ascending'
  <2>1. UNCHANGED <<i, asked>>
    BY <1>10 DEF CloseTodo, AwaitWorker, ErrAwaitWorker, Return, wire
  <2>2. CASE CloseTodo
    BY <1>3, <1>10, <2>1, <2>2 DEF CloseTodo, GoLine, Looping
  <2>3. CASE AwaitWorker
    BY <1>3, <1>10, <2>1, <2>3 DEF AwaitWorker, GoLine, Looping
  <2>4. CASE ErrAwaitWorker
    BY <1>3, <1>10, <2>1, <2>4 DEF ErrAwaitWorker, GoLine, Looping, Ending
  <2>5. CASE Return
    BY <1>3, <1>10, <2>1, <2>5 DEF Return, GoLine, Looping
  <2> QED
    BY <1>10, <2>2, <2>3, <2>4, <2>5
<1>11. ASSUME TakeTodo \/ Reading \/ RaiseMax \/ UNCHANGED todoVars, wpc # "done" PROVE Ascending'
  <2>1. UNCHANGED <<i, cpc, err, asked>>
    BY <1>11 DEF TakeTodo, Reading, ReadGood, ReadStrange, ReadFatal, Answer, RaiseMax, todoVars,
       caller, wire
  <2> QED
    BY <1>3, <1>11, <2>1
<1> QED
  BY <1>2, <1>5, <1>6, <1>7, <1>8, <1>9, <1>10, <1>11, NextCases DEF Reading

\* What the loop is at has not been asked for, and nothing became of it.
LEMMA AtHandUntouched ==
    ASSUME CallerTyped, GroupTyped, WireTyped, Ending, Ascending, Fates,
           cpc \in Looping, cpc # "queue"
    PROVE  fate[i] = "none" /\ \A k \in 1 .. Len(asked) : asked[k] # i
<1>1. \A k \in 1 .. Len(asked) : asked[k] < i
  BY AskedBefore
<1>2. i \in 1 .. Len(list) /\ i \in Nat
  BY DEF CallerTyped, GroupTyped, Ascending
<1>3. \A k \in 1 .. Len(asked) : asked[k] # i
  BY <1>1, <1>2
<1>4. ~ i < i /\ \A k \in 1 .. answered : k \in 1 .. Len(asked)
  BY <1>2 DEF WireTyped
<1> QED
  BY <1>2, <1>3, <1>4 DEF Fates

\* An answer settles the article it is an answer to, and no other.
LEMMA FatesStep ==
    ASSUME CallerTyped, GroupTyped, WireTyped, FateTyped, ChannelTyped,
           InLine, Ending, Ascending, Fates, [TodoNext]_todoVars
    PROVE  Fates'
<1>1. /\ list' = list /\ Len(list) \in Nat /\ i \in Nat
      /\ asked \in Seq(1 .. Len(list)) /\ Len(asked) \in Nat
      /\ answered \in 0 .. Len(asked)
      /\ fate \in [1 .. Len(list) -> {"none", "unwanted", "done", "strange", "lost"}]
  BY Frames DEF CallerTyped, GroupTyped, WireTyped, FateTyped
<1>2. ASSUME UNCHANGED <<i, asked, answered, fate>>,
             wpc \in {"offer", "done"} => wpc' \in {"offer", "done"}
      PROVE  Fates'
  BY <1>1, <1>2 DEF Fates, Unanswered
<1>3. CASE Wanted
  <2>1. UNCHANGED <<asked, answered, wpc>> /\ cpc = "wanted"
    BY <1>3 DEF Wanted, wire, worker
  <2>2. CASE UNCHANGED <<i, fate>>
    BY <1>2, <2>1, <2>2
  <2>3. CASE fate' = [fate EXCEPT ![i] = "unwanted"] /\ i' = i + 1
    <3>1. /\ fate[i] = "none" /\ \A k \in 1 .. Len(asked) : asked[k] # i
          /\ i \in 1 .. Len(list)
      BY <1>1, <2>1, AtHandUntouched DEF Looping, Ascending, CallerTyped
    <3>2. /\ \A a \in 1 .. Len(list) : a # i => fate'[a] = fate[a]
          /\ fate'[i] = "unwanted"
      BY <1>1, <2>3, <3>1
    <3>3. \A k \in Unanswered : k \in 1 .. Len(asked) /\ asked[k] \in 1 .. Len(list)
      BY <1>1 DEF Unanswered
    <3>4. \A k \in Unanswered : fate'[asked[k]] = "none"
      BY <3>1, <3>2, <3>3 DEF Fates
    <3>5. \A a \in 1 .. Len(list) :
             fate'[a] # "none" => a < i + 1 \/ \E k \in 1 .. answered : asked[k] = a
      BY <1>1, <3>2 DEF Fates
    <3>6. \A a \in 1 .. Len(list) :
             a < i + 1 /\ fate'[a] = "none" => \E k \in Unanswered : asked[k] = a
      <4>1. \A a \in 1 .. Len(list) : a < i + 1 => a = i \/ a < i
        BY <1>1
      <4> QED
        BY <3>2, <4>1 DEF Fates
    <3>7. \A a \in 1 .. Len(list) : fate'[a] = "lost" => wpc \in {"offer", "done"}
      BY <3>2 DEF Fates
    <3> QED
      BY <1>1, <2>1, <2>3, <3>4, <3>5, <3>6, <3>7 DEF Fates, Unanswered
  <2> QED
    BY <1>3, <2>2, <2>3 DEF Wanted, NextArticle
<1>4. CASE Ask
  <2>1. UNCHANGED <<i, answered, fate, wpc>> /\ cpc = "ask"
    BY <1>4 DEF Ask, worker
  <2>2. CASE UNCHANGED asked
    BY <1>2, <2>1, <2>2
  <2>3. CASE asked' = Append(asked, i)
    <3>1. fate[i] = "none"
      BY <2>1, AtHandUntouched DEF Looping
    <3>2. /\ Len(asked') = Len(asked) + 1 /\ asked'[Len(asked) + 1] = i
          /\ \A k \in 1 .. Len(asked) : asked'[k] = asked[k]
      BY <1>1, <2>3
    <3>3. \A k \in Unanswered' : k \in Unanswered \/ k = Len(asked) + 1
      BY <1>1, <2>1, <3>2 DEF Unanswered
    <3>4. \A k \in Unanswered : k \in Unanswered' /\ asked'[k] = asked[k]
      BY <1>1, <2>1, <3>2 DEF Unanswered
    <3>5. \A k \in 1 .. answered : asked'[k] = asked[k]
      BY <1>1, <3>2
    <3>6. \A k \in Unanswered' : fate[asked'[k]] = "none"
      BY <3>1, <3>2, <3>3, <3>4 DEF Fates
    <3>7. \A a \in 1 .. Len(list) :
             fate[a] # "none" => a < i \/ \E k \in 1 .. answered : asked'[k] = a
      BY <3>5 DEF Fates
    <3>8. \A a \in 1 .. Len(list) :
             a < i /\ fate[a] = "none" => \E k \in Unanswered' : asked'[k] = a
      BY <3>4 DEF Fates
    <3> QED
      BY <1>1, <2>1, <3>6, <3>7, <3>8 DEF Fates
  <2> QED
    BY <1>4, <2>2, <2>3 DEF Ask
<1>5. CASE Queue
  <2>1. UNCHANGED <<asked, answered, fate>> /\ cpc = "queue"
    BY <1>5 DEF Queue, wire
  <2>2. CASE TakeFinish
    BY <1>2, <1>5, <2>1, <2>2, FinishIsFatal DEF Queue, Looping
  <2>3. CASE i' = i + 1 /\ UNCHANGED wpc
    <3>1. wpc # "done"
      BY <2>1 DEF Ending
    <3>2. Len(asked) \in Unanswered /\ asked[Len(asked)] = i
      BY <1>1, <2>1, <3>1 DEF InLine, Held, Owed, Unanswered, ChannelTyped
    <3>3. \A a \in 1 .. Len(list) : (a < i => a < i + 1) /\ (a < i + 1 => a = i \/ a < i)
      BY <1>1
    <3>4. /\ \A a \in 1 .. Len(list) :
               fate[a] # "none" => a < i + 1 \/ \E k \in 1 .. answered : asked[k] = a
          /\ \A a \in 1 .. Len(list) :
               a < i + 1 /\ fate[a] = "none" => \E k \in Unanswered : asked[k] = a
      BY <3>2, <3>3 DEF Fates
    <3> QED
      BY <1>1, <2>1, <2>3, <3>4 DEF Fates, Unanswered
  <2> QED
    BY <1>5, <2>2, <2>3 DEF Queue, NextArticle
<1>6. CASE Reading
  <2>1. PICK to \in {"done", "strange", "lost"} :
            Answer(to) /\ wpc' # "read" /\ (to = "lost" => wpc' = "offer")
    BY <1>6 DEF Reading, ReadGood, ReadStrange, ReadFatal
  <2>2. /\ UNCHANGED <<i, asked>> /\ answered' = answered + 1 /\ answered < Len(asked)
        /\ wpc = "read" /\ fate' = [fate EXCEPT ![asked[answered + 1]] = to]
    BY <2>1 DEF Answer, caller
  <2> DEFINE b == asked[answered + 1]
  <2>3. answered + 1 \in Unanswered /\ answered + 1 \in 1 .. Len(asked) /\ b \in 1 .. Len(list)
    BY <1>1, <2>2 DEF Unanswered
  <2>4. fate'[b] = to /\ \A a \in 1 .. Len(list) : a # b => fate'[a] = fate[a]
    BY <1>1, <2>2, <2>3
  <2>5. \A k \in Unanswered' : k \in Unanswered /\ asked[k] # b /\ asked[k] \in 1 .. Len(list)
    <3> TAKE k \in Unanswered'
    <3>1. k \in 1 .. Len(asked) /\ k \in Unanswered /\ answered + 1 < k
      BY <1>1, <2>2 DEF Unanswered
    <3>2. b < asked[k] /\ asked[k] \in 1 .. Len(list)
      BY <1>1, <2>3, <3>1 DEF Ascending
    <3> QED
      BY <2>3, <3>1, <3>2
  <2>6. \A k \in Unanswered : k = answered + 1 \/ k \in Unanswered'
    BY <1>1, <2>2 DEF Unanswered
  <2>7. \A k \in 1 .. answered : k \in 1 .. (answered + 1)
    BY <1>1
  <2>8. \A k \in Unanswered' : fate'[asked[k]] = "none"
    BY <2>4, <2>5 DEF Fates
  <2>9. \A a \in 1 .. Len(list) :
           fate'[a] # "none" => a < i \/ \E k \in 1 .. (answered + 1) : asked[k] = a
    <3> SUFFICES ASSUME NEW a \in 1 .. Len(list), fate'[a] # "none", ~(a < i)
                 PROVE  \E k \in 1 .. (answered + 1) : asked[k] = a
      OBVIOUS
    <3>1. answered + 1 \in 1 .. (answered + 1)
      BY <1>1
    <3> QED
      BY <2>4, <2>7, <3>1 DEF Fates
  <2>10. \A a \in 1 .. Len(list) :
           a < i /\ fate'[a] = "none" => \E k \in Unanswered' : asked[k] = a
    BY <2>1, <2>4, <2>6 DEF Fates
  <2>11. \A a \in 1 .. Len(list) : fate'[a] = "lost" => wpc' \in {"offer", "done"}
    BY <2>1, <2>2, <2>4 DEF Fates
  <2> HIDE DEF b
  <2> QED
    BY <1>1, <2>2, <2>8, <2>9, <2>10, <2>11 DEF Fates
<1>7. ASSUME UNCHANGED <<wire, fate>>, CloseTodo \/ Return \/ Reference \/ TakeTodo \/ RaiseMax
      PROVE  Fates'
  BY <1>2, <1>7 DEF CloseTodo, Return, Reference, TakeTodo, RaiseMax, wire, worker, caller
<1>8. ASSUME UNCHANGED <<wire, fate>>, AwaitWorker \/ ErrAwaitWorker
      PROVE  Fates'
  BY <1>2, <1>8 DEF AwaitWorker, ErrAwaitWorker, wire
<1>9. ASSUME NEW here \in {"poll1", "poll2", "poll3"}, NEW there, Poll(here, there)
      PROVE  Fates'
  <2>1. CASE TakeFinish
    BY <1>2, <1>9, <2>1, FinishIsFatal DEF Poll, Looping, wire
  <2>2. CASE UNCHANGED wpc
    BY <1>2, <1>9, <2>2 DEF Poll, wire
  <2> QED
    BY <1>9, <2>1, <2>2 DEF Poll
<1>10. CASE UNCHANGED todoVars
  BY <1>2, <1>10 DEF todoVars, caller, wire, worker
<1> QED
  BY <1>3, <1>4, <1>5, <1>6, <1>7, <1>8, <1>9, <1>10, NextCases
  DEF Reading, CloseTodo, Return, Reference, TakeTodo, RaiseMax, AwaitWorker, ErrAwaitWorker

\* newMax follows the largest settled number, from either goroutine.
LEMMA LargestStep ==
    ASSUME TodoInv, [TodoNext]_todoVars
    PROVE  Largest'
<1>1. /\ CallerTyped /\ GroupTyped /\ WorkerTyped /\ ChannelTyped /\ WireTyped /\ FateTyped
      /\ InLine /\ Ending /\ Ascending /\ Fates /\ Largest
  BY DEF TodoInv, TodoTypeOK
<1>2. /\ list' = list /\ Len(list) \in Nat /\ list \in Seq(Ids)
      /\ fate \in [1 .. Len(list) -> {"none", "unwanted", "done", "strange", "lost"}]
  BY <1>1, Frames DEF GroupTyped, FateTyped
<1>3. \A a \in 1 .. Len(list) : list[a] \in Nat
  BY <1>2, TodoAssumption
<1>n. newMax \in Int
  BY <1>1, TodoAssumption DEF GroupTyped
<1>4. ASSUME UNCHANGED <<fate, newMax, recorded, stored>>,
             UNCHANGED <<wpc, cur>> \/ (wpc # "raise" /\ wpc' \notin {"read", "raise"}),
             stored => cpc' = "returned"
      PROVE  Largest'
  BY <1>1, <1>2, <1>4 DEF Largest, Settled
<1>5. ASSUME NEW a \in 1 .. Len(list), Raise(list[a])
      PROVE  /\ newMax' \in Int /\ newMax <= newMax' /\ list[a] <= newMax'
             /\ newMax' = newMax \/ newMax' = list[a]
             /\ newMax' # -1
  <2>1. list[a] \in Nat
    BY <1>3
  <2> QED
    BY <1>n, <1>5, <2>1 DEF Raise
<1>6. CASE Wanted
  <2>1. /\ UNCHANGED <<recorded, stored, wpc, cur>> /\ cpc = "wanted" /\ ~stored
        /\ i \in 1 .. Len(list)
    BY <1>1, <1>2, <1>6 DEF Wanted, group, worker, Largest, CallerTyped, Ascending, Looping
  <2>2. CASE UNCHANGED <<newMax, fate>>
    BY <1>4, <2>1, <2>2
  <2>3. CASE Raise(list[i]) /\ fate' = [fate EXCEPT ![i] = "unwanted"]
    <3>1. fate[i] = "none"
      BY <1>1, <2>1, AtHandUntouched DEF Looping
    <3>2. /\ \A a \in 1 .. Len(list) : a # i => fate'[a] = fate[a]
          /\ fate'[i] = "unwanted"
      BY <1>2, <2>1, <2>3
    <3>3. wpc = "raise" => cur # i /\ fate'[cur] = "done"
      BY <1>1, <3>1, <3>2 DEF Largest
    <3>4. /\ newMax' \in Int /\ newMax <= newMax' /\ list[i] <= newMax'
          /\ newMax' = newMax \/ newMax' = list[i]
      BY <1>5, <2>1, <2>3
    <3>5. \A a \in 1 .. Len(list) :
             fate'[a] \in {"unwanted", "done"} => list[a] <= newMax' \/ (wpc = "raise" /\ a = cur)
      <4> SUFFICES ASSUME NEW a \in 1 .. Len(list), fate'[a] \in {"unwanted", "done"},
                          ~(wpc = "raise" /\ a = cur)
                   PROVE  list[a] <= newMax'
        OBVIOUS
      <4>1. CASE a = i
        BY <3>4, <4>1
      <4>2. CASE a # i
        <5>1. list[a] <= newMax
          BY <1>1, <3>2, <4>2 DEF Largest, Settled
        <5> QED
          BY <1>3, <1>n, <3>4, <5>1
      <4> QED
        BY <4>1, <4>2
    <3>6. newMax' = -1 \/ \E a \in 1 .. Len(list) :
             fate'[a] \in {"unwanted", "done"} /\ list[a] = newMax'
      <4>1. CASE newMax' = list[i]
        BY <2>1, <3>2, <4>1
      <4>2. CASE newMax' = newMax
        BY <1>1, <3>1, <3>2, <4>2 DEF Largest, Settled
      <4> QED
        BY <3>4, <4>1, <4>2
    <3> QED
      BY <1>1, <1>2, <2>1, <3>3, <3>5, <3>6 DEF Largest, Settled
  <2> QED
    BY <1>6, <2>2, <2>3 DEF Wanted
<1>7. CASE Reading
  <2>1. PICK to \in {"done", "strange", "lost"} :
            Answer(to) /\ wpc' # "read" /\ (to = "done" => wpc' = "raise" /\ cur' = cur)
                       /\ (to # "done" => wpc' # "raise")
    BY <1>7 DEF Reading, ReadGood, ReadStrange, ReadFatal
  <2>2. /\ UNCHANGED <<cpc, newMax, recorded, stored>> /\ wpc = "read"
        /\ fate' = [fate EXCEPT ![cur] = to] /\ fate[cur] = "none"
        /\ cur \in 1 .. Len(list)
    <3>1. answered + 1 \in Unanswered
      BY <1>1, <2>1 DEF Answer, Unanswered, WireTyped
    <3> QED
      BY <1>1, <2>1, <3>1 DEF Answer, caller, group, InLine, Fates, Largest
  <2>3. fate'[cur] = to /\ \A a \in 1 .. Len(list) : a # cur => fate'[a] = fate[a]
    BY <1>2, <2>2
  <2>4. \A a \in 1 .. Len(list) :
           fate'[a] \in {"unwanted", "done"} => list[a] <= newMax \/ (wpc' = "raise" /\ a = cur')
    BY <1>1, <2>1, <2>2, <2>3 DEF Largest, Settled
  <2>5. newMax = -1 \/ \E a \in 1 .. Len(list) :
           fate'[a] \in {"unwanted", "done"} /\ list[a] = newMax
    BY <1>1, <2>2, <2>3 DEF Largest, Settled
  <2>6. wpc' = "raise" => cur' \in 1 .. Len(list) /\ fate'[cur'] = "done"
    BY <2>1, <2>2, <2>3
  <2>7. stored => cpc = "returned" /\ recorded = newMax /\ newMax # -1
    BY <1>1 DEF Largest
  <2> QED
    BY <1>2, <2>1, <2>2, <2>4, <2>5, <2>6, <2>7 DEF Largest, Settled
<1>8. CASE RaiseMax
  <2>1. /\ UNCHANGED <<cpc, fate, recorded, stored>> /\ wpc = "raise" /\ wpc' = "take"
        /\ Raise(list[cur]) /\ cur \in 1 .. Len(list) /\ fate[cur] = "done"
    BY <1>1, <1>8 DEF RaiseMax, caller, group, Largest
  <2>2. ~stored
    BY <1>1, <2>1 DEF Largest, Ending
  <2>3. /\ newMax' \in Int /\ newMax <= newMax' /\ list[cur] <= newMax'
        /\ newMax' = newMax \/ newMax' = list[cur]
    BY <1>5, <2>1
  <2>4. \A a \in 1 .. Len(list) : Settled(a) => list[a] <= newMax'
    <3> SUFFICES ASSUME NEW a \in 1 .. Len(list), Settled(a), a # cur
                 PROVE  list[a] <= newMax'
      BY <2>3
    <3>1. list[a] <= newMax
      BY <1>1 DEF Largest
    <3> QED
      BY <1>3, <1>n, <2>3, <3>1
  <2>5. newMax' = -1 \/ \E a \in 1 .. Len(list) : Settled(a) /\ list[a] = newMax'
    BY <1>1, <2>1, <2>3 DEF Largest, Settled
  <2> QED
    BY <1>2, <2>1, <2>2, <2>4, <2>5 DEF Largest, Settled
<1>9. CASE TakeTodo
  <2>1. /\ UNCHANGED <<cpc, fate, newMax, recorded, stored>> /\ wpc = "take"
        /\ wpc' # "raise"
    BY <1>9 DEF TakeTodo, caller, group
  <2>2. wpc' = "read" => cur' \in 1 .. Len(list)
    <3>1. todochan # <<>> => Head(todochan) \in 1 .. Len(list)
      BY <1>1 DEF ChannelTyped
    <3> QED
      BY <1>9, <3>1 DEF TakeTodo
  <2> QED
    BY <1>1, <1>2, <2>1, <2>2 DEF Largest, Settled
<1>10. CASE Return
  <2>1. UNCHANGED <<fate, newMax, wpc, cur>> /\ cpc = "return" /\ cpc' = "returned" /\ ~stored
    BY <1>1, <1>10 DEF Return, worker, GoLine, Largest
  <2>2. \/ newMax >= 0 /\ recorded' = newMax /\ stored' = TRUE
        \/ UNCHANGED <<recorded, stored>>
    BY <1>10, Zenon DEF Return
  <2>3. newMax >= 0 => newMax # -1
    BY <1>n
  <2> QED
    BY <1>1, <1>2, <2>1, <2>2, <2>3 DEF Largest, Settled
<1>11. ASSUME Reference \/ Ask \/ CloseTodo PROVE Largest'
  <2>1. UNCHANGED <<fate, newMax, recorded, stored, wpc, cur>> /\ cpc # "returned"
    BY <1>11 DEF Reference, Ask, CloseTodo, group, worker
  <2> QED
    BY <1>1, <1>4, <2>1 DEF Largest
<1>12. ASSUME Queue \/ AwaitWorker \/ ErrAwaitWorker PROVE Largest'
  <2>1. /\ UNCHANGED <<fate, newMax, recorded, stored, cur>> /\ cpc # "returned"
        /\ UNCHANGED wpc \/ (wpc \in {"offer", "closed"} /\ wpc' = "done")
    BY <1>12 DEF Queue, AwaitWorker, ErrAwaitWorker, group, TakeFinish
  <2> QED
    BY <1>1, <1>4, <2>1 DEF Largest
<1>13. ASSUME NEW here \in {"poll1", "poll2", "poll3"}, NEW there, Poll(here, there)
       PROVE  Largest'
  <2>1. /\ UNCHANGED <<fate, newMax, recorded, stored, cur>> /\ cpc # "returned"
        /\ UNCHANGED wpc \/ (wpc \in {"offer", "closed"} /\ wpc' = "done")
    BY <1>13 DEF Poll, group, TakeFinish
  <2> QED
    BY <1>1, <1>4, <2>1 DEF Largest
<1>14. CASE UNCHANGED todoVars
  <2>1. UNCHANGED <<fate, newMax, recorded, stored, wpc, cur, cpc>>
    BY <1>14 DEF todoVars, caller, group, worker
  <2> QED
    BY <1>1, <1>4, <2>1 DEF Largest
<1> QED
  BY <1>6, <1>7, <1>8, <1>9, <1>10, <1>11, <1>12, <1>13, <1>14, NextCases DEF Reading

\* As long as the response loop is heard from, the commands without an answer
\* are in line; when it has given up, no more are sent.
LEMMA BoundStep ==
    ASSUME ChannelTyped', WireTyped', InLine', Ending, PendingBounded, [TodoNext]_todoVars
    PROVE  PendingBounded'
<1>1. CASE wpc' # "done"
  <2>1. /\ Len(asked') = answered' + Held' + Len(todochan') + Owed'
        /\ Owed' \in {0, 1} /\ Held' \in {0, 1}
    BY <1>1 DEF InLine, Held, Owed
  <2>2. Len(todochan') \in Nat /\ Len(todochan') <= QueueCap /\ answered' \in Nat
    BY DEF WireTyped, ChannelTyped
  <2>3. Held' + Len(todochan') + Owed' <= QueueCap + 2
    <3>1. QueueCap \in Nat
      BY TodoAssumption
    <3>2. Held' <= 1 /\ Owed' <= 1 /\ Held' \in Nat /\ Owed' \in Nat
      BY <2>1
    <3> QED
      BY <2>2, <3>1, <3>2
  <2>4. Len(asked') - answered' = Held' + Len(todochan') + Owed'
    BY <2>1, <2>2
  <2> QED
    BY <2>3, <2>4 DEF PendingBounded
<1>2. CASE wpc' = "done"
  <2>1. UNCHANGED asked
    BY <1>2, Frames, StaysDone DEF Ask, worker
  <2>2. UNCHANGED answered
    BY <1>2, Frames DEF Reading, ReadGood, ReadStrange, ReadFatal
  <2> QED
    BY <2>1, <2>2 DEF PendingBounded
<1> QED
  BY <1>1, <1>2

-----------------------------------------------------------------------------
(***************************************************************************)
(* The theorems.                                                           *)
(***************************************************************************)

\* The invariant holds when the call starts.
LEMMA TodoStart == TodoInit => TodoInv
<1> SUFFICES ASSUME TodoInit PROVE TodoInv
  OBVIOUS
<1>1. list \in Seq(Ids)
  <2>1. PICK k \in 0 .. MaxLen : list \in [1 .. k -> Ids]
    BY DEF TodoInit, Lists
  <2> QED
    BY <2>1, TodoAssumption
<1>2. Len(list) \in Nat /\ (list = <<>> => Len(list) = 0) /\ (list # <<>> => Len(list) >= 1)
  BY <1>1
<1>3. TodoTypeOK
  <2>1. i = 1 /\ cpc \in {"poll1", "close"} /\ err = "nil"
    BY DEF TodoInit
  <2>b. fatal \in BOOLEAN /\ stored \in BOOLEAN /\ closed \in BOOLEAN
    BY Zenon DEF TodoInit
  <2>2. CallerTyped
    BY <1>2, <2>1, <2>b DEF CallerTyped, CallerPcs
  <2>3. wpc = "take" /\ cur = 0 /\ todochan = <<>> /\ asked = <<>> /\ answered = 0
    BY DEF TodoInit
  <2>4. WorkerTyped
    BY <1>2, <2>3 DEF WorkerTyped, LoopPcs
  <2>5. ChannelTyped /\ WireTyped
    <3>1. <<>> \in Seq(1 .. Len(list)) /\ Len(<<>>) = 0
      OBVIOUS
    <3> QED
      BY <2>3, <2>b, <3>1, TodoAssumption DEF ChannelTyped, WireTyped
  <2>6. maxid \in {-1, 0, Known} /\ newMax = -1 /\ recorded = Known
    BY DEF TodoInit
  <2>7. GroupTyped
    BY <1>1, <2>6, <2>b, TodoAssumption DEF GroupTyped
  <2>8. fate = [a \in 1 .. Len(list) |-> "none"] /\ declined = {}
    BY DEF TodoInit
  <2>9. FateTyped
    BY <2>8 DEF FateTyped
  <2> QED
    BY <2>2, <2>4, <2>5, <2>7, <2>9 DEF TodoTypeOK
<1>4. InLine /\ Ending
  BY <1>2 DEF TodoInit, InLine, Held, Owed, Ending
<1>5. Ascending
  BY <1>2 DEF TodoInit, Ascending, Looping
<1>6. Fates
  BY <1>2 DEF TodoInit, Fates, Unanswered
<1>7. Largest
  BY DEF TodoInit, Largest, Settled
<1>8. PendingBounded
  BY TodoAssumption DEF TodoInit, PendingBounded
<1> QED
  BY <1>3, <1>4, <1>5, <1>6, <1>7, <1>8 DEF TodoInv

LEMMA TodoStep == TodoInv /\ [TodoNext]_todoVars => TodoInv'
<1> SUFFICES ASSUME TodoInv, [TodoNext]_todoVars PROVE TodoInv'
  OBVIOUS
<1>1. /\ CallerTyped /\ GroupTyped /\ WorkerTyped /\ ChannelTyped /\ WireTyped /\ FateTyped
      /\ InLine /\ Ending /\ Ascending /\ Fates /\ PendingBounded
  BY DEF TodoInv, TodoTypeOK
<1>2. TodoTypeOK' /\ InLine'
  BY <1>1, TypeStep, LineStep
<1>3. PendingBounded'
  BY <1>1, <1>2, BoundStep DEF TodoTypeOK
<1> QED
  BY <1>1, <1>2, <1>3, EndStep, AscendingStep, FatesStep, LargestStep DEF TodoInv

\* The invariant of one call (client_puller.go 472-679).
THEOREM Invariance == TodoSpec => []TodoInv
BY TodoStart, TodoStep, PTL DEF TodoSpec

\* Every variable keeps its type, and todochan its capacity.
THEOREM Typing == TodoSpec => []TodoTypeOK
<1>1. TodoInv => TodoTypeOK
  BY DEF TodoInv
<1> QED
  BY <1>1, Invariance, PTL

\* The response loop reads, for every article it takes from the queue, the
\* answer to the command that asked for this article.
THEOREM Matching == TodoSpec => []Matched
<1>1. TodoInv => Matched
  <2> SUFFICES ASSUME TodoInv, wpc = "read" PROVE answered < Len(asked) /\ asked[answered + 1] = cur
    BY DEF Matched
  <2>1. /\ Len(asked) = answered + 1 + Len(todochan) + Owed /\ Owed \in {0, 1}
        /\ Len(todochan) \in Nat /\ answered \in Nat
    BY DEF TodoInv, TodoTypeOK, WireTyped, ChannelTyped, InLine, Held, Owed
  <2> QED
    BY <2>1 DEF TodoInv, InLine
<1> QED
  BY <1>1, Invariance, PTL

\* No response loop is left behind on the connection, and none is found to
\* have ended before it was told to.
THEOREM Ends == TodoSpec => [](WorkerEnds /\ NeverEarly)
<1>1. TodoInv => WorkerEnds /\ NeverEarly
  BY DEF TodoInv, Ending, WorkerEnds, NeverEarly
<1> QED
  BY <1>1, Invariance, PTL

\* No more commands are without an answer than the queue and the two
\* goroutines hold.
THEOREM Bounded == TodoSpec => []PendingBounded
<1>1. TodoInv => PendingBounded
  BY DEF TodoInv
<1> QED
  BY <1>1, Invariance, PTL

\* When the call returns without an error, every article has been dealt with.
THEOREM Clean == TodoSpec => []CleanReturn
<1>1. TodoInv => CleanReturn
  <2> SUFFICES ASSUME TodoInv, cpc = "returned", err = "nil"
               PROVE  /\ answered = Len(asked)
                      /\ \A a \in 1 .. Len(list) : fate[a] \in {"unwanted", "done", "strange"}
    BY DEF CleanReturn
  <2>1. wpc = "closed" /\ todochan = <<>> /\ i = Len(list) + 1
    BY DEF TodoInv, Ending, Ascending
  <2>2. answered \in Nat /\ Len(list) \in Nat
    BY DEF TodoInv, TodoTypeOK, WireTyped, GroupTyped
  <2>3. answered = Len(asked)
    BY <2>1, <2>2 DEF TodoInv, InLine, Held, Owed
  <2>4. \A k : k \notin Unanswered
    BY <2>2, <2>3 DEF Unanswered
  <2>5. \A a \in 1 .. Len(list) : a < i
    BY <2>1, <2>2
  <2>6. \A a \in 1 .. Len(list) : fate[a] # "none" /\ fate[a] # "lost"
    BY <2>1, <2>4, <2>5 DEF TodoInv, Fates
  <2> QED
    BY <2>3, <2>6 DEF TodoInv, TodoTypeOK, FateTyped
<1> QED
  BY <1>1, Invariance, PTL

\* What a call records is the largest number it is done with, though two
\* goroutines raise new_maxid.
THEOREM Recording == TodoSpec => []RecordedIsLargest
<1>1. TodoInv => RecordedIsLargest
  <2> SUFFICES ASSUME TodoInv, cpc = "returned", stored PROVE
         /\ \E a \in 1 .. Len(list) : Settled(a) /\ list[a] = recorded
         /\ \A a \in 1 .. Len(list) : Settled(a) => list[a] <= recorded
    BY DEF RecordedIsLargest, Settled
  <2>1. wpc # "raise" /\ recorded = newMax /\ newMax # -1
    BY DEF TodoInv, Ending, Largest
  <2> QED
    BY <2>1 DEF TodoInv, Largest
<1> QED
  BY <1>1, Invariance, PTL

=============================================================================
