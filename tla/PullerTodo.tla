----------------------------- MODULE PullerTodo -----------------------------
(***************************************************************************)
(* One call of processTODOList of the NNTP puller (client_puller.go        *)
(* 472-679): the caller walks the list of articles, asks the server for    *)
(* the wanted ones without waiting for the answers, and hands what it      *)
(* asked for to the response loop, a goroutine that reads the answers from *)
(* the same connection.  The two meet at todochan (buffered), at finishchan*)
(* (not buffered) and at new_maxid, the group id that the caller records   *)
(* when it returns.                                                        *)
(*                                                                         *)
(* An article is its position in the list; its number in the group is      *)
(* list[i].  Whether the database wants it, whether its reference exists   *)
(* and what the server answers are choices made when the code asks.  The   *)
(* server answers requests in the order in which they were sent.           *)
(***************************************************************************)
EXTENDS Integers, Sequences

CONSTANTS MaxLen,    \* the length of the longest list (2048 in the code)
          QueueCap,  \* the capacity of todochan (32 in the code)
          Ids,       \* the article numbers the server may list
          Known,     \* the group id recorded before the call
          DbFails    \* can a query of the database fail?

ASSUME TodoAssumption ==
    /\ MaxLen \in Nat
    /\ QueueCap \in Nat
    /\ Known \in Nat
    /\ \A id \in Ids : id \in Nat /\ id > Known
    /\ DbFails \in BOOLEAN

VARIABLES
    list,      \* c.todoList
    maxid,     \* the parameter: what the previous slice of the group yielded
    i,         \* the loop variable
    cpc,       \* where the caller is
    err,       \* its result: "nil", or where the error comes from
    fatal,     \* its other result
    newMax,    \* new_maxid
    recorded,  \* the group id in the database
    stored,    \* whether UpdateGroupID was called and succeeded
    todochan,  \* what is queued for the response loop
    closed,    \* whether todochan is closed
    wpc,       \* where the response loop is
    cur,       \* the article it believes to be reading, or 0
    asked,     \* the ARTICLE commands sent, in order
    answered,  \* how many of them have been answered (and read)
    fate,      \* what became of each article
    declined   \* articles logged as "not requesting"

caller == <<i, cpc, err, fatal>>
group  == <<list, maxid, recorded, stored>>
worker == <<wpc, cur>>
wire   == <<asked, answered>>
todoVars == <<caller, group, newMax, todochan, closed, worker, wire, fate, declined>>

GoLine(l) == cpc' = l

\* The next turn of the for loop.
NextArticle ==
    /\ i' = i + 1
    /\ GoLine(IF i < Len(list) THEN "poll1" ELSE "close")

Raise(id) == newMax' = IF id > newMax THEN id ELSE newMax

-----------------------------------------------------------------------------
(***************************************************************************)
(* The caller.                                                             *)
(***************************************************************************)

\* A receive from finishchan, and handleFinishCase.
TakeFinish ==
    /\ \/ /\ wpc = "offer"
          /\ wpc' = "done"
          /\ err' = "worker"
          /\ fatal' = TRUE
       \/ /\ wpc = "closed"
          /\ err' = "early"
          /\ UNCHANGED <<wpc, fatal>>
    /\ GoLine("return")

\* select { case e := <-finishchan: ... default: }
Poll(here, there) ==
    /\ cpc = here
    /\ \/ TakeFinish
       \/ wpc \notin {"offer", "closed"} /\ GoLine(there) /\ UNCHANGED <<err, fatal, wpc>>
    /\ UNCHANGED <<i, group, newMax, todochan, closed, cur, wire, fate, declined>>

\* (Wrong variant: asks the database again after an error.)
WantedRetried ==
    /\ cpc = "wanted"
    /\ \/ /\ DbFails
          /\ GoLine("poll1")
          /\ UNCHANGED <<i, err, newMax, fate>>
       \/ /\ fate' = [fate EXCEPT ![i] = "unwanted"]
          /\ Raise(list[i])
          /\ NextArticle
          /\ UNCHANGED err
       \/ /\ GoLine("poll2")
          /\ UNCHANGED <<i, err, newMax, fate>>
    /\ UNCHANGED <<fatal, group, todochan, closed, worker, wire, declined>>

\* IsArticleWanted.  An article that is not wanted counts as done.
Wanted ==
    /\ cpc = "wanted"
    /\ \/ /\ DbFails
          /\ err' = "db"
          /\ GoLine("errClose")
          /\ UNCHANGED <<i, newMax, fate>>
       \/ /\ fate' = [fate EXCEPT ![i] = "unwanted"]
          /\ Raise(list[i])
          /\ NextArticle
          /\ UNCHANGED err
       \/ /\ GoLine("poll2")
          /\ UNCHANGED <<i, err, newMax, fate>>
    /\ UNCHANGED <<fatal, group, todochan, closed, worker, wire, declined>>

\* DoesReferenceExist.  A reference that neither exists nor is on the list is
\* logged, and that is all.
Reference ==
    /\ cpc = "reference"
    /\ \/ GoLine("ask") /\ UNCHANGED <<err, declined>>         \* there is none
       \/ DbFails /\ err' = "db" /\ GoLine("errClose") /\ UNCHANGED declined
       \/ GoLine("poll3") /\ UNCHANGED <<err, declined>>       \* it exists
       \/ declined' = declined \cup {i} /\ GoLine("poll3") /\ UNCHANGED err
    /\ UNCHANGED <<i, fatal, group, newMax, todochan, closed, worker, wire, fate>>

\* The ARTICLE command.
Ask ==
    /\ cpc = "ask"
    /\ \/ /\ asked' = Append(asked, i)
          /\ GoLine("queue")
          /\ UNCHANGED <<err, fatal>>
       \/ /\ err' = "write"
          /\ fatal' = TRUE
          /\ GoLine("errClose")
          /\ UNCHANGED asked
    /\ UNCHANGED <<i, group, newMax, todochan, closed, worker, answered, fate, declined>>

\* select { case todochan <- tla: case e := <-finishchan: ... }
Queue ==
    /\ cpc = "queue"
    /\ \/ /\ Len(todochan) < QueueCap
          /\ todochan' = Append(todochan, i)
          /\ NextArticle
          /\ UNCHANGED <<err, fatal, wpc>>
       \/ /\ TakeFinish
          /\ UNCHANGED <<i, todochan>>
    /\ UNCHANGED <<group, newMax, closed, cur, wire, fate, declined>>

\* close(todochan), after the last article or in errCloseLoop.
CloseTodo ==
    /\ cpc \in {"close", "errClose"}
    /\ closed' = TRUE
    /\ GoLine(IF cpc = "close" THEN "await" ELSE "errAwait")
    /\ UNCHANGED <<i, err, fatal, group, newMax, todochan, worker, wire, fate, declined>>

\* (Wrong variant: does not look at what the response loop reports.)
AwaitWorkerDeaf ==
    /\ cpc = "await"
    /\ wpc \in {"offer", "closed"}
    /\ wpc' = IF wpc = "offer" THEN "done" ELSE wpc
    /\ UNCHANGED <<err, fatal>>
    /\ GoLine("return")
    /\ UNCHANGED <<i, group, newMax, todochan, closed, cur, wire, fate, declined>>

\* e := <-finishchan, after the last article.
AwaitWorker ==
    /\ cpc = "await"
    /\ \/ wpc = "closed" /\ UNCHANGED <<err, fatal, wpc>>
       \/ wpc = "offer" /\ wpc' = "done" /\ err' = "worker" /\ fatal' = TRUE
    /\ GoLine("return")
    /\ UNCHANGED <<i, group, newMax, todochan, closed, cur, wire, fate, declined>>

\* <-finishchan in errCloseLoop: what it says is dropped.
ErrAwaitWorker ==
    /\ cpc = "errAwait"
    /\ wpc \in {"offer", "closed"}
    /\ wpc' = IF wpc = "offer" THEN "done" ELSE wpc
    /\ GoLine("return")
    /\ UNCHANGED <<i, err, fatal, group, newMax, todochan, closed, cur, wire, fate,
                   declined>>

\* The deferred UpdateGroupID, whose failure is "non-serious".
Return ==
    /\ cpc = "return"
    /\ \/ /\ newMax >= 0 /\ newMax > maxid
          /\ recorded' = newMax
          /\ stored' = TRUE
       \/ /\ newMax >= 0 /\ newMax > maxid => DbFails
          /\ UNCHANGED <<recorded, stored>>
    /\ GoLine("returned")
    /\ UNCHANGED <<i, err, fatal, list, maxid, newMax, todochan, closed, worker, wire,
                   fate, declined>>

-----------------------------------------------------------------------------
(***************************************************************************)
(* The response loop.                                                      *)
(***************************************************************************)

\* for a := range ch, and close(endch) after the last one.
TakeTodo ==
    /\ wpc = "take"
    /\ \/ /\ todochan # <<>>
          /\ cur' = Head(todochan)
          /\ todochan' = Tail(todochan)
          /\ wpc' = "read"
       \/ /\ todochan = <<>> /\ closed
          /\ wpc' = "closed"
          /\ UNCHANGED <<cur, todochan>>
    /\ UNCHANGED <<caller, group, newMax, closed, wire, fate, declined>>

\* The answer to the oldest command not answered yet is read.
Answer(to) ==
    /\ wpc = "read"
    /\ answered < Len(asked)
    /\ answered' = answered + 1
    /\ fate' = [fate EXCEPT ![asked[answered + 1]] = to]
    /\ UNCHANGED <<caller, group, newMax, todochan, closed, asked, declined>>

\* The article is taken in, refused for good, or gone (420-439).
ReadGood == Answer("done") /\ wpc' = "raise" /\ UNCHANGED cur

\* (Wrong variant: a strange answer is skipped and the next one read.)
ReadStrangeAgain == Answer("strange") /\ UNCHANGED worker

\* Any other code, or a line that is no answer: logged, on to the next.
ReadStrange == Answer("strange") /\ wpc' = "take" /\ cur' = 0

\* The connection or the taking in failed beyond repair: endch <- err.
ReadFatal == Answer("lost") /\ wpc' = "offer" /\ cur' = 0

\* (Wrong variant: the last article taken in, not the largest number.)
RaiseMaxLast ==
    /\ wpc = "raise"
    /\ newMax' = list[cur]
    /\ wpc' = "take"
    /\ cur' = 0
    /\ UNCHANGED <<caller, group, todochan, closed, wire, fate, declined>>

RaiseMax ==
    /\ wpc = "raise"
    /\ Raise(list[cur])
    /\ wpc' = "take"
    /\ cur' = 0
    /\ UNCHANGED <<caller, group, todochan, closed, wire, fate, declined>>

-----------------------------------------------------------------------------

Calling ==
    \/ Poll("poll1", "wanted") \/ Wanted
    \/ Poll("poll2", "reference") \/ Reference \/ Poll("poll3", "ask")
    \/ Ask \/ Queue
    \/ CloseTodo \/ AwaitWorker \/ ErrAwaitWorker \/ Return

Responding == TakeTodo \/ ReadGood \/ ReadStrange \/ ReadFatal \/ RaiseMax

Finished == cpc = "returned" /\ wpc \in {"closed", "done"} /\ UNCHANGED todoVars

TodoNext == Calling \/ Responding \/ Finished

Lists == UNION {[1 .. k -> Ids] : k \in 0 .. MaxLen}

TodoInit ==
    /\ list \in Lists
    /\ maxid \in {-1, 0, Known}
    /\ i = 1
    /\ cpc = IF list = <<>> THEN "close" ELSE "poll1"
    /\ err = "nil"
    /\ fatal = FALSE
    /\ newMax = -1
    /\ recorded = Known
    /\ stored = FALSE
    /\ todochan = <<>>
    /\ closed = FALSE
    /\ wpc = "take"
    /\ cur = 0
    /\ asked = <<>>
    /\ answered = 0
    /\ fate = [a \in 1 .. Len(list) |-> "none"]
    /\ declined = {}

TodoSpec == TodoInit /\ [][TodoNext]_todoVars

\* Both goroutines run, and the server answers or the connection breaks.
TodoFairness == WF_todoVars(Calling) /\ WF_todoVars(Responding)

-----------------------------------------------------------------------------
(***************************************************************************)
(* Properties.                                                             *)
(***************************************************************************)

CallerPcs == {"poll1", "wanted", "poll2", "reference", "poll3", "ask", "queue", "close",
              "await", "errClose", "errAwait", "return", "returned"}
LoopPcs == {"take", "read", "raise", "offer", "closed", "done"}

CallerTyped ==
    /\ i \in 1 .. Len(list) + 1
    /\ cpc \in CallerPcs
    /\ err \in {"nil", "db", "write", "worker", "early"}
    /\ fatal \in BOOLEAN

GroupTyped ==
    /\ list \in Seq(Ids)
    /\ maxid \in Int
    /\ newMax \in {-1} \cup Ids
    /\ recorded \in {Known} \cup Ids
    /\ stored \in BOOLEAN

WorkerTyped ==
    /\ wpc \in LoopPcs
    /\ cur \in 0 .. Len(list)

ChannelTyped ==
    /\ todochan \in Seq(1 .. Len(list))
    /\ Len(todochan) <= QueueCap
    /\ closed \in BOOLEAN

WireTyped ==
    /\ asked \in Seq(1 .. Len(list))
    /\ answered \in 0 .. Len(asked)

FateTyped ==
    /\ fate \in [1 .. Len(list) -> {"none", "unwanted", "done", "strange", "lost"}]
    /\ declined \subseteq 1 .. Len(list)

\* Every variable keeps its type; the queue never holds more than its capacity.
TodoTypeOK ==
    CallerTyped /\ GroupTyped /\ WorkerTyped /\ ChannelTyped /\ WireTyped /\ FateTyped

\* The response loop takes an answer for the article it was asked for: the
\* answer it is about to read is there to come, and is the one to cur
\* (lines 523-524, 645-664).
Matched ==
    wpc = "read" => answered < Len(asked) /\ asked[answered + 1] = cur

\* The connection is not read by a goroutine left over from an earlier list:
\* when processTODOList returns, its response loop has ended (lines 539-542,
\* 668-670).
WorkerEnds == cpc \in {"return", "returned"} => wpc \in {"closed", "done"}

\* "wtf worker quit before I told him to" (line 551) is never logged.
NeverEarly == err # "early"

\* An error-free return leaves no wanted article without an answer
\* (lines 668-678).
CleanReturn ==
    cpc = "returned" /\ err = "nil" =>
        /\ answered = Len(asked)
        /\ \A a \in 1 .. Len(list) : fate[a] \in {"unwanted", "done", "strange"}

\* "32 pending articles max" (line 536): with one more in the hands of each
\* goroutine, that is how many commands can be without an answer.
PendingBounded == Len(asked) - answered <= QueueCap + 2

\* What is recorded is the largest number among the articles that are done
\* with, whichever goroutine was done with it (lines 480-514, 603-607).
RecordedIsLargest ==
    cpc = "returned" /\ stored =>
        /\ \E a \in 1 .. Len(list) : fate[a] \in {"unwanted", "done"} /\ list[a] = recorded
        /\ \A a \in 1 .. Len(list) : fate[a] \in {"unwanted", "done"} => list[a] <= recorded

\* The call returns.
CallReturns == <>(cpc = "returned")

-----------------------------------------------------------------------------
(***************************************************************************)
(* The inductive invariant behind the safety properties.                   *)
(***************************************************************************)

Looping == {"poll1", "wanted", "poll2", "reference", "poll3", "ask", "queue"}

Held == IF wpc = "read" THEN 1 ELSE 0    \* an article in the response loop's hands
Owed == IF cpc = "queue" THEN 1 ELSE 0    \* one in the caller's

\* The commands without an answer: the one the response loop is at, those in
\* the queue, and the one on its way into it, in this order.
InLine ==
    wpc # "done" =>
        /\ Len(asked) = answered + Held + Len(todochan) + Owed
        /\ \A k \in 1 .. Len(todochan) : asked[answered + Held + k] = todochan[k]
        /\ wpc = "read" => asked[answered + 1] = cur
        /\ cpc = "queue" => asked[Len(asked)] = i

\* Who has ended, and what follows from it.
Ending ==
    /\ closed => cpc \in {"await", "errAwait", "return", "returned"}
    /\ wpc = "closed" => closed /\ todochan = <<>>
    /\ wpc = "done" => cpc \in {"return", "returned"}
    /\ cpc \in {"return", "returned"} => wpc \in {"closed", "done"}
    /\ cpc \in {"errClose", "errAwait"} => err # "nil"
    /\ err = "nil" /\ cpc \in {"return", "returned"} => wpc = "closed"
    /\ err # "early"

\* Articles are asked for in the order of the list, and none twice.
Ascending ==
    /\ \A k, l \in 1 .. Len(asked) : k < l => asked[k] < asked[l]
    /\ \A k \in 1 .. Len(asked) :
          asked[k] < i \/ (asked[k] = i /\ (cpc = "queue" \/ wpc = "done"))
    /\ cpc \in Looping => i <= Len(list)
    /\ cpc \in {"close", "await"} => i = Len(list) + 1
    /\ err = "nil" /\ cpc \in {"return", "returned"} => i = Len(list) + 1

Unanswered == (answered + 1) .. Len(asked)

\* Only what has been asked for or ruled out has a fate.
Fates ==
    /\ \A k \in Unanswered : fate[asked[k]] = "none"
    /\ \A a \in 1 .. Len(list) :
          fate[a] # "none" => a < i \/ \E k \in 1 .. answered : asked[k] = a
    /\ \A a \in 1 .. Len(list) :
          a < i /\ fate[a] = "none" => \E k \in Unanswered : asked[k] = a
    /\ \A a \in 1 .. Len(list) : fate[a] = "lost" => wpc \in {"offer", "done"}

Settled(a) == fate[a] \in {"unwanted", "done"}

\* newMax is the largest number of a settled article, but for the one that the
\* response loop has just read.
Largest ==
    /\ wpc \in {"read", "raise"} => cur \in 1 .. Len(list)
    /\ wpc = "raise" => fate[cur] = "done"
    /\ \A a \in 1 .. Len(list) : Settled(a) => list[a] <= newMax \/ (wpc = "raise" /\ a = cur)
    /\ newMax = -1 \/ \E a \in 1 .. Len(list) : Settled(a) /\ list[a] = newMax
    /\ stored => cpc = "returned" /\ recorded = newMax /\ newMax # -1

TodoInv == TodoTypeOK /\ InLine /\ Ending /\ Ascending /\ Fates /\ Largest /\ PendingBounded
=============================================================================
