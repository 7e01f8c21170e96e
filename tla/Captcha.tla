------------------------------ MODULE Captcha ------------------------------
(***************************************************************************)
(* Web captchas (app/base/webcaptcha) and the stores that keep them from   *)
(* being used twice (app/captchastore).  A captcha carries its answer and  *)
(* the second it expires, encrypted with a key (KEK) that every server     *)
(* loads when it starts; the store keeps the keys, and the captchas that   *)
(* were solved until they expire.                                          *)
(*                                                                         *)
(* With the store "psql" several servers share one database, with "mem" a  *)
(* server has a store of its own, which is gone with it.  A captcha is a   *)
(* model value; a submission that is refused before it gets to the store   *)
(* changes nothing and is not a step.                                      *)
(***************************************************************************)
EXTENDS Integers, FiniteSets, Sequences

CONSTANTS Processes,      \* processes with a WebCaptcha
          Keys,         \* what RandomKEK may return, which never repeats
          Captchas,     \* challenges that may be made
          Requests,     \* submissions handled at once
          Duration,     \* vduration: seconds a captcha is valid
          MaxClock,     \* bound on the seconds that pass
          MaxCrashes,   \* bound on servers and statements that are lost
          NoOne

ASSUME CaptchaAssumption ==
    /\ Duration \in Nat \ {0}
    /\ MaxClock \in Nat /\ MaxCrashes \in Nat
    /\ NoOne \notin Processes \cup Keys

VARIABLES
    store,      \* which store the servers are configured with
    inited,     \* the schema captcha exists
    keks,       \* the keys in the store, the newest first: [id, disabled]
    lockedBy,   \* who holds captcha.keks IN ACCESS EXCLUSIVE MODE
    stage,      \* server -> where it is
    known,      \* server -> the ids of its keks that are not disabled
    prim,       \* server -> the id of the key it encrypts with
    clock,
    made,       \* captcha -> the key it was encrypted with and its expiry
    pending,    \* request -> a submission that was validated, at nowt
    solved,     \* the solved captchas in the store
    headExp,    \* mem: the expiry of ms.head, -1 if it is nil
    tailed,     \* mem: ms.tail is not nil
    spinning,   \* mem: StoreSolved is in its loop for ever, under the lock
    accepted,   \* captcha -> how many submissions were told it was fresh
    crashes

kekVars == <<inited, keks, lockedBy, stage, known, prim>>
solvedVars == <<solved, headExp, tailed, spinning>>
captchaVars ==
    <<store, kekVars, clock, made, pending, solvedVars, accepted, crashes>>

NoCaptcha == [key |-> NoOne, exp |-> 0]
NoRequest == [server |-> NoOne, captcha |-> NoOne, nowt |-> 0]

hasValidKEKs == \E i \in DOMAIN keks : ~keks[i].disabled

ValidKeys(rows) == {rows[i].id : i \in {j \in DOMAIN rows : ~rows[j].disabled}}

FirstValid(rows) ==
    rows[CHOOSE i \in DOMAIN rows :
            ~rows[i].disabled /\ \A j \in 1 .. i - 1 : rows[j].disabled].id

-----------------------------------------------------------------------------
\* The keys of a new database: none.  A database that ran before may hold one
\* that was disabled.
CaptchaInit ==
    /\ store \in {"psql", "mem"}
    /\ inited \in BOOLEAN
    /\ keks \in {<<>>} \cup {<<[id |-> k, disabled |-> TRUE]>> : k \in Keys}
    /\ store = "mem" \/ ~inited => keks = <<>>
    /\ lockedBy = NoOne
    /\ stage = [s \in Processes |-> "down"]
    /\ known = [s \in Processes |-> {}]
    /\ prim = [s \in Processes |-> NoOne]
    /\ clock = 0
    /\ made = [c \in Captchas |-> NoCaptcha]
    /\ pending = [r \in Requests |-> NoRequest]
    /\ solved = {} /\ headExp = -1 /\ tailed = FALSE /\ spinning = FALSE
    /\ accepted = [c \in Captchas |-> 0]
    /\ crashes = 0

Others == <<store, clock, made, pending, solvedVars, accepted, crashes>>

Enter(s, l) == stage' = [stage EXCEPT ![s] = l] /\ UNCHANGED <<known, prim>>

\* NewWebCaptcha has its keys: it keeps them all and encrypts with the newest
\* that is not disabled.
Run(s, rows) ==
    /\ stage' = [stage EXCEPT ![s] = "up"]
    /\ known' = [known EXCEPT ![s] = ValidKeys(rows)]
    /\ prim' = [prim EXCEPT ![s] = FirstValid(rows)]

\* InitAndPrepare: CheckDB, before and after InitDB.
CheckDB(s) ==
    /\ store = "psql" /\ stage[s] \in {"down", "check"}
    /\ Enter(s, IF inited THEN "load" ELSE "init")
    /\ UNCHANGED <<inited, keks, lockedBy, Others>>

\* InitDB, one serializable transaction.  It fails when another has created
\* the schema, and the server ends.
InitDB(s) ==
    /\ stage[s] = "init"
    /\ Enter(s, IF inited THEN "failed" ELSE "check")
    /\ inited' = TRUE
    /\ UNCHANGED <<keks, lockedBy, Others>>

\* LoadKEKs outside of a transaction.
LoadKEKs(s) ==
    /\ stage[s] = "load"
    /\ IF hasValidKEKs THEN Run(s, keks) ELSE Enter(s, "lock")
    /\ UNCHANGED <<inited, keks, lockedBy, Others>>

LockKEKs(s) ==
    /\ stage[s] = "lock" /\ lockedBy = NoOne
    /\ lockedBy' = s
    /\ Enter(s, "recheck")
    /\ UNCHANGED <<inited, keks, Others>>

\* (Wrong variant: the keys that were read before the lock are believed.)
RecheckNot(s) ==
    /\ stage[s] = "recheck"
    /\ Enter(s, "insert")
    /\ UNCHANGED <<inited, keks, lockedBy, Others>>

\* The keys are read again under the lock.
Recheck(s) ==
    /\ stage[s] = "recheck"
    /\ IF hasValidKEKs
       THEN Run(s, keks) /\ lockedBy' = NoOne
       ELSE Enter(s, "insert") /\ UNCHANGED lockedBy
    /\ UNCHANGED <<inited, keks, Others>>

NewKeys == Keys \ {keks[i].id : i \in DOMAIN keks}

\* A new key is inserted and committed.
InsertKEK(s) ==
    /\ stage[s] = "insert"
    /\ \E k \in NewKeys :
          /\ keks' = <<[id |-> k, disabled |-> FALSE]>> \o keks
          /\ Run(s, keks')
    /\ lockedBy' = NoOne
    /\ UNCHANGED <<inited, Others>>

\* NewWebCaptcha with a MemStore.
LoadMemory(s) ==
    /\ store = "mem" /\ stage[s] = "down"
    /\ \A t \in Processes : stage[t] = "down"
    /\ \E k \in NewKeys :
          /\ keks' = <<[id |-> k, disabled |-> FALSE]>> \o keks
          /\ Run(s, <<keks'[1]>>)
    /\ UNCHANGED <<inited, lockedBy, Others>>

StartUp(s) ==
    \/ CheckDB(s) \/ InitDB(s) \/ LoadKEKs(s)
    \/ LockKEKs(s) \/ Recheck(s) \/ InsertKEK(s) \/ LoadMemory(s)

-----------------------------------------------------------------------------
EncryptChallenge(s) == [key |-> prim[s], exp |-> clock + Duration]

\* NewKey, and ServeCaptchaPNG with cookies.
NewKey(s, c) ==
    /\ stage[s] = "up" /\ made[c] = NoCaptcha
    /\ made' = [made EXCEPT ![c] = EncryptChallenge(s)]
    /\ UNCHANGED <<store, kekVars, clock, pending, solvedVars, accepted, crashes>>

unpackAndValidateKey(s, c) == made[c].key \in known[s] /\ clock < made[c].exp

\* CheckCaptcha up to StoreSolved, with the right answer.
CheckCaptcha(r, s, c) ==
    /\ stage[s] = "up" /\ pending[r] = NoRequest
    /\ unpackAndValidateKey(s, c)
    /\ pending' = [pending EXCEPT ![r] =
                      [server |-> s, captcha |-> c, nowt |-> clock]]
    /\ UNCHANGED <<store, kekVars, clock, made, solvedVars, accepted, crashes>>

\* (Wrong variant: <= for <.)
ExpiredToo(nowt) == {x \in solved : made[x].exp <= nowt}

Expired(nowt) == {x \in solved : made[x].exp < nowt}

Answer(r, fresh) ==
    /\ pending' = [pending EXCEPT ![r] = NoRequest]
    /\ accepted' = IF fresh
                   THEN [accepted EXCEPT ![pending[r].captcha] = @ + 1]
                   ELSE accepted

\* PSQLStore.StoreSolved: one statement, whose two parts see the same table.
StorePSQL(r) ==
    LET c == pending[r].captcha IN
    /\ store = "psql" /\ pending[r] # NoRequest
    /\ solved' = (solved \ Expired(pending[r].nowt)) \cup {c}
    /\ Answer(r, c \notin solved)
    /\ UNCHANGED <<store, kekVars, clock, made, headExp, tailed, spinning, crashes>>

\* MemStore.StoreSolved.  What is expired is taken from the tail; when nothing
\* is left the tail is nil and the head stays.  The list is ordered by expiry,
\* the latest first: an object that belongs behind the head is never linked,
\* because the loop does not move on.  A nil tail is set only with a nil head.
StoreMemory(r) ==
    LET c == pending[r].captcha
        left == IF tailed THEN solved \ Expired(pending[r].nowt) ELSE solved
    IN
    /\ store = "mem" /\ pending[r] # NoRequest /\ ~spinning
    /\ IF c \in left
       THEN /\ solved' = left
            /\ tailed' = (tailed /\ left # {})
            /\ Answer(r, FALSE)
            /\ UNCHANGED <<headExp, spinning>>
       ELSE IF headExp > made[c].exp
       THEN /\ solved' = left
            /\ tailed' = (tailed /\ left # {})
            /\ spinning' = TRUE
            /\ UNCHANGED <<headExp, pending, accepted>>
       ELSE /\ solved' = left \cup {c}
            /\ headExp' = made[c].exp
            /\ tailed' = (headExp = -1 \/ (tailed /\ left # {}))
            /\ Answer(r, TRUE)
            /\ UNCHANGED spinning
    /\ UNCHANGED <<store, kekVars, clock, made, crashes>>

StoreSolved(r) == StorePSQL(r) \/ StoreMemory(r)

\* The statement fails, or its result does not arrive.
StoreFails(r) ==
    /\ store = "psql" /\ pending[r] # NoRequest /\ crashes < MaxCrashes
    /\ crashes' = crashes + 1
    /\ \/ UNCHANGED solved
       \/ solved' = (solved \ Expired(pending[r].nowt))
                       \cup {pending[r].captcha}
    /\ Answer(r, FALSE)
    /\ UNCHANGED <<store, kekVars, clock, made, headExp, tailed, spinning>>

-----------------------------------------------------------------------------
\* A server ends, with its requests and the transaction it had open; what is
\* only in memory is gone.
Crash(s) ==
    /\ stage[s] # "down" /\ crashes < MaxCrashes
    /\ crashes' = crashes + 1
    /\ stage' = [stage EXCEPT ![s] = "down"]
    /\ known' = [known EXCEPT ![s] = {}]
    /\ prim' = [prim EXCEPT ![s] = NoOne]
    /\ lockedBy' = IF lockedBy = s THEN NoOne ELSE lockedBy
    /\ pending' = [r \in Requests |-> IF pending[r].server = s THEN NoRequest
                                      ELSE pending[r]]
    /\ IF store = "mem"
       THEN solved' = {} /\ headExp' = -1 /\ tailed' = FALSE /\ spinning' = FALSE
       ELSE UNCHANGED solvedVars
    /\ UNCHANGED <<store, inited, keks, clock, made, accepted>>

\* Time passes, as much as it likes between a request's reading the clock and
\* its step in the store.
Tick ==
    /\ clock < MaxClock
    /\ clock' = clock + 1
    /\ UNCHANGED <<store, kekVars, made, pending, solvedVars, accepted, crashes>>

CaptchaNext ==
    \/ \E s \in Processes : StartUp(s) \/ Crash(s)
    \/ \E s \in Processes, c \in Captchas :
          NewKey(s, c) \/ \E r \in Requests : CheckCaptcha(r, s, c)
    \/ \E r \in Requests : StoreSolved(r) \/ StoreFails(r)
    \/ Tick
    \/ clock = MaxClock /\ UNCHANGED captchaVars

\* A server that is starting goes on, and the database answers it.
CaptchaFairness ==
    \A s \in Processes : WF_captchaVars(stage[s] # "down" /\ StartUp(s))

CaptchaSpec ==
    CaptchaInit /\ [][CaptchaNext]_captchaVars /\ CaptchaFairness
-----------------------------------------------------------------------------
\* Until it has expired a captcha is accepted once at most, whichever server is
\* asked, however many submissions of it are on their way, and whatever the
\* others purge with the clocks they have read: what is purged has expired
\* (StoreSolved).
OnceWhileValid ==
    \A c \in Captchas : clock <= made[c].exp => accepted[c] <= 1

\* The store is there "to store solved captchas to prevent reuse"
\* (captchastore.go:3): a captcha is accepted once at most, ever.
SingleUse == \A c \in Captchas : accepted[c] <= 1

\* Processes that start at once on one database end up with one key: a captcha
\* that one of them makes is known to all that run, also after restarts
\* (LoadKEKs).
KnownEverywhere ==
    store = "psql" =>
        \A s, t \in Processes, c \in Captchas :
            stage[s] = "up" /\ stage[t] = "up" =>
                /\ prim[s] \in known[t]
                /\ made[c] # NoCaptcha => made[c].key \in known[t]
=============================================================================
