----------------------------- MODULE StoresProofs -----------------------------
(***************************************************************************)
(* Proofs about what servers do when they start and stop: the store of the *)
(* captchas (Captcha), the listeners (NNTPServer) and the upgrades of the  *)
(* schema (SchemaTool).                                                    *)
(***************************************************************************)
EXTENDS SchemaTool, Captcha, NNTPServer, FiniteSetTheorems, WellFoundedInduction, TLAPS

-----------------------------------------------------------------------------
(***************************************************************************)
(* Captchas.  KeysOK says what the lock on the table of keys is for;       *)
(* SpentOK where a captcha is that has been accepted.                      *)
(***************************************************************************)

Stages == {"down", "check", "init", "failed", "load", "lock", "recheck", "insert", "up"}

CaptchaTypeOK ==
    /\ store \in {"psql", "mem"} /\ inited \in BOOLEAN
    /\ keks \in Seq([id : Keys, disabled : BOOLEAN])
    /\ lockedBy \in Processes \cup {NoOne}
    /\ stage \in [Processes -> Stages]
    /\ known \in [Processes -> SUBSET Keys]
    /\ prim \in [Processes -> Keys \cup {NoOne}]
    /\ clock \in 0 .. MaxClock
    /\ made \in [Captchas -> [key : Keys \cup {NoOne}, exp : Nat]]
    /\ pending \in [Requests -> {NoRequest} \cup
                        [server : Processes, captcha : Captchas, nowt : Nat]]
    /\ solved \subseteq Captchas
    /\ headExp \in Nat \cup {-1} /\ tailed \in BOOLEAN /\ spinning \in BOOLEAN
    /\ accepted \in [Captchas -> Nat]
    /\ crashes \in 0 .. MaxCrashes

Valid == ValidKeys(keks)

\* The database: one key that is not disabled, of which everybody knows that
\* runs, and nobody is at work without it unless there is none.
KeysOK ==
    store = "psql" =>
        /\ \A i, j \in DOMAIN keks : ~keks[i].disabled /\ ~keks[j].disabled => i = j
        /\ \A s \in Processes : stage[s] \in {"recheck", "insert"} <=> lockedBy = s
        /\ \A s \in Processes : stage[s] = "insert" => ~hasValidKEKs
        /\ \A s \in Processes : stage[s] = "up" => known[s] = Valid /\ prim[s] \in Valid
        /\ \A c \in Captchas : made[c] # NoCaptcha => made[c].key \in Valid

\* In memory: one process at a time, whose key is of this process alone.
MemoryOK ==
    /\ store = "mem" =>
          /\ \A s \in Processes : stage[s] \in {"down", "up"}
          /\ \A s \in Processes : stage[s] = "down" => known[s] = {}
          /\ \A s, t \in Processes : stage[s] = "up" /\ stage[t] = "up" => s = t
    /\ store = "psql" => ~spinning

\* What is made was made with a key that was there.
MadeOK ==
    /\ \A s \in Processes :
          stage[s] = "up" => /\ prim[s] \in Keys /\ prim[s] \in known[s]
                             /\ \E i \in DOMAIN keks : keks[i].id = prim[s]
    /\ \A c \in Captchas :
          made[c] # NoCaptcha => \E i \in DOMAIN keks : keks[i].id = made[c].key

\* A submission that was validated: of a process that runs, and in time.
PendingOK ==
    \A r \in Requests :
        pending[r] # NoRequest =>
            /\ stage[pending[r].server] = "up"
            /\ made[pending[r].captcha] # NoCaptcha
            /\ pending[r].nowt <= clock
            /\ pending[r].nowt < made[pending[r].captcha].exp

\* Nobody can be told any more that c is fresh: its key is gone.
Dead(c) ==
    /\ made[c] # NoCaptcha
    /\ \A r \in Requests : pending[r] # NoRequest => pending[r].captcha # c
    /\ store = "mem" /\ \A s \in Processes : made[c].key \notin known[s]

\* A captcha that has not expired and was accepted: once, and the store knows of
\* it or it is dead.
SpentOK ==
    \A c \in Captchas :
        /\ made[c] = NoCaptcha => accepted[c] = 0
        /\ clock <= made[c].exp =>
              /\ accepted[c] <= 1
              /\ accepted[c] = 1 => c \in solved \/ Dead(c)

KeyInv == CaptchaTypeOK /\ KeysOK /\ MemoryOK /\ MadeOK
UseInv == KeyInv /\ PendingOK /\ SpentOK
-----------------------------------------------------------------------------
(***************************************************************************)
(* Rows of keys.                                                           *)
(***************************************************************************)

KeyRow == [id : Keys, disabled : BOOLEAN]

\* FirstValid takes the key that is not disabled, if there is one only.
LEMMA FirstOfOne ==
    ASSUME NEW rows \in Seq(KeyRow), NEW i \in DOMAIN rows, ~rows[i].disabled,
           \A j \in DOMAIN rows : ~rows[j].disabled => j = i
    PROVE  FirstValid(rows) = rows[i].id /\ ValidKeys(rows) = {rows[i].id}
<1>1. DOMAIN rows = 1 .. Len(rows)
  OBVIOUS
<1>2. \A j \in 1 .. i - 1 : rows[j].disabled
  BY <1>1
<1>3. FirstValid(rows) = rows[i].id
  BY <1>2 DEF FirstValid
<1>4. QED
  BY <1>3 DEF ValidKeys

\* A new key goes before the others.
Prepend(k, rows) == <<[id |-> k, disabled |-> FALSE]>> \o rows

LEMMA NewKeyFirst ==
    ASSUME NEW rows \in Seq(KeyRow), NEW k \in Keys
    PROVE  /\ Prepend(k, rows) \in Seq(KeyRow)
           /\ 1 \in DOMAIN Prepend(k, rows)
           /\ Prepend(k, rows)[1] = [id |-> k, disabled |-> FALSE]
           /\ \A i \in DOMAIN rows :
                 i + 1 \in DOMAIN Prepend(k, rows) /\ Prepend(k, rows)[i + 1] = rows[i]
           /\ \A i \in DOMAIN Prepend(k, rows) :
                 i # 1 => i - 1 \in DOMAIN rows /\ Prepend(k, rows)[i] = rows[i - 1]
<1>1. <<[id |-> k, disabled |-> FALSE]>> \in Seq(KeyRow)
  BY DEF KeyRow
<1>2. QED
  BY <1>1 DEF Prepend

\* There is a key that is not disabled, or ValidKeys has none.
LEMMA ValidThere ==
    ASSUME NEW rows \in Seq(KeyRow)
    PROVE  /\ (\E i \in DOMAIN rows : ~rows[i].disabled) <=> ValidKeys(rows) # {}
           /\ ValidKeys(rows) \subseteq {rows[i].id : i \in DOMAIN rows}
           /\ ValidKeys(rows) \subseteq Keys
           /\ \A i \in DOMAIN rows : rows[i].id \in Keys
<1>1. \A i \in DOMAIN rows : rows[i].id \in Keys
  <2>1. \A i \in DOMAIN rows : rows[i] \in KeyRow
    OBVIOUS
  <2>2. QED
    BY <2>1 DEF KeyRow
<1>2. QED
  BY <1>1 DEF ValidKeys

\* Types of what is read often.
LEMMA KeyTypes ==
    ASSUME KeyInv
    PROVE  /\ keks \in Seq(KeyRow)
           /\ stage \in [Processes -> Stages] /\ known \in [Processes -> SUBSET Keys]
           /\ prim \in [Processes -> Keys \cup {NoOne}]
           /\ made \in [Captchas -> [key : Keys \cup {NoOne}, exp : Nat]]
           /\ clock \in Nat /\ NoOne \notin Keys /\ NoOne \notin Processes
           /\ store \in {"psql", "mem"} /\ Duration \in Nat \ {0}
BY CaptchaAssumption DEF KeyInv, CaptchaTypeOK, KeyRow
-----------------------------------------------------------------------------
(***************************************************************************)
(* NewWebCaptcha.                                                          *)
(***************************************************************************)

\* Nobody had run and no captcha was made when there was no key.
LEMMA NoKeyNothing ==
    ASSUME KeyInv, store = "psql", ~hasValidKEKs
    PROVE  /\ \A s \in Processes : stage[s] # "up"
           /\ \A c \in Captchas : made[c] = NoCaptcha
<1>1. Valid = {}
  BY KeyTypes, ValidThere DEF hasValidKEKs, Valid
<1>2. QED
  BY <1>1 DEF KeyInv, KeysOK

\* A process goes on to another stage without keys.
LEMMA EnterInv ==
    ASSUME KeyInv, NEW s \in Processes, NEW l \in Stages \ {"up"}, Enter(s, l),
           store = "psql", stage[s] # "up",
           UNCHANGED <<keks, Others>>, inited' \in BOOLEAN,
           lockedBy' \in Processes \cup {NoOne},
           l = "insert" => ~hasValidKEKs,
           \A t \in Processes : stage'[t] \in {"recheck", "insert"} <=> lockedBy' = t
    PROVE  KeyInv'
<1>1. /\ stage' = [stage EXCEPT ![s] = l] /\ UNCHANGED <<known, prim, keks, store, clock, made>>
      /\ UNCHANGED <<pending, solved, headExp, tailed, spinning, accepted, crashes>>
  BY DEF Enter, Others, solvedVars
<1>2. stage' \in [Processes -> Stages] /\ \A t \in Processes : stage'[t] = IF t = s THEN l ELSE stage[t]
  BY <1>1, KeyTypes
<1>3. CaptchaTypeOK'
  BY <1>1, <1>2 DEF KeyInv, CaptchaTypeOK
<1>4. KeysOK'
  BY <1>1, <1>2 DEF KeyInv, KeysOK, Valid, ValidKeys, hasValidKEKs
<1>5. MemoryOK' /\ MadeOK'
  BY <1>1, <1>2 DEF KeyInv, MemoryOK, MadeOK
<1>6. QED
  BY <1>3, <1>4, <1>5 DEF KeyInv

\* A process that finds keys runs with them.
LEMMA RunInv ==
    ASSUME KeyInv, NEW s \in Processes, Run(s, keks), hasValidKEKs,
           store = "psql",
           UNCHANGED <<inited, keks, Others>>,
           lockedBy' \in Processes \cup {NoOne},
           \A t \in Processes : stage'[t] \in {"recheck", "insert"} <=> lockedBy' = t
    PROVE  KeyInv'
<1>1. /\ stage' = [stage EXCEPT ![s] = "up"]
      /\ known' = [known EXCEPT ![s] = Valid] /\ prim' = [prim EXCEPT ![s] = FirstValid(keks)]
      /\ UNCHANGED <<inited, keks, store, clock, made>>
      /\ UNCHANGED <<pending, solved, headExp, tailed, spinning, accepted, crashes>>
  BY DEF Run, Others, solvedVars, Valid
<1>2. PICK i \in DOMAIN keks : ~keks[i].disabled
  BY DEF hasValidKEKs
<1>3. FirstValid(keks) = keks[i].id /\ Valid = {keks[i].id}
  BY <1>2, KeyTypes, FirstOfOne DEF KeyInv, KeysOK, Valid
<1>4. keks[i].id \in Keys
  BY KeyTypes, ValidThere
<1>5. /\ stage' \in [Processes -> Stages] /\ known' \in [Processes -> SUBSET Keys]
      /\ prim' \in [Processes -> Keys \cup {NoOne}]
      /\ stage'[s] = "up" /\ known'[s] = Valid /\ prim'[s] = keks[i].id
      /\ \A t \in Processes \ {s} :
            stage'[t] = stage[t] /\ known'[t] = known[t] /\ prim'[t] = prim[t]
  BY <1>1, <1>3, <1>4, KeyTypes DEF Stages
<1>6. CaptchaTypeOK'
  BY <1>1, <1>5 DEF KeyInv, CaptchaTypeOK
<1>7. KeysOK'
  <2>1. Valid' = Valid /\ hasValidKEKs' = hasValidKEKs
    BY <1>1 DEF Valid, ValidKeys, hasValidKEKs
  <2>2. prim'[s] \in Valid
    BY <1>3, <1>5
  <2>3. QED
    BY <1>1, <1>5, <2>1, <2>2 DEF KeyInv, KeysOK
<1>8. MemoryOK' /\ MadeOK'
  BY <1>1, <1>3, <1>4, <1>5 DEF KeyInv, MemoryOK, MadeOK
<1>9. QED
  BY <1>6, <1>7, <1>8 DEF KeyInv

\* CheckDB, InitDB, LoadKEKs, LockKEKs.
LEMMA PrepareInv ==
    ASSUME KeyInv, NEW s \in Processes,
           CheckDB(s) \/ InitDB(s) \/ LoadKEKs(s) \/ LockKEKs(s) \/ Recheck(s)
    PROVE  KeyInv'
<1>1. store = "psql"
  BY KeyTypes DEF KeyInv, MemoryOK, CheckDB, InitDB, LoadKEKs, LockKEKs, Recheck
<1>2. \A t \in Processes : stage[t] \in {"recheck", "insert"} <=> lockedBy = t
  BY <1>1 DEF KeyInv, KeysOK
<1>3. inited \in BOOLEAN /\ lockedBy \in Processes \cup {NoOne}
  BY DEF KeyInv, CaptchaTypeOK
<1>4. CASE CheckDB(s)
  <2>1. \E l \in {"load", "init"} : Enter(s, l)
    BY <1>4 DEF CheckDB
  <2>2. PICK l \in {"load", "init"} : Enter(s, l)
    BY <2>1
  <2>3. \A t \in Processes : stage'[t] = IF t = s THEN l ELSE stage[t]
    BY <2>2, KeyTypes DEF Enter
  <2>4. QED
    BY <1>1, <1>2, <1>3, <1>4, <2>2, <2>3, EnterInv DEF CheckDB, Stages
<1>5. CASE InitDB(s)
  <2>1. PICK l \in {"failed", "check"} : Enter(s, l)
    BY <1>5 DEF InitDB
  <2>2. \A t \in Processes : stage'[t] = IF t = s THEN l ELSE stage[t]
    BY <2>1, KeyTypes DEF Enter
  <2>3. QED
    BY <1>1, <1>2, <1>3, <1>5, <2>1, <2>2, EnterInv DEF InitDB, Stages
<1>6. CASE LoadKEKs(s)
  <2>1. CASE hasValidKEKs
    <3>1. \A t \in Processes : stage'[t] = IF t = s THEN "up" ELSE stage[t]
      BY <1>6, <2>1, KeyTypes DEF LoadKEKs, Run
    <3>2. QED
      BY <1>1, <1>2, <1>3, <1>6, <2>1, <3>1, RunInv DEF LoadKEKs
  <2>2. CASE ~hasValidKEKs
    <3>1. \A t \in Processes : stage'[t] = IF t = s THEN "lock" ELSE stage[t]
      BY <1>6, <2>2, KeyTypes DEF LoadKEKs, Enter
    <3>2. QED
      BY <1>1, <1>2, <1>3, <1>6, <2>2, <3>1, EnterInv DEF LoadKEKs, Stages
  <2>3. QED
    BY <2>1, <2>2
<1>7. CASE LockKEKs(s)
  <2>1. \A t \in Processes : stage'[t] = IF t = s THEN "recheck" ELSE stage[t]
    BY <1>7, KeyTypes DEF LockKEKs, Enter
  <2>2. \A t \in Processes : stage'[t] \in {"recheck", "insert"} <=> lockedBy' = t
    BY <1>2, <1>7, <2>1, KeyTypes DEF LockKEKs
  <2>3. QED
    BY <1>1, <1>3, <1>7, <2>2, EnterInv DEF LockKEKs, Stages
<1>8. CASE Recheck(s)
  <2>1. lockedBy = s
    BY <1>2, <1>8 DEF Recheck
  <2>2. CASE hasValidKEKs
    <3>1. \A t \in Processes : stage'[t] = IF t = s THEN "up" ELSE stage[t]
      BY <1>8, <2>2, KeyTypes DEF Recheck, Run
    <3>2. \A t \in Processes : stage'[t] \in {"recheck", "insert"} <=> lockedBy' = t
      BY <1>2, <1>8, <2>1, <2>2, <3>1, KeyTypes DEF Recheck
    <3>3. QED
      BY <1>1, <1>8, <2>2, <3>2, RunInv DEF Recheck
  <2>3. CASE ~hasValidKEKs
    <3>1. \A t \in Processes : stage'[t] = IF t = s THEN "insert" ELSE stage[t]
      BY <1>8, <2>3, KeyTypes DEF Recheck, Enter
    <3>2. QED
      BY <1>1, <1>2, <1>3, <1>8, <2>1, <2>3, <3>1, EnterInv DEF Recheck, Stages
  <2>4. QED
    BY <2>2, <2>3
<1>9. QED
  BY <1>4, <1>5, <1>6, <1>7, <1>8

\* A new key, while there is none: the holder of the lock is alone with it.
LEMMA InsertInv ==
    ASSUME KeyInv, NEW s \in Processes, InsertKEK(s)
    PROVE  KeyInv'
<1>1. store = "psql" /\ stage[s] = "insert"
  BY KeyTypes DEF KeyInv, MemoryOK, InsertKEK
<1>2. ~hasValidKEKs /\ lockedBy = s
  BY <1>1 DEF KeyInv, KeysOK
<1>3. PICK k \in NewKeys : /\ keks' = Prepend(k, keks)
                           /\ Run(s, keks')
  BY DEF InsertKEK, Prepend
<1>4. /\ k \in Keys /\ lockedBy' = NoOne
      /\ UNCHANGED <<inited, store, clock, made, pending, solved, headExp, tailed, spinning,
                     accepted, crashes>>
  BY DEF InsertKEK, NewKeys, Others, solvedVars
<1>5. /\ keks' \in Seq(KeyRow)
      /\ 1 \in DOMAIN keks' /\ keks'[1] = [id |-> k, disabled |-> FALSE]
      /\ \A i \in DOMAIN keks' : i # 1 => i - 1 \in DOMAIN keks /\ keks'[i] = keks[i - 1]
  BY <1>3, <1>4, KeyTypes, NewKeyFirst
<1>6. \A i \in DOMAIN keks' : ~keks'[i].disabled => i = 1
  BY <1>2, <1>5 DEF hasValidKEKs
<1>7. FirstValid(keks') = k /\ ValidKeys(keks') = {k}
  <2>1. ~keks'[1].disabled /\ keks'[1].id = k
    BY <1>5
  <2>2. QED
    BY <1>5, <1>6, <2>1, FirstOfOne
<1>8. /\ stage' \in [Processes -> Stages] /\ known' \in [Processes -> SUBSET Keys]
      /\ prim' \in [Processes -> Keys \cup {NoOne}]
      /\ stage'[s] = "up" /\ known'[s] = {k} /\ prim'[s] = k
      /\ \A t \in Processes \ {s} :
            stage'[t] = stage[t] /\ known'[t] = known[t] /\ prim'[t] = prim[t]
  BY <1>3, <1>4, <1>7, KeyTypes DEF Run, Stages
<1>9. \A t \in Processes \ {s} : stage'[t] # "up"
  BY <1>1, <1>2, <1>8, NoKeyNothing
<1>10. \A c \in Captchas : made'[c] = NoCaptcha
  BY <1>1, <1>2, <1>4, NoKeyNothing
<1>11. CaptchaTypeOK'
  BY <1>4, <1>5, <1>8 DEF KeyInv, CaptchaTypeOK, KeyRow
<1>12. KeysOK'
  <2>1. \A i, j \in DOMAIN keks' : ~keks'[i].disabled /\ ~keks'[j].disabled => i = j
    BY <1>6
  <2>2. \A t \in Processes : stage'[t] \notin {"recheck", "insert"} /\ lockedBy' # t
    <3>1. \A t \in Processes : stage[t] \in {"recheck", "insert"} <=> t = s
      BY <1>1, <1>2 DEF KeyInv, KeysOK
    <3>2. QED
      BY <1>4, <1>8, <3>1, KeyTypes
  <2>3. Valid' = {k}
    BY <1>7 DEF Valid
  <2>4. \A t \in Processes : stage'[t] = "up" => known'[t] = Valid' /\ prim'[t] \in Valid'
    BY <1>8, <1>9, <2>3
  <2>5. QED
    BY <1>10, <2>1, <2>2, <2>4 DEF KeysOK
<1>13. MemoryOK'
  BY <1>1, <1>4 DEF KeyInv, MemoryOK
<1>14. MadeOK'
  BY <1>4, <1>5, <1>8, <1>9, <1>10 DEF MadeOK
<1>15. QED
  BY <1>11, <1>12, <1>13, <1>14 DEF KeyInv

\* A process with a store of its own makes a key of its own.
LEMMA LoadMemoryInv ==
    ASSUME KeyInv, NEW s \in Processes, LoadMemory(s)
    PROVE  /\ KeyInv'
           /\ \E k \in NewKeys : \A t \in Processes : known'[t] \subseteq {k} \cup known[t]
<1>1. store = "mem" /\ stage[s] = "down" /\ \A t \in Processes : stage[t] = "down"
  BY DEF LoadMemory
<1>2. PICK k \in NewKeys : /\ keks' = Prepend(k, keks)
                           /\ Run(s, <<keks'[1]>>)
  BY DEF LoadMemory, Prepend
<1>3. /\ k \in Keys
      /\ UNCHANGED <<inited, lockedBy, store, clock, made, pending, solved, headExp, tailed,
                     spinning, accepted, crashes>>
  BY DEF LoadMemory, NewKeys, Others, solvedVars
<1>4. /\ keks' \in Seq(KeyRow)
      /\ 1 \in DOMAIN keks' /\ keks'[1] = [id |-> k, disabled |-> FALSE]
      /\ \A i \in DOMAIN keks : i + 1 \in DOMAIN keks' /\ keks'[i + 1] = keks[i]
  BY <1>2, <1>3, KeyTypes, NewKeyFirst
<1>5. FirstValid(<<keks'[1]>>) = k /\ ValidKeys(<<keks'[1]>>) = {k}
  <2> DEFINE one == <<keks'[1]>>
  <2>1. keks'[1] \in KeyRow
    BY <1>3, <1>4 DEF KeyRow
  <2>2. /\ one \in Seq(KeyRow) /\ 1 \in DOMAIN one /\ one[1] = keks'[1]
        /\ \A j \in DOMAIN one : j = 1
    BY <2>1
  <2>3. ~one[1].disabled /\ one[1].id = k
    BY <1>4, <2>2
  <2> HIDE DEF one
  <2>4. FirstValid(one) = k /\ ValidKeys(one) = {k}
    BY <2>2, <2>3, FirstOfOne
  <2>5. QED
    BY <2>4 DEF one
<1>6. /\ stage' \in [Processes -> Stages] /\ known' \in [Processes -> SUBSET Keys]
      /\ prim' \in [Processes -> Keys \cup {NoOne}]
      /\ stage'[s] = "up" /\ known'[s] = {k} /\ prim'[s] = k
      /\ \A t \in Processes \ {s} :
            stage'[t] = stage[t] /\ known'[t] = known[t] /\ prim'[t] = prim[t]
  BY <1>2, <1>3, <1>5, KeyTypes DEF Run, Stages
<1>7. CaptchaTypeOK'
  BY <1>3, <1>4, <1>6 DEF KeyInv, CaptchaTypeOK, KeyRow
<1>8. KeysOK' /\ MemoryOK'
  BY <1>1, <1>3, <1>6 DEF KeyInv, KeysOK, MemoryOK
<1>9. MadeOK'
  <2>1. \E i \in DOMAIN keks' : keks'[i].id = k
    BY <1>4
  <2>2. \A c \in Captchas : made'[c] # NoCaptcha => \E i \in DOMAIN keks' : keks'[i].id = made'[c].key
    BY <1>3, <1>4 DEF KeyInv, MadeOK
  <2>3. \A t \in Processes \ {s} : stage'[t] # "up"
    BY <1>1, <1>6
  <2>4. QED
    BY <1>3, <1>6, <2>1, <2>2, <2>3 DEF MadeOK
<1>10. \A t \in Processes : known'[t] \subseteq {k} \cup known[t]
  BY <1>6
<1>11. QED
  BY <1>7, <1>8, <1>9, <1>10 DEF KeyInv
-----------------------------------------------------------------------------
(***************************************************************************)
(* Captchas and submissions.                                               *)
(***************************************************************************)

\* NewKey: the key is of this process.
LEMMA NewKeyInv ==
    ASSUME KeyInv, NEW s \in Processes, NEW c \in Captchas, NewKey(s, c)
    PROVE  KeyInv'
<1>1. /\ stage[s] = "up" /\ made[c] = NoCaptcha
      /\ made' = [made EXCEPT ![c] = [key |-> prim[s], exp |-> clock + Duration]]
      /\ UNCHANGED <<store, inited, keks, lockedBy, stage, known, prim, clock, pending, solved,
                     headExp, tailed, spinning, accepted, crashes>>
  BY DEF NewKey, EncryptChallenge, kekVars, solvedVars
<1>2. /\ made' \in [Captchas -> [key : Keys \cup {NoOne}, exp : Nat]]
      /\ made'[c].key = prim[s] /\ \A d \in Captchas \ {c} : made'[d] = made[d]
  <2>1. [key |-> prim[s], exp |-> clock + Duration] \in [key : Keys \cup {NoOne}, exp : Nat]
    BY KeyTypes
  <2>2. QED
    BY <1>1, <2>1, KeyTypes
<1>3. CaptchaTypeOK'
  BY <1>1, <1>2 DEF KeyInv, CaptchaTypeOK
<1>4. KeysOK'
  BY <1>1, <1>2 DEF KeyInv, KeysOK, Valid, ValidKeys, hasValidKEKs
<1>5. MemoryOK' /\ MadeOK'
  BY <1>1, <1>2 DEF KeyInv, MemoryOK, MadeOK
<1>6. QED
  BY <1>3, <1>4, <1>5 DEF KeyInv

\* Submissions touch no key.
LEMMA SubmitInv ==
    ASSUME KeyInv, NEW r \in Requests,
           \/ \E s \in Processes, c \in Captchas : CheckCaptcha(r, s, c)
           \/ StoreSolved(r) \/ StoreFails(r)
    PROVE  KeyInv'
<1>1. /\ UNCHANGED <<store, inited, keks, lockedBy, stage, known, prim, clock, made>>
      /\ store = "psql" => spinning' = spinning
  BY DEF CheckCaptcha, StoreSolved, StorePSQL, StoreMemory, StoreFails, kekVars, solvedVars
<1>2. CaptchaTypeOK'
  <2>1. pending[r] # NoRequest => pending[r].captcha \in Captchas
    BY DEF KeyInv, CaptchaTypeOK
  <2>2. CASE \E s \in Processes, c \in Captchas : CheckCaptcha(r, s, c)
    <3>1. PICK s \in Processes, c \in Captchas : CheckCaptcha(r, s, c)
      BY <2>2
    <3>2. [server |-> s, captcha |-> c, nowt |-> clock]
             \in [server : Processes, captcha : Captchas, nowt : Nat]
      BY KeyTypes
    <3>3. QED
      BY <1>1, <3>1, <3>2 DEF KeyInv, CaptchaTypeOK, CheckCaptcha, solvedVars
  <2>3. ASSUME pending[r] # NoRequest, NEW fresh \in BOOLEAN, Answer(r, fresh)
        PROVE  /\ pending' \in [Requests -> {NoRequest} \cup
                                   [server : Processes, captcha : Captchas, nowt : Nat]]
               /\ accepted' \in [Captchas -> Nat]
    BY <2>1, <2>3 DEF KeyInv, CaptchaTypeOK, Answer
  <2>4. CASE StorePSQL(r)
    <3>1. pending[r] # NoRequest /\ Answer(r, pending[r].captcha \notin solved)
      BY <2>4 DEF StorePSQL
    <3>2. QED
      BY <1>1, <2>1, <2>3, <2>4, <3>1 DEF KeyInv, CaptchaTypeOK, StorePSQL, Expired
  <2>5. CASE StoreFails(r)
    <3>1. pending[r] # NoRequest /\ Answer(r, FALSE)
      BY <2>5 DEF StoreFails
    <3>2. crashes' \in 0 .. MaxCrashes
      BY <2>5, CaptchaAssumption DEF KeyInv, CaptchaTypeOK, StoreFails
    <3>3. QED
      BY <1>1, <2>1, <2>3, <2>5, <3>1, <3>2 DEF KeyInv, CaptchaTypeOK, StoreFails, Expired
  <2>6. CASE StoreMemory(r)
    <3>1. pending[r] # NoRequest /\ made[pending[r].captcha].exp \in Nat
      BY <2>1, <2>6, KeyTypes DEF StoreMemory
    <3>2. \/ UNCHANGED <<pending, accepted>>
          \/ \E fresh \in BOOLEAN : Answer(r, fresh)
      BY <2>6 DEF StoreMemory
    <3>3. /\ pending' \in [Requests -> {NoRequest} \cup
                              [server : Processes, captcha : Captchas, nowt : Nat]]
          /\ accepted' \in [Captchas -> Nat]
      BY <2>3, <3>1, <3>2 DEF KeyInv, CaptchaTypeOK
    <3>4. solved' \subseteq solved \cup {pending[r].captcha}
      BY <2>6 DEF StoreMemory, Expired
    <3>5. tailed' \in BOOLEAN /\ spinning' \in BOOLEAN /\ headExp' \in Nat \cup {-1}
          /\ crashes' = crashes
      BY <2>6, <3>1 DEF KeyInv, CaptchaTypeOK, StoreMemory
    <3>6. QED
      BY <1>1, <2>1, <3>1, <3>3, <3>4, <3>5 DEF KeyInv, CaptchaTypeOK
  <2>7. QED
    BY <2>2, <2>4, <2>5, <2>6 DEF StoreSolved
<1>3. KeysOK'
  BY <1>1 DEF KeyInv, KeysOK, Valid, ValidKeys, hasValidKEKs
<1>4. MemoryOK' /\ MadeOK'
  BY <1>1 DEF KeyInv, MemoryOK, MadeOK
<1>5. QED
  BY <1>2, <1>3, <1>4 DEF KeyInv

\* A process ends; in the database nothing goes with it but its lock.
LEMMA CrashInv ==
    ASSUME KeyInv, NEW s \in Processes, Crash(s)
    PROVE  KeyInv'
<1>1. /\ stage' = [stage EXCEPT ![s] = "down"] /\ known' = [known EXCEPT ![s] = {}]
      /\ prim' = [prim EXCEPT ![s] = NoOne]
      /\ lockedBy' = IF lockedBy = s THEN NoOne ELSE lockedBy
      /\ pending' = [r \in Requests |-> IF pending[r].server = s THEN NoRequest ELSE pending[r]]
      /\ UNCHANGED <<store, inited, keks, clock, made, accepted>>
  BY DEF Crash
<1>2. /\ stage' \in [Processes -> Stages] /\ known' \in [Processes -> SUBSET Keys]
      /\ prim' \in [Processes -> Keys \cup {NoOne}]
      /\ stage'[s] = "down"
      /\ \A t \in Processes \ {s} :
            stage'[t] = stage[t] /\ known'[t] = known[t] /\ prim'[t] = prim[t]
  BY <1>1, KeyTypes DEF Stages
<1>3. CaptchaTypeOK'
  <2>1. /\ crashes' \in 0 .. MaxCrashes /\ solved' \subseteq Captchas
        /\ headExp' \in Nat \cup {-1} /\ tailed' \in BOOLEAN /\ spinning' \in BOOLEAN
    <3>1. crashes' \in 0 .. MaxCrashes
      BY CaptchaAssumption DEF KeyInv, CaptchaTypeOK, Crash
    <3>2. \/ UNCHANGED <<solved, headExp, tailed, spinning>>
          \/ solved' = {} /\ headExp' = -1 /\ tailed' = FALSE /\ spinning' = FALSE
      BY DEF Crash, solvedVars
    <3>3. QED
      BY <3>1, <3>2 DEF KeyInv, CaptchaTypeOK
  <2>2. pending' \in [Requests -> {NoRequest} \cup
                         [server : Processes, captcha : Captchas, nowt : Nat]]
    BY <1>1 DEF KeyInv, CaptchaTypeOK
  <2>3. lockedBy' \in Processes \cup {NoOne}
    BY <1>1 DEF KeyInv, CaptchaTypeOK
  <2>4. QED
    BY <1>1, <1>2, <2>1, <2>2, <2>3 DEF KeyInv, CaptchaTypeOK
<1>4. KeysOK'
  BY <1>1, <1>2, KeyTypes DEF KeyInv, KeysOK, Valid, ValidKeys, hasValidKEKs
<1>5. MemoryOK'
  BY <1>1, <1>2 DEF KeyInv, MemoryOK, Crash, solvedVars
<1>6. MadeOK'
  BY <1>1, <1>2 DEF KeyInv, MadeOK
<1>7. QED
  BY <1>3, <1>4, <1>5, <1>6 DEF KeyInv

\* Time passes, or nothing happens.
LEMMA TickInv ==
    ASSUME KeyInv, Tick \/ UNCHANGED captchaVars
    PROVE  KeyInv'
<1>1. /\ UNCHANGED <<store, inited, keks, lockedBy, stage, known, prim, made, pending, solved,
                     headExp, tailed, spinning, accepted, crashes>>
      /\ clock' \in 0 .. MaxClock
  BY CaptchaAssumption DEF KeyInv, CaptchaTypeOK, Tick, captchaVars, kekVars, solvedVars
<1>2. CaptchaTypeOK'
  BY <1>1 DEF KeyInv, CaptchaTypeOK
<1>3. KeysOK'
  BY <1>1 DEF KeyInv, KeysOK, Valid, ValidKeys, hasValidKEKs
<1>4. MemoryOK' /\ MadeOK'
  BY <1>1 DEF KeyInv, MemoryOK, MadeOK
<1>5. QED
  BY <1>2, <1>3, <1>4 DEF KeyInv

LEMMA KeyInit == CaptchaInit => KeyInv
<1> SUFFICES ASSUME CaptchaInit PROVE KeyInv
  OBVIOUS
<1>1. /\ keks \in Seq(KeyRow) /\ \A i \in DOMAIN keks : keks[i].disabled
  <2>1. CASE keks = <<>>
    BY <2>1
  <2>2. CASE \E k \in Keys : keks = <<[id |-> k, disabled |-> TRUE]>>
    <3>1. PICK k \in Keys : keks = <<[id |-> k, disabled |-> TRUE]>>
      BY <2>2
    <3>2. [id |-> k, disabled |-> TRUE] \in KeyRow
      BY DEF KeyRow
    <3>3. QED
      BY <3>1, <3>2
  <2>3. QED
    BY <2>1, <2>2 DEF CaptchaInit
<1>2. \A c \in Captchas : made[c] = NoCaptcha
  BY DEF CaptchaInit
<1>3. CaptchaTypeOK
  <2>1. MaxClock \in Nat /\ MaxCrashes \in Nat
    BY CaptchaAssumption
  <2>2. made \in [Captchas -> [key : Keys \cup {NoOne}, exp : Nat]]
    BY DEF CaptchaInit, NoCaptcha
  <2>3. stage \in [Processes -> Stages] /\ known \in [Processes -> SUBSET Keys]
        /\ prim \in [Processes -> Keys \cup {NoOne}]
    BY DEF CaptchaInit, Stages
  <2>4. /\ pending \in [Requests -> {NoRequest} \cup
                             [server : Processes, captcha : Captchas, nowt : Nat]]
        /\ accepted \in [Captchas -> Nat]
    BY DEF CaptchaInit
  <2>5. /\ clock \in 0 .. MaxClock /\ crashes \in 0 .. MaxCrashes
        /\ solved \subseteq Captchas /\ headExp \in Nat \cup {-1}
        /\ tailed \in BOOLEAN /\ spinning \in BOOLEAN
        /\ store \in {"psql", "mem"} /\ inited \in BOOLEAN
        /\ lockedBy \in Processes \cup {NoOne}
    <3>1. /\ clock = 0 /\ crashes = 0 /\ solved = {} /\ headExp = -1 /\ tailed = FALSE
          /\ spinning = FALSE /\ lockedBy = NoOne
          /\ store \in {"psql", "mem"} /\ inited \in BOOLEAN
      BY DEF CaptchaInit
    <3>2. clock \in 0 .. MaxClock /\ crashes \in 0 .. MaxCrashes /\ headExp \in Nat \cup {-1}
      BY <2>1, <3>1
    <3>3. tailed \in BOOLEAN /\ spinning \in BOOLEAN
      BY <3>1
    <3>4. solved \subseteq Captchas /\ lockedBy \in Processes \cup {NoOne}
      BY <3>1
    <3>5. QED
      BY <3>1, <3>2, <3>3, <3>4
  <2>6. QED
    BY <1>1, <2>2, <2>3, <2>4, <2>5 DEF CaptchaTypeOK, KeyRow
<1>4. KeysOK
  BY <1>1, <1>2, CaptchaAssumption DEF CaptchaInit, KeysOK
<1>5. MemoryOK /\ MadeOK
  BY <1>2 DEF CaptchaInit, MemoryOK, MadeOK
<1>6. QED
  BY <1>3, <1>4, <1>5 DEF KeyInv

LEMMA KeyStep == KeyInv /\ [CaptchaNext]_captchaVars => KeyInv'
<1> SUFFICES ASSUME KeyInv, [CaptchaNext]_captchaVars PROVE KeyInv'
  OBVIOUS
<1>1. CASE \E s \in Processes : StartUp(s)
  BY <1>1, PrepareInv, InsertInv, LoadMemoryInv DEF StartUp
<1>2. CASE \E s \in Processes : Crash(s)
  BY <1>2, CrashInv
<1>3. CASE \E s \in Processes, c \in Captchas : NewKey(s, c)
  BY <1>3, NewKeyInv
<1>4. CASE \E r \in Requests :
              \/ \E s \in Processes, c \in Captchas : CheckCaptcha(r, s, c)
              \/ StoreSolved(r) \/ StoreFails(r)
  BY <1>4, SubmitInv
<1>5. CASE Tick \/ UNCHANGED captchaVars
  BY <1>5, TickInv
<1>6. QED
  BY <1>1, <1>2, <1>3, <1>4, <1>5 DEF CaptchaNext

\* The database has one key that is not disabled, which everybody has that
\* runs, and who has no key yet is alone in making one (NewWebCaptcha).
THEOREM KeyInvariant == CaptchaSpec => []KeyInv
BY KeyInit, KeyStep, PTL DEF CaptchaSpec

\* A captcha that one process has made is known to all that share the database
\* with it (LoadKEKs).
THEOREM KnownToAll == CaptchaSpec => []KnownEverywhere
<1>1. KeyInv => KnownEverywhere
  BY DEF KeyInv, KeysOK, KnownEverywhere
<1>2. QED
  BY <1>1, KeyInvariant, PTL
-----------------------------------------------------------------------------
(***************************************************************************)
(* Single use.  What is purged has expired before the second that some     *)
(* submission has read, so before the present one.                         *)
(***************************************************************************)

\* Where there is one it stays, if no submission of it comes and its key is not
\* learned anew.
LEMMA StaysDead ==
    ASSUME NEW c \in Captchas, Dead(c), store' = store, made'[c] = made[c],
           \A r \in Requests :
              pending'[r] # NoRequest => pending'[r] = pending[r] \/ pending'[r].captcha # c,
           store = "mem" =>
              \A s \in Processes : made[c].key \in known'[s] => made[c].key \in known[s]
    PROVE  Dead(c)'
BY DEF Dead

\* Types of what is read often.
LEMMA UseTypes ==
    ASSUME UseInv
    PROVE  /\ KeyInv /\ clock \in Nat /\ solved \subseteq Captchas
           /\ made \in [Captchas -> [key : Keys \cup {NoOne}, exp : Nat]]
           /\ \A c \in Captchas : made[c].exp \in Nat
           /\ pending \in [Requests -> {NoRequest} \cup
                              [server : Processes, captcha : Captchas, nowt : Nat]]
           /\ \A r \in Requests :
                 pending[r] # NoRequest =>
                    /\ pending[r].server \in Processes /\ pending[r].captcha \in Captchas
                    /\ pending[r].nowt \in Nat
           /\ accepted \in [Captchas -> Nat]
           /\ store \in {"psql", "mem"}
           /\ NoOne \notin Processes
BY CaptchaAssumption DEF UseInv, KeyInv, CaptchaTypeOK

\* A process prepares: submissions are left alone, and no key is known that was
\* there before, but for those of the database.
LEMMA StartUse ==
    ASSUME UseInv, NEW s \in Processes, StartUp(s)
    PROVE  PendingOK' /\ SpentOK'
<1>1. UNCHANGED <<store, clock, made, pending, solved, headExp, tailed, spinning, accepted>>
  BY DEF StartUp, CheckDB, InitDB, LoadKEKs, LockKEKs, Recheck, InsertKEK, LoadMemory, Others, solvedVars
<1>2. \A t \in Processes : stage[t] = "up" => stage'[t] = "up"
  <2>1. stage \in [Processes -> Stages] /\ stage[s] # "up"
    BY UseTypes, KeyTypes DEF StartUp, CheckDB, InitDB, LoadKEKs, LockKEKs, Recheck, InsertKEK, LoadMemory
  <2>2. \E l \in Stages : stage' = [stage EXCEPT ![s] = l]
    BY DEF StartUp, CheckDB, InitDB, LoadKEKs, LockKEKs, Recheck, InsertKEK, LoadMemory, Enter, Run, Stages
  <2>3. QED
    BY <2>1, <2>2
<1>3. PendingOK'
  BY <1>1, <1>2, UseTypes DEF UseInv, PendingOK
<1>4. ASSUME NEW c \in Captchas, Dead(c)
      PROVE  Dead(c)'
  <2>1. ASSUME store = "mem", NEW t \in Processes, made[c].key \in known'[t]
        PROVE  made[c].key \in known[t]
    <3>1. LoadMemory(s)
      BY <2>1, UseTypes DEF StartUp, CheckDB, InitDB, LoadKEKs, LockKEKs, Recheck, InsertKEK, KeyInv, MemoryOK
    <3>2. PICK k \in NewKeys : known'[t] \subseteq {k} \cup known[t]
      BY <3>1, LoadMemoryInv, UseTypes
    <3>3. made[c].key # k
      <4>1. made[c] # NoCaptcha
        BY <1>4 DEF Dead
      <4>2. \E i \in DOMAIN keks : keks[i].id = made[c].key
        BY <4>1, UseTypes DEF KeyInv, MadeOK
      <4>3. QED
        BY <4>2 DEF NewKeys
    <3>4. QED
      BY <2>1, <3>2, <3>3
  <2>2. QED
    BY <1>1, <1>4, <2>1, UseTypes, StaysDead
<1>5. SpentOK'
  BY <1>1, <1>4 DEF UseInv, SpentOK
<1>6. QED
  BY <1>3, <1>5

\* A captcha is made: it was neither submitted nor accepted before.
LEMMA NewKeyUse ==
    ASSUME UseInv, NEW s \in Processes, NEW c \in Captchas, NewKey(s, c)
    PROVE  PendingOK' /\ SpentOK'
<1>1. /\ stage[s] = "up" /\ made[c] = NoCaptcha
      /\ made' = [made EXCEPT ![c] = [key |-> prim[s], exp |-> clock + Duration]]
      /\ UNCHANGED <<store, keks, stage, known, prim, clock, pending, solved, spinning, accepted>>
  BY DEF NewKey, EncryptChallenge, kekVars, solvedVars
<1>2. \A d \in Captchas : d # c => made'[d] = made[d]
  BY <1>1, UseTypes
<1>3. \A r \in Requests : pending[r] # NoRequest => pending[r].captcha # c
  BY <1>1 DEF UseInv, PendingOK
<1>4. PendingOK'
  BY <1>1, <1>2, <1>3, UseTypes DEF UseInv, PendingOK
<1>5. ASSUME NEW d \in Captchas, Dead(d)
      PROVE  Dead(d)'
  <2>1. d # c
    BY <1>1, <1>5 DEF Dead
  <2>2. QED
    BY <1>1, <1>2, <1>5, <2>1, UseTypes, StaysDead
<1>6. SpentOK'
  <2>1. accepted[c] = 0
    BY <1>1 DEF UseInv, SpentOK
  <2>2. \A d \in Captchas : d # c /\ Dead(d) => Dead(d)'
    BY <1>5
  <2>3. QED
    BY <1>1, <1>2, <2>1, <2>2 DEF UseInv, SpentOK
<1>7. QED
  BY <1>4, <1>6

\* A submission is validated: its captcha is not dead.
LEMMA CheckUse ==
    ASSUME UseInv, NEW r \in Requests, NEW s \in Processes, NEW c \in Captchas, CheckCaptcha(r, s, c)
    PROVE  PendingOK' /\ SpentOK'
<1>1. /\ stage[s] = "up" /\ made[c].key \in known[s] /\ clock < made[c].exp
      /\ pending' = [pending EXCEPT ![r] = [server |-> s, captcha |-> c, nowt |-> clock]]
      /\ UNCHANGED <<store, stage, known, clock, made, solved, spinning, accepted>>
  BY DEF CheckCaptcha, unpackAndValidateKey, kekVars, solvedVars
<1>2. /\ pending'[r] = [server |-> s, captcha |-> c, nowt |-> clock]
      /\ \A q \in Requests : q # r => pending'[q] = pending[q]
  BY <1>1, UseTypes
<1>3. made[c] # NoCaptcha
  BY <1>1, UseTypes DEF NoCaptcha
<1>4. PendingOK'
  BY <1>1, <1>2, <1>3, UseTypes DEF UseInv, PendingOK
<1>5. ASSUME NEW d \in Captchas, Dead(d)
      PROVE  Dead(d)'
  <2>1. d # c
    BY <1>1, <1>5, UseTypes DEF Dead
  <2>2. QED
    BY <1>1, <1>2, <1>5, <2>1, UseTypes, StaysDead
<1>6. SpentOK'
  BY <1>1, <1>5 DEF UseInv, SpentOK
<1>7. QED
  BY <1>4, <1>6

\* A submission is answered, or loops for ever.  What is taken from the solved
\* captchas has expired, and what has not expired and is found fresh was not
\* accepted.
LEMMA StoreUse ==
    ASSUME UseInv, NEW r \in Requests, StoreSolved(r) \/ StoreFails(r)
    PROVE  PendingOK' /\ SpentOK'
<1> DEFINE c == pending[r].captcha
<1>1. /\ UNCHANGED <<store, stage, known, clock, made>>
      /\ pending[r] # NoRequest /\ c \in Captchas
  <2>1. UNCHANGED <<store, stage, known, clock, made>> /\ pending[r] # NoRequest
    BY DEF StoreSolved, StorePSQL, StoreMemory, StoreFails, kekVars
  <2>2. QED
    BY <2>1, UseTypes
<1>2. ~spinning
  BY UseTypes DEF KeyInv, MemoryOK, StoreSolved, StorePSQL, StoreMemory, StoreFails
<1>3. made[c] # NoCaptcha
  BY <1>1 DEF UseInv, PendingOK
<1>4. \/ /\ UNCHANGED <<pending, accepted>>
      \/ /\ pending' = [pending EXCEPT ![r] = NoRequest]
         /\ accepted' = accepted
      \/ /\ pending' = [pending EXCEPT ![r] = NoRequest]
         /\ accepted' = [accepted EXCEPT ![c] = @ + 1]
         /\ c \in solved'
         /\ c \in solved => made[c].exp < pending[r].nowt
  <2>1. CASE StorePSQL(r)
    BY <2>1 DEF StorePSQL, Answer
  <2>2. CASE StoreFails(r)
    BY <2>2 DEF StoreFails, Answer
  <2>3. CASE StoreMemory(r)
    <3> DEFINE left == IF tailed THEN solved \ Expired(pending[r].nowt) ELSE solved
    <3>1. c \notin left /\ c \in solved => made[c].exp < pending[r].nowt
      BY DEF Expired
    <3>2. \/ Answer(r, FALSE) \/ UNCHANGED <<pending, accepted>>
          \/ c \notin left /\ solved' = left \cup {c} /\ Answer(r, TRUE)
      BY <2>3 DEF StoreMemory
    <3>3. QED
      BY <3>1, <3>2 DEF Answer
  <2>4. QED
    BY <2>1, <2>2, <2>3 DEF StoreSolved
<1>5. \A q \in Requests : pending'[q] # NoRequest => pending'[q] = pending[q]
  BY <1>4, UseTypes
<1>6. PendingOK'
  BY <1>1, <1>2, <1>5 DEF UseInv, PendingOK
<1>7. ASSUME NEW d \in Captchas, Dead(d)
      PROVE  Dead(d)' /\ d # c
  BY <1>1, <1>5, <1>7, UseTypes, StaysDead DEF Dead
<1>8. ASSUME NEW d \in Captchas, d \in solved, d \notin solved'
      PROVE  made[d].exp < pending[r].nowt
  BY <1>8 DEF StoreSolved, StorePSQL, StoreMemory, StoreFails, Expired
<1>9. pending[r].nowt <= clock /\ pending[r].nowt \in Nat /\ clock \in Nat
  BY <1>1, UseTypes DEF UseInv, PendingOK
<1>10. ASSUME NEW d \in Captchas
       PROVE  /\ made[d] = NoCaptcha => accepted'[d] = 0
              /\ clock <= made[d].exp =>
                    /\ accepted'[d] <= 1
                    /\ accepted'[d] = 1 => d \in solved' \/ Dead(d)'
  <2>1. /\ accepted[d] \in Nat /\ made[d].exp \in Nat
        /\ made[d] = NoCaptcha => accepted[d] = 0
        /\ clock <= made[d].exp => accepted[d] <= 1
        /\ clock <= made[d].exp /\ accepted[d] = 1 => d \in solved \/ Dead(d)
    BY UseTypes DEF UseInv, SpentOK
  <2>2. CASE accepted'[d] = accepted[d]
    <3>1. clock <= made[d].exp /\ d \in solved => d \in solved'
      BY <1>8, <1>9, <2>1
    <3>2. QED
      BY <1>7, <2>1, <2>2, <3>1
  <2>3. CASE accepted'[d] # accepted[d]
    <3>1. /\ d = c /\ accepted'[d] = accepted[d] + 1 /\ d \in solved'
          /\ c \in solved => made[c].exp < pending[r].nowt
      BY <1>4, <2>3, UseTypes
    <3>2. clock <= made[d].exp => accepted[d] # 1
      BY <1>7, <1>9, <2>1, <3>1
    <3>3. QED
      BY <1>3, <2>1, <3>1, <3>2
  <2>4. QED
    BY <2>2, <2>3
<1>11. QED
  BY <1>1, <1>6, <1>10 DEF SpentOK

\* A process ends, with its submissions.  In memory these are all there are.
LEMMA CrashUse ==
    ASSUME UseInv, NEW s \in Processes, Crash(s)
    PROVE  PendingOK' /\ SpentOK'
<1>1. /\ stage' = [stage EXCEPT ![s] = "down"] /\ known' = [known EXCEPT ![s] = {}]
      /\ pending' = [r \in Requests |-> IF pending[r].server = s THEN NoRequest ELSE pending[r]]
      /\ stage[s] # "down"
      /\ UNCHANGED <<store, keks, clock, made, accepted>>
  BY DEF Crash
<1>2. /\ \A t \in Processes : t # s => stage'[t] = stage[t]
      /\ \A t \in Processes : known'[t] \subseteq known[t]
  BY <1>1, UseTypes, KeyTypes
<1>3. \A r \in Requests :
         pending'[r] # NoRequest => pending'[r] = pending[r] /\ pending[r].server # s
  BY <1>1
<1>4. PendingOK'
  BY <1>1, <1>2, <1>3, UseTypes DEF UseInv, PendingOK
<1>5. ASSUME NEW c \in Captchas, Dead(c)
      PROVE  Dead(c)'
  BY <1>1, <1>2, <1>3, <1>5, UseTypes, StaysDead
<1>6. ASSUME NEW c \in Captchas, clock <= made[c].exp, accepted[c] = 1
      PROVE  c \in solved' \/ Dead(c)'
  <2>1. made[c] # NoCaptcha /\ (c \in solved \/ Dead(c))
    BY <1>6 DEF UseInv, SpentOK
  <2>2. CASE store = "psql"
    BY <1>5, <2>1, <2>2 DEF Crash, solvedVars
  <2>3. CASE store = "mem"
    <3>1. \A r \in Requests : pending'[r] = NoRequest
      <4>1. SUFFICES ASSUME NEW r \in Requests, pending'[r] # NoRequest
                     PROVE  FALSE
        OBVIOUS
      <4>2. stage[s] = "up" /\ stage[pending[r].server] = "up" /\ pending[r].server # s
        BY <1>1, <1>3, <2>3, <4>1, UseTypes DEF UseInv, PendingOK, KeyInv, MemoryOK
      <4>3. QED
        BY <1>3, <2>3, <4>1, <4>2, UseTypes DEF KeyInv, MemoryOK
    <3>2. \A t \in Processes : known'[t] = {}
      <4>1. \A t \in Processes : t # s => stage[t] = "down"
        BY <1>1, <2>3, UseTypes DEF KeyInv, MemoryOK
      <4>2. \A t \in Processes : stage[t] = "down" => known[t] = {}
        BY <2>3, UseTypes DEF KeyInv, MemoryOK
      <4>3. QED
        BY <1>1, <4>1, <4>2, UseTypes, KeyTypes
    <3>3. QED
      BY <1>1, <2>1, <2>3, <3>1, <3>2 DEF Dead
  <2>4. QED
    BY <2>2, <2>3, UseTypes
<1>7. SpentOK'
  BY <1>1, <1>6 DEF UseInv, SpentOK
<1>8. QED
  BY <1>4, <1>7

\* Time passes: what has not expired then has not expired now.
LEMMA TickUse ==
    ASSUME UseInv, Tick \/ UNCHANGED captchaVars
    PROVE  PendingOK' /\ SpentOK'
<1>1. /\ UNCHANGED <<store, stage, known, made, pending, solved, accepted>>
      /\ clock' \in Nat /\ clock <= clock'
  BY UseTypes DEF Tick, captchaVars, kekVars, solvedVars
<1>2. PendingOK'
  BY <1>1, UseTypes DEF UseInv, PendingOK
<1>3. ASSUME NEW c \in Captchas, Dead(c)
      PROVE  Dead(c)'
  BY <1>1, <1>3, StaysDead
<1>4. \A c \in Captchas : clock' <= made[c].exp => clock <= made[c].exp
  BY <1>1, UseTypes
<1>5. SpentOK'
  BY <1>1, <1>3, <1>4 DEF UseInv, SpentOK
<1>6. QED
  BY <1>2, <1>5

LEMMA UseInit == CaptchaInit => UseInv
<1> SUFFICES ASSUME CaptchaInit PROVE UseInv
  OBVIOUS
<1>1. /\ \A r \in Requests : pending[r] = NoRequest
      /\ \A c \in Captchas : accepted[c] = 0
  BY DEF CaptchaInit
<1>2. QED
  BY <1>1, KeyInit DEF UseInv, PendingOK, SpentOK

LEMMA UseStep == UseInv /\ [CaptchaNext]_captchaVars => UseInv'
<1> SUFFICES ASSUME UseInv, [CaptchaNext]_captchaVars PROVE UseInv'
  OBVIOUS
<1>1. KeyInv'
  BY KeyStep DEF UseInv
<1>2. CASE \E s \in Processes : StartUp(s)
  BY <1>1, <1>2, StartUse DEF UseInv
<1>3. CASE \E s \in Processes : Crash(s)
  BY <1>1, <1>3, CrashUse DEF UseInv
<1>4. CASE \E s \in Processes, c \in Captchas : NewKey(s, c)
  BY <1>1, <1>4, NewKeyUse DEF UseInv
<1>5. CASE \E s \in Processes, c \in Captchas, r \in Requests : CheckCaptcha(r, s, c)
  BY <1>1, <1>5, CheckUse DEF UseInv
<1>6. CASE \E r \in Requests : StoreSolved(r) \/ StoreFails(r)
  BY <1>1, <1>6, StoreUse DEF UseInv
<1>7. CASE Tick \/ UNCHANGED captchaVars
  BY <1>1, <1>7, TickUse DEF UseInv
<1>8. QED
  BY <1>2, <1>3, <1>4, <1>5, <1>6, <1>7 DEF CaptchaNext

\* Until it has expired a captcha is told to be fresh once, by whichever store,
\* however many submissions of it are on their way and however long they take
\* from reading the clock to the store: what StoreSolved purges has expired.
THEOREM AcceptedOnce == CaptchaSpec => []OnceWhileValid
<1>1. CaptchaInit => UseInv
  BY UseInit
<1>2. UseInv /\ [CaptchaNext]_captchaVars => UseInv'
  BY UseStep
<1>3. UseInv => OnceWhileValid
  BY DEF UseInv, SpentOK, OnceWhileValid
<1>4. QED
  BY <1>1, <1>2, <1>3, PTL DEF CaptchaSpec
-----------------------------------------------------------------------------
(***************************************************************************)
(* NNTPServer, for any number of listeners, connections, goroutines that   *)
(* serve and goroutines that close.                                        *)
(***************************************************************************)

\* Who is on the books: a WaitGroup counts the goroutines that are under way,
\* and the list of connections those whose handler has not struck them off.
Books ==
    /\ \A t \in Servers : t \in wg <=> serve[t] # "idle"
    /\ \A c \in Conns : c \in cwg <=> handler[c] # "none"
    /\ \A c \in Conns : c \in connections <=> handler[c] \in {"running", "finished"}

\* Who holds a connection: the goroutine that accepted it, and only that one,
\* until the handler has it.
Hands ==
    /\ \A t \in Servers : serve[t] = "accepted" <=> taken[t] # NoConn
    /\ \A t, u \in Servers : taken[t] = taken[u] /\ taken[t] # NoConn => t = u
    /\ \A t \in Servers : taken[t] # NoConn => handler[taken[t]] = "none"
    /\ \A c \in copen : handler[c] = "running" \/ \E t \in Servers : taken[t] = c

\* How far the one goroutine that closes has come.
Shut ==
    /\ closing <=> \E k \in Closers : closer[k] # "idle"
    /\ \A j, k \in Closers : closer[j] # "idle" /\ closer[k] # "idle" => j = k
    /\ \A k \in Closers : closer[k] \in {"kill", "conns", "reset"} => wg = {}
    /\ \A k \in Closers : closer[k] = "reset" => cwg = {}

ServerInv == TypeOK /\ Books /\ Hands /\ Shut

\* The actions, one by one.
LEMMA NextCases ==
    ASSUME [Next]_vars
    PROVE  \/ \E t \in Servers :
                 \/ Listen(t) \/ TryRegister(t) \/ (\E c \in Conns : Accept(t, c))
                 \/ Track(t) \/ AcceptFails(t) \/ CheckClosing(t) \/ ServeReturns(t)
           \/ \E c \in Conns : Finish(c) \/ UnregisterConn(c) \/ Done(c)
           \/ \E k \in Closers :
                 CloseBegin(k) \/ ServersGone(k) \/ Kill(k) \/ ConnsGone(k) \/ Reset(k)
           \/ UNCHANGED vars
BY DEF Next, Serving, Handling, Closing

LEMMA InitInv == Init => ServerInv
<1> SUFFICES ASSUME Init PROVE ServerInv
  OBVIOUS
<1>1. TypeOK
  BY DEF Init, TypeOK
<1>2. Books
  BY DEF Init, Books
<1>3. Hands
  BY DEF Init, Hands
<1>4. Shut
  BY DEF Init, Shut
<1> QED
  BY <1>1, <1>2, <1>3, <1>4 DEF ServerInv

LEMMA StepInv == ServerInv /\ [Next]_vars => ServerInv'
<1> SUFFICES ASSUME ServerInv, [Next]_vars PROVE ServerInv'
  OBVIOUS
<1> USE ServerAssumption DEF ServerInv
<1>1. ASSUME NEW t \in Servers, Listen(t) PROVE ServerInv'
  <2>1. TypeOK'
    BY <1>1 DEF Listen, TypeOK
  <2>2. Books'
    BY <1>1 DEF Listen, TypeOK, Books
  <2>3. Hands'
    BY <1>1 DEF Listen, TypeOK, Hands
  <2>4. Shut'
    BY <1>1 DEF Listen, TypeOK, Shut
  <2> QED
    BY <2>1, <2>2, <2>3, <2>4
<1>2. ASSUME NEW t \in Servers, TryRegister(t) PROVE ServerInv'
  <2>1. TypeOK'
    BY <1>2 DEF TryRegister, TypeOK
  <2>2. Books'
    BY <1>2 DEF TryRegister, TypeOK, Books
  <2>3. Hands'
    BY <1>2 DEF TryRegister, TypeOK, Books, Hands
  <2>4. Shut'
    BY <1>2 DEF TryRegister, TypeOK, Books, Hands, Shut
  <2> QED
    BY <2>1, <2>2, <2>3, <2>4
<1>3. ASSUME NEW t \in Servers, NEW c \in Conns, Accept(t, c) PROVE ServerInv'
  <2>1. TypeOK'
    BY <1>3 DEF Accept, TypeOK
  <2>2. Books'
    BY <1>3 DEF Accept, TypeOK, Books
  <2>3. Hands'
    BY <1>3 DEF Accept, TypeOK, Hands
  <2>4. Shut'
    BY <1>3 DEF Accept, TypeOK, Shut
  <2> QED
    BY <2>1, <2>2, <2>3, <2>4
<1>4. ASSUME NEW t \in Servers, Track(t) PROVE ServerInv'
  <2>1. TypeOK'
    BY <1>4 DEF Track, TypeOK, Hands
  <2>2. Books'
    BY <1>4 DEF Track, TypeOK, Hands, Books
  <2>3. Hands'
    BY <1>4 DEF Track, TypeOK, Hands
  <2>4. Shut'
    BY <1>4 DEF Track, TypeOK, Books, Hands, Shut
  <2> QED
    BY <2>1, <2>2, <2>3, <2>4
<1>5. ASSUME NEW t \in Servers, AcceptFails(t) PROVE ServerInv'
  <2>1. TypeOK'
    BY <1>5 DEF AcceptFails, TypeOK
  <2>2. Books'
    BY <1>5 DEF AcceptFails, TypeOK, Books
  <2>3. Hands'
    BY <1>5 DEF AcceptFails, TypeOK, Hands
  <2>4. Shut'
    BY <1>5 DEF AcceptFails, TypeOK, Shut
  <2> QED
    BY <2>1, <2>2, <2>3, <2>4
<1>6. ASSUME NEW t \in Servers, CheckClosing(t) PROVE ServerInv'
  <2>1. TypeOK'
    BY <1>6 DEF CheckClosing, TypeOK
  <2>2. Books'
    BY <1>6 DEF CheckClosing, TypeOK, Books
  <2>3. Hands'
    BY <1>6 DEF CheckClosing, TypeOK, Hands
  <2>4. Shut'
    BY <1>6 DEF CheckClosing, TypeOK, Shut
  <2> QED
    BY <2>1, <2>2, <2>3, <2>4
<1>7. ASSUME NEW t \in Servers, ServeReturns(t) PROVE ServerInv'
  <2>1. TypeOK'
    BY <1>7 DEF ServeReturns, TypeOK
  <2>2. Books'
    BY <1>7 DEF ServeReturns, TypeOK, Books
  <2>3. Hands'
    BY <1>7 DEF ServeReturns, TypeOK, Hands
  <2>4. Shut'
    BY <1>7 DEF ServeReturns, TypeOK, Books, Hands, Shut
  <2> QED
    BY <2>1, <2>2, <2>3, <2>4
<1>8. ASSUME NEW c \in Conns, Finish(c) PROVE ServerInv'
  <2>1. TypeOK'
    BY <1>8 DEF Finish, TypeOK
  <2>2. Books'
    BY <1>8 DEF Finish, TypeOK, Books
  <2>3. Hands'
    BY <1>8 DEF Finish, TypeOK, Books, Hands
  <2>4. Shut'
    BY <1>8 DEF Finish, TypeOK, Shut
  <2> QED
    BY <2>1, <2>2, <2>3, <2>4
<1>9. ASSUME NEW c \in Conns, UnregisterConn(c) PROVE ServerInv'
  <2>1. TypeOK'
    BY <1>9 DEF UnregisterConn, TypeOK
  <2>2. Books'
    BY <1>9 DEF UnregisterConn, TypeOK, Books
  <2>3. Hands'
    BY <1>9 DEF UnregisterConn, TypeOK, Hands
  <2>4. Shut'
    BY <1>9 DEF UnregisterConn, TypeOK, Shut
  <2> QED
    BY <2>1, <2>2, <2>3, <2>4
<1>10. ASSUME NEW c \in Conns, Done(c) PROVE ServerInv'
  <2>1. TypeOK'
    BY <1>10 DEF Done, TypeOK
  <2>2. Books'
    BY <1>10 DEF Done, TypeOK, Books
  <2>3. Hands'
    BY <1>10 DEF Done, TypeOK, Hands
  <2>4. Shut'
    BY <1>10 DEF Done, TypeOK, Books, Hands, Shut
  <2> QED
    BY <2>1, <2>2, <2>3, <2>4
<1>11. ASSUME NEW k \in Closers, CloseBegin(k) PROVE ServerInv'
  <2>1. TypeOK'
    BY <1>11 DEF CloseBegin, TypeOK
  <2>2. Books'
    BY <1>11 DEF CloseBegin, TypeOK, Books
  <2>3. Hands'
    BY <1>11 DEF CloseBegin, TypeOK, Hands
  <2>4. Shut'
    BY <1>11 DEF CloseBegin, TypeOK, Shut
  <2> QED
    BY <2>1, <2>2, <2>3, <2>4
<1>12. ASSUME NEW k \in Closers, ServersGone(k) PROVE ServerInv'
  <2>1. TypeOK'
    BY <1>12 DEF ServersGone, TypeOK
  <2>2. Books'
    BY <1>12 DEF ServersGone, TypeOK, Books
  <2>3. Hands'
    BY <1>12 DEF ServersGone, TypeOK, Hands
  <2>4. Shut'
    BY <1>12 DEF ServersGone, TypeOK, Shut
  <2> QED
    BY <2>1, <2>2, <2>3, <2>4
<1>13. ASSUME NEW k \in Closers, Kill(k) PROVE ServerInv'
  <2>1. TypeOK'
    BY <1>13 DEF Kill, TypeOK
  <2>2. Books'
    BY <1>13 DEF Kill, TypeOK, Books
  <2>3. Hands'
    BY <1>13 DEF Kill, TypeOK, Hands
  <2>4. Shut'
    BY <1>13 DEF Kill, TypeOK, Shut
  <2> QED
    BY <2>1, <2>2, <2>3, <2>4
<1>14. ASSUME NEW k \in Closers, ConnsGone(k) PROVE ServerInv'
  <2>1. TypeOK'
    BY <1>14 DEF ConnsGone, TypeOK
  <2>2. Books'
    BY <1>14 DEF ConnsGone, TypeOK, Books
  <2>3. Hands'
    BY <1>14 DEF ConnsGone, TypeOK, Hands
  <2>4. Shut'
    BY <1>14 DEF ConnsGone, TypeOK, Shut
  <2> QED
    BY <2>1, <2>2, <2>3, <2>4
<1>15. ASSUME NEW k \in Closers, Reset(k) PROVE ServerInv'
  <2>1. TypeOK'
    BY <1>15 DEF Reset, TypeOK
  <2>2. Books'
    BY <1>15 DEF Reset, TypeOK, Books
  <2>3. Hands'
    BY <1>15 DEF Reset, TypeOK, Hands
  <2>4. Shut'
    BY <1>15 DEF Reset, TypeOK, Shut
  <2> QED
    BY <2>1, <2>2, <2>3, <2>4
<1>16. CASE UNCHANGED vars
  BY <1>16 DEF vars, TypeOK, Books, Hands, Shut
<1> QED
  BY <1>1, <1>2, <1>3, <1>4, <1>5, <1>6, <1>7, <1>8, <1>9, <1>10, <1>11, <1>12, <1>13, <1>14, <1>15, <1>16, NextCases

\* ServerInv is an invariant of the specification.
THEOREM ServerInvariant == Spec => []ServerInv
<1>1. Init => ServerInv
  BY InitInv
<1>2. ServerInv /\ [Next]_vars => ServerInv'
  BY StepInv
<1> QED
  BY <1>1, <1>2, PTL DEF Spec

\* The types, for every instance.
THEOREM Typed == Spec => []TypeOK
<1>1. ServerInv => TypeOK
  BY DEF ServerInv
<1> QED
  BY <1>1, ServerInvariant, PTL

\* When a call of Close is about to return true, no call of Serve is under way,
\* no handler runs, and no connection is open or on the list.
THEOREM NothingRunsAfterClose == Spec => []AllGone
<1>1. ServerInv => AllGone
  <2> SUFFICES ASSUME ServerInv, NEW k \in Closers, closer[k] = "reset"
               PROVE  /\ closing
                      /\ \A t \in Servers : serve[t] = "idle"
                      /\ \A c \in Conns : handler[c] = "none"
                      /\ connections = {} /\ copen = {}
    BY DEF AllGone
  <2>1. closing /\ wg = {} /\ cwg = {}
    BY DEF ServerInv, Shut
  <2>2. \A t \in Servers : serve[t] = "idle"
    BY <2>1 DEF ServerInv, Books
  <2>3. \A c \in Conns : handler[c] = "none"
    BY <2>1 DEF ServerInv, Books
  <2>4. connections = {}
    BY <2>3 DEF ServerInv, Books, TypeOK
  <2>5. \A t \in Servers : taken[t] = NoConn
    BY <2>2 DEF ServerInv, Hands
  <2>6. copen = {}
    BY <2>3, <2>5, ServerAssumption DEF ServerInv, Hands, TypeOK
  <2> QED
    BY <2>1, <2>2, <2>3, <2>4, <2>6
<1> QED
  BY <1>1, ServerInvariant, PTL

\* Nothing is added to a WaitGroup that a call of Close waits for.
THEOREM WaitGroupsOnlyShrink == Spec => NoAddDuringWait
<1> DEFINE Shrinks == \A k \in Closers :
                         /\ closer[k] = "servers" => wg' \subseteq wg
                         /\ closer[k] \in {"kill", "conns"} => cwg' \subseteq cwg
<1>1. ServerInv /\ [Next]_vars => Shrinks
  <2> SUFFICES ASSUME ServerInv, [Next]_vars, NEW k \in Closers
               PROVE  /\ closer[k] = "servers" => wg' \subseteq wg
                      /\ closer[k] \in {"kill", "conns"} => cwg' \subseteq cwg
    OBVIOUS
  <2>1. closer[k] = "servers" => \A t \in Servers : ~TryRegister(t)
    BY DEF ServerInv, Shut, TryRegister
  <2>2. closer[k] \in {"kill", "conns"} => \A t \in Servers : ~Track(t)
    BY DEF ServerInv, Shut, Books, Track
  <2>3. (\E t \in Servers : TryRegister(t)) \/ wg' \subseteq wg
    BY NextCases DEF Listen, Accept, Track, AcceptFails, CheckClosing, ServeReturns, Finish, UnregisterConn,
       Done, CloseBegin, ServersGone, Kill, ConnsGone, Reset, vars
  <2>4. (\E t \in Servers : Track(t)) \/ cwg' \subseteq cwg
    BY NextCases DEF Listen, TryRegister, Accept, AcceptFails, CheckClosing, ServeReturns, Finish,
       UnregisterConn, Done, CloseBegin, ServersGone, Kill, ConnsGone, Reset, vars
  <2> QED
    BY <2>1, <2>2, <2>3, <2>4
<1> QED
  BY <1>1, ServerInvariant, PTL DEF Spec, NoAddDuringWait
-----------------------------------------------------------------------------
(***************************************************************************)
(* Upgrades of the schema.  SchemaInv says that the version a call goes by *)
(* when it writes is still the recorded one.  ReachIs says what the loop   *)
(* of checkCanUpgrade finds, whence performUpgrade runs the one migration  *)
(* after that version.  What a release should do by itself is StepsRight.  *)
(***************************************************************************)

\* A release does what gets the tables from the version they have to its own.
StepsRight(t) ==
    /\ CanSeed(t) => Seed(t) \in Builds(MaxVer(t))
    /\ \A v \in Nat : v # MaxVer(t) /\ CanUpgrade(t, v) =>
          Upgrade(t, v) = Piece("step", v + 1 .. MaxVer(t))

\* What a call has found that it can do.
AbleFrom(c) ==
    /\ nowVer[c] # Top(c)
    /\ IF nowVer[c] >= 0 THEN CanUpgrade(release[c], nowVer[c]) ELSE CanSeed(release[c])

SchemaTypeOK ==
    /\ release \in [Clients -> {t \in Releases : Loads(t)}]
    /\ ver \in Nat \cup {-1}
    /\ done \in Seq(SUBSET [kind : {"base", "step"}, v : Nat])
    /\ holder \in Clients \cup {Nobody}
    /\ phase \in [Clients -> {"version", "set", "create", "creating", "run", "done"}]
    /\ nowVer \in [Clients -> Nat \cup {-1}]

\* Who has written the row is at work, from the version that is recorded.
SchemaInv ==
    /\ SchemaTypeOK
    /\ RunInOrder
    /\ \A c \in Clients : phase[c] = "run" <=> holder = c
    /\ \A c \in Clients : phase[c] \in {"set", "create", "creating", "run"} => AbleFrom(c)
    /\ \A c \in Clients : phase[c] = "run" => nowVer[c] = ver

\* A set of natural numbers that is not empty has a least one.
LEMMA LeastOf ==
    ASSUME NEW S, S \subseteq Nat, S # {}
    PROVE  \E x \in S : \A y \in S : x <= y
<1>1. IsWellFoundedOn(OpToRel(<, Nat), Nat)
  BY NatLessThanWellFounded
<1>2. PICK x \in S : \A y \in S : <<y, x>> \notin OpToRel(<, Nat)
  BY <1>1, WFMin
<1>3. \A y \in S : ~(y < x)
  BY <1>2 DEF OpToRel
<1>4. QED
  BY <1>3

\* A finite set of numbers has a largest one.
LEMMA HasLargest ==
    ASSUME NEW S, S \subseteq Int, IsFiniteSet(S), S # {}
    PROVE  Largest(S) \in S /\ \A x \in S : x <= Largest(S)
<1> DEFINE Good(T) == \E x \in T : \A y \in T : y <= x
           bad == {n \in Nat : \E T \in SUBSET S : T # {} /\ Cardinality(T) = n /\ ~Good(T)}
<1>1. bad = {}
  <2>1. SUFFICES ASSUME bad # {} PROVE FALSE
    OBVIOUS
  <2>2. PICK n \in bad : \A k \in bad : n <= k
    BY <2>1, LeastOf
  <2>3. PICK T \in SUBSET S : T # {} /\ Cardinality(T) = n /\ ~Good(T)
    OBVIOUS
  <2>4. PICK x \in T : TRUE
    BY <2>3
  <2>5. IsFiniteSet(T)
    BY FS_Subset
  <2>6. IsFiniteSet(T \ {x}) /\ Cardinality(T \ {x}) = n - 1 /\ n - 1 \in Nat
    <3>1. IsFiniteSet(T \ {x}) /\ Cardinality(T \ {x}) = n - 1
      BY <2>3, <2>4, <2>5, FS_RemoveElement
    <3>2. Cardinality(T \ {x}) \in Nat
      BY <3>1, FS_CardinalityType
    <3>3. QED
      BY <3>1, <3>2
  <2>7. T \ {x} # {}
    <3>1. SUFFICES ASSUME T = {x} PROVE FALSE
      BY <2>4
    <3>2. Good(T)
      BY <3>1
    <3>3. QED
      BY <2>3, <3>2
  <2>8. Good(T \ {x})
    <3>1. n - 1 \notin bad
      BY <2>2, <2>6
    <3>2. QED
      BY <2>6, <2>7, <3>1
  <2>9. PICK y \in T \ {x} : \A z \in T \ {x} : z <= y
    BY <2>8
  <2>10. x \in Int /\ y \in Int /\ \A z \in T : z \in Int
    BY <2>4
  <2>11. CASE x <= y
    BY <2>3, <2>9, <2>10, <2>11
  <2>12. CASE y <= x
    <3>1. \A z \in T : z <= x
      BY <2>9, <2>10, <2>12
    <3>2. QED
      BY <2>3, <2>4, <3>1
  <2>13. QED
    BY <2>10, <2>11, <2>12
<1>2. Cardinality(S) \in Nat
  BY FS_CardinalityType
<1>3. Good(S)
  BY <1>1, <1>2
<1>4. QED
  BY <1>3 DEF Largest

\* The versions of a release.
LEMMA VersionsOf ==
    ASSUME NEW t \in Releases, Loads(t)
    PROVE  /\ MaxVer(t) \in Nat /\ MaxVer(t) \in Versions(t)
           /\ \A v \in Versions(t) : v <= MaxVer(t)
           /\ t.current \in Nat \cup {-1} /\ t.seeds \subseteq Nat /\ t.migrations \subseteq Nat
<1>1. /\ t.current \in Nat \cup {-1} /\ t.seeds \subseteq Nat /\ t.migrations \subseteq Nat
      /\ IsFiniteSet(t.seeds) /\ IsFiniteSet(t.migrations)
  BY SchemaAssumption
<1>2. IsFiniteSet({t.current} \cup t.seeds)
  BY <1>1, FS_Singleton, FS_Union
<1>3. IsFiniteSet(Versions(t))
  BY <1>1, <1>2, FS_Union DEF Versions
<1>4. Versions(t) \subseteq Int /\ Versions(t) # {}
  BY <1>1 DEF Versions
<1>5. MaxVer(t) \in Versions(t) /\ \A v \in Versions(t) : v <= MaxVer(t)
  BY <1>3, <1>4, HasLargest DEF MaxVer
<1>6. MaxVer(t) \in Nat
  BY <1>4, <1>5 DEF Loads
<1>7. QED
  BY <1>1, <1>5, <1>6

\* The versions up to v that the migrations lead to from v0, one after another.
Ladder(t, v0, v) == {k \in v0 .. v : v0 + 1 .. k \subseteq t.migrations}

\* What the loop of checkCanUpgrade reaches with the migrations up to v.
Reached(t, v0, v) ==
    IF \E m \in t.migrations : m <= v /\ m <= v0 THEN Refused
    ELSE IF v <= v0 THEN v0 ELSE Largest(Ladder(t, v0, v))

\* There is one largest number.
LEMMA LargestIs ==
    ASSUME NEW S, S \subseteq Int, NEW x \in S, \A y \in S : y <= x
    PROVE  Largest(S) = x
<1>1. \E v \in S : \A y \in S : y <= v
  OBVIOUS
<1>2. Largest(S) \in S /\ \A y \in S : y <= Largest(S)
  BY <1>1 DEF Largest
<1>3. Largest(S) <= x /\ x <= Largest(S) /\ x \in Int /\ Largest(S) \in Int
  BY <1>2
<1>4. QED
  BY <1>3

\* The top of the ladder.
LEMMA LadderTop ==
    ASSUME NEW t, NEW v0 \in Nat, NEW v \in Nat, v0 <= v
    PROVE  /\ Largest(Ladder(t, v0, v)) \in v0 .. v
           /\ v0 + 1 .. Largest(Ladder(t, v0, v)) \subseteq t.migrations
           /\ \A k \in v0 .. v : v0 + 1 .. k \subseteq t.migrations => k <= Largest(Ladder(t, v0, v))
<1>1. IsFiniteSet(v0 .. v)
  BY FS_Interval
<1>2. IsFiniteSet(Ladder(t, v0, v)) /\ Ladder(t, v0, v) \subseteq Int
  BY <1>1, FS_Subset DEF Ladder
<1>3. v0 + 1 .. v0 = {} /\ v0 \in v0 .. v
  OBVIOUS
<1>4. Ladder(t, v0, v) # {}
  BY <1>3 DEF Ladder
<1>5. /\ Largest(Ladder(t, v0, v)) \in Ladder(t, v0, v)
      /\ \A k \in Ladder(t, v0, v) : k <= Largest(Ladder(t, v0, v))
  BY <1>2, <1>4, HasLargest
<1>6. QED
  BY <1>5 DEF Ladder

\* One more migration to look at.
Looked(t, n, v) ==
    IF n = Refused \/ v \notin t.migrations \/ n + 1 < v THEN n
    ELSE IF n + 1 > v THEN Refused ELSE v

LEMMA ReachedNext ==
    ASSUME NEW t, t.migrations \subseteq Nat, NEW v0 \in Nat, NEW v \in Nat
    PROVE  Reached(t, v0, v) = Looked(t, Reached(t, v0, v - 1), v)
<1> DEFINE Low(u) == \E m \in t.migrations : m <= u /\ m <= v0
           n == Reached(t, v0, v - 1)
<1>1. v - 1 \in Int /\ v - 1 < v
  OBVIOUS
<1>2. CASE Low(v - 1)
  <2>1. n = Refused
    BY <1>2 DEF Reached
  <2>2. Low(v)
    BY <1>2
  <2>3. Reached(t, v0, v) = Refused
    BY <2>2 DEF Reached
  <2>4. QED
    BY <2>1, <2>3 DEF Looked
<1>3. CASE ~Low(v - 1) /\ v <= v0
  <2>1. n = v0
    BY <1>3 DEF Reached
  <2>2. CASE v \in t.migrations
    <3>1. Reached(t, v0, v) = Refused
      BY <1>3, <2>2 DEF Reached
    <3>2. n # Refused /\ ~(n + 1 < v) /\ n + 1 > v
      BY <1>3, <2>1 DEF Refused
    <3>3. QED
      BY <2>2, <3>1, <3>2 DEF Looked
  <2>3. CASE v \notin t.migrations
    <3>1. ~Low(v)
      BY <1>3, <2>3
    <3>2. Reached(t, v0, v) = v0
      BY <1>3, <3>1 DEF Reached
    <3>3. QED
      BY <2>1, <2>3, <3>2 DEF Looked
  <2>4. QED
    BY <2>2, <2>3
<1>4. CASE ~Low(v - 1) /\ v > v0
  <2>1. ~Low(v) /\ v - 1 \in Nat /\ v0 <= v - 1
    BY <1>4
  <2>2. /\ n \in v0 .. v - 1 /\ v0 + 1 .. n \subseteq t.migrations
        /\ \A k \in v0 .. v - 1 : v0 + 1 .. k \subseteq t.migrations => k <= n
    <3>1. CASE v - 1 = v0
      <4>1. n = v0
        BY <1>4, <3>1 DEF Reached
      <4>2. QED
        BY <3>1, <4>1
    <3>2. CASE v - 1 # v0
      <4>1. n = Largest(Ladder(t, v0, v - 1))
        BY <1>4, <2>1, <3>2 DEF Reached
      <4>2. QED
        BY <2>1, <4>1, LadderTop
    <3>3. QED
      BY <3>1, <3>2
  <2>3. Reached(t, v0, v) = Largest(Ladder(t, v0, v))
    BY <1>4, <2>1 DEF Reached
  <2>4. Ladder(t, v0, v) \subseteq Int /\ n \in Int /\ n # Refused
    BY <2>2 DEF Ladder, Refused
  <2>5. CASE v \in t.migrations /\ n + 1 = v
    <3>1. v0 + 1 .. v \subseteq t.migrations
      <4>1. v0 + 1 .. v = (v0 + 1 .. n) \cup {v}
        BY <2>2, <2>5
      <4>2. QED
        BY <2>2, <2>5, <4>1
    <3>2. v \in Ladder(t, v0, v) /\ \A k \in Ladder(t, v0, v) : k <= v
      BY <1>4, <3>1 DEF Ladder
    <3>3. Reached(t, v0, v) = v
      BY <2>3, <2>4, <3>2, LargestIs
    <3>4. QED
      BY <2>4, <2>5, <3>3 DEF Looked
  <2>6. CASE ~(v \in t.migrations /\ n + 1 = v)
    <3>1. ~(v0 + 1 .. v \subseteq t.migrations)
      <4>1. SUFFICES ASSUME v0 + 1 .. v \subseteq t.migrations PROVE FALSE
        OBVIOUS
      <4>2. v \in t.migrations
        BY <1>4, <4>1
      <4>3. v - 1 \in v0 .. v - 1 /\ v0 + 1 .. v - 1 \subseteq t.migrations
        BY <2>1, <4>1
      <4>4. v - 1 <= n
        BY <2>2, <4>3
      <4>5. QED
        BY <2>2, <2>6, <4>2, <4>4
    <3>2. n \in Ladder(t, v0, v)
      BY <2>2 DEF Ladder
    <3>3. ASSUME NEW k \in Ladder(t, v0, v)
          PROVE  k <= n
      <4>1. k \in v0 .. v /\ v0 + 1 .. k \subseteq t.migrations
        BY <3>3 DEF Ladder
      <4>2. k # v
        BY <3>1, <4>1
      <4>3. k \in v0 .. v - 1
        BY <4>1, <4>2
      <4>4. QED
        BY <2>2, <4>1, <4>3
    <3>4. Reached(t, v0, v) = n
      BY <2>3, <2>4, <3>2, <3>3, LargestIs
    <3>5. v \notin t.migrations \/ n + 1 < v
      BY <2>2, <2>6
    <3>6. QED
      BY <3>4, <3>5 DEF Looked
  <2>7. QED
    BY <2>5, <2>6
<1>5. QED
  BY <1>2, <1>3, <1>4

\* What the loop of checkCanUpgrade finds.
LEMMA ReachIs ==
    ASSUME NEW t \in Releases, Loads(t), NEW v0 \in Nat
    PROVE  Reach(t, v0) = Reached(t, v0, MaxVer(t))
<1>1. MaxVer(t) \in Nat /\ t.migrations \subseteq Nat
  BY VersionsOf
<1> DEFINE M == MaxVer(t)
           F(h, v) == IF v = -1 THEN v0
                      ELSE LET n == h[v - 1] IN
                           IF n = Refused \/ v \notin t.migrations \/ n + 1 < v THEN n
                           ELSE IF n + 1 > v THEN Refused ELSE v
           reach == CHOOSE h : h = [v \in -1 .. M |-> F(h, v)]
           g == [v \in -1 .. M |-> Reached(t, v0, v)]
<1>2. \A v \in -1 .. M : Reached(t, v0, v) = F(g, v)
  <2>1. SUFFICES ASSUME NEW v \in -1 .. M
                 PROVE  Reached(t, v0, v) = F(g, v)
    OBVIOUS
  <2>2. CASE v = -1
    <3>1. Reached(t, v0, v) = v0
      BY <1>1, <2>2 DEF Reached
    <3>2. QED
      BY <2>2, <3>1
  <2>3. CASE v # -1
    <3>1. v \in Nat /\ v - 1 \in -1 .. M
      BY <1>1, <2>3
    <3>2. g[v - 1] = Reached(t, v0, v - 1)
      BY <3>1
    <3>3. F(g, v) = Looked(t, g[v - 1], v)
      BY <2>3 DEF Looked
    <3>4. Reached(t, v0, v) = Looked(t, Reached(t, v0, v - 1), v)
      BY <1>1, <3>1, ReachedNext
    <3>5. QED
      BY <3>2, <3>3, <3>4
  <2>4. QED
    BY <2>2, <2>3
<1>3. g = [v \in -1 .. M |-> F(g, v)]
  BY <1>2
<1>4. reach = [v \in -1 .. M |-> F(reach, v)]
  <2> HIDE DEF g
  <2>1. \E h : h = [v \in -1 .. M |-> F(h, v)]
    BY <1>3
  <2>2. QED
    BY <2>1
<1> DEFINE apart == {n \in Nat : n - 1 \in -1 .. M /\ reach[n - 1] # g[n - 1]}
<1>5. apart = {}
  <2>1. SUFFICES ASSUME apart # {} PROVE FALSE
    OBVIOUS
  <2>2. PICK n \in apart : \A k \in apart : n <= k
    BY <2>1, LeastOf
  <2>3. n \in Nat /\ n - 1 \in -1 .. M /\ reach[n - 1] # g[n - 1]
    OBVIOUS
  <2> DEFINE v == n - 1
  <2>4. reach[v] = F(reach, v) /\ g[v] = F(g, v)
    <3> HIDE DEF reach, g
    <3>1. QED
      BY <1>3, <1>4, <2>3
  <2>5. v # -1
    <3> HIDE DEF reach, g
    <3>1. QED
      BY <2>3, <2>4
  <2>6. reach[v - 1] = g[v - 1]
    <3> HIDE DEF reach, g
    <3>1. n - 1 \in Nat /\ n - 1 \notin apart /\ (n - 1) - 1 \in -1 .. M
      BY <1>1, <2>2, <2>3, <2>5
    <3>2. QED
      BY <3>1
  <2>7. F(reach, v) = F(g, v)
    <3> HIDE DEF reach, g
    <3>1. QED
      BY <2>6
  <2>8. QED
    BY <2>3, <2>4, <2>7
<1>6. reach[M] = g[M]
  <2> HIDE DEF reach, g
  <2>1. M + 1 \in Nat /\ M + 1 \notin apart /\ (M + 1) - 1 = M /\ M \in -1 .. M
    BY <1>1, <1>5
  <2>2. QED
    BY <2>1
<1>7. Reach(t, v0) = reach[M]
  BY DEF Reach
<1>8. g[M] = Reached(t, v0, M)
  BY <1>1
<1>9. QED
  BY <1>6, <1>7, <1>8

\* From the version v to its own a release has every migration, none up to v,
\* and of them performUpgrade runs the first.
LEMMA UpgradeIsOne ==
    ASSUME NEW t \in Releases, Loads(t), NEW v \in Nat, v # MaxVer(t), CanUpgrade(t, v)
    PROVE  /\ Upgrade(t, v) = Piece("step", {v + 1})
           /\ MaxVer(t) \in Nat /\ v + 1 <= MaxVer(t)
<1>1. /\ MaxVer(t) \in Nat /\ t.migrations \subseteq Nat
      /\ \A m \in t.migrations : m <= MaxVer(t)
  BY VersionsOf DEF Versions
<1>2. v <= MaxVer(t) /\ Reached(t, v, MaxVer(t)) = MaxVer(t)
  BY ReachIs DEF CanUpgrade
<1>3. v < MaxVer(t) /\ MaxVer(t) # Refused
  BY <1>1, <1>2 DEF Refused
<1>4. \A m \in t.migrations : ~(m <= v)
  BY <1>1, <1>2, <1>3 DEF Reached
<1>5. Largest(Ladder(t, v, MaxVer(t))) = MaxVer(t)
  BY <1>1, <1>2, <1>3, <1>4 DEF Reached
<1>6. v + 1 .. MaxVer(t) \subseteq t.migrations
  BY <1>1, <1>2, <1>5, LadderTop
<1>7. v + 1 \in t.migrations
  BY <1>1, <1>3, <1>6
<1>8. {m \in t.migrations : m <= v + 1} = {v + 1}
  BY <1>1, <1>4, <1>7
<1>9. QED
  BY <1>1, <1>3, <1>8 DEF Upgrade

\* Tables are built by one base and migrations that the release has.
LEMMA SeedIs ==
    ASSUME NEW t \in Releases, Loads(t), CanSeed(t)
    PROVE  /\ Seed(t) \in SUBSET [kind : {"base", "step"}, v : Nat]
           /\ \A x \in Seed(t) : x.v <= MaxVer(t)
           /\ \E x \in Seed(t) : x.kind = "base"
           /\ MaxVer(t) \in Nat
<1>1. /\ MaxVer(t) \in Nat /\ \A v \in Versions(t) : v <= MaxVer(t)
      /\ t.current \in Nat \cup {-1} /\ t.seeds \subseteq Nat /\ t.migrations \subseteq Nat
  BY VersionsOf
<1>2. CASE t.current >= 0
  <2>1. Seed(t) = Piece("base", {t.current}) /\ t.current \in Nat /\ t.current <= MaxVer(t)
    BY <1>1, <1>2 DEF Seed, Versions
  <2>2. [kind |-> "base", v |-> t.current] \in Seed(t)
    BY <2>1 DEF Piece
  <2>3. \A x \in Seed(t) : x \in [kind : {"base", "step"}, v : Nat] /\ x.v = t.current
    BY <2>1 DEF Piece
  <2>4. \E x \in Seed(t) : x.kind = "base"
    BY <2>2
  <2>5. QED
    BY <1>1, <2>1, <2>3, <2>4
<1>3. CASE ~(t.current >= 0)
  <2> DEFINE s == Largest(t.seeds)
  <2>1. s \in t.seeds
    <3>1. t.seeds # {} /\ IsFiniteSet(t.seeds) /\ t.seeds \subseteq Int
      BY <1>1, <1>3, SchemaAssumption DEF CanSeed
    <3>2. QED
      BY <3>1, HasLargest
  <2>2. Seed(t) = Piece("base", {s}) \cup Piece("step", t.migrations)
    BY <1>3 DEF Seed
  <2> HIDE DEF s
  <2>3. s \in Nat /\ s <= MaxVer(t) /\ \A m \in t.migrations : m <= MaxVer(t)
    BY <1>1, <2>1 DEF Versions
  <2>4. [kind |-> "base", v |-> s] \in Seed(t)
    BY <2>2 DEF Piece
  <2>5. QED
    BY <1>1, <2>2, <2>3, <2>4 DEF Piece
<1>4. QED
  BY <1>2, <1>3

\* What is committed follows what was committed.
LEMMA CommitInOrder ==
    ASSUME SchemaInv, NEW c \in Clients, Commit(c)
    PROVE  RunInOrder' /\ ver' = Top(c) /\ ver' \in Nat /\ holder = c
           /\ done' \in Seq(SUBSET [kind : {"base", "step"}, v : Nat])
<1>1. /\ phase[c] = "run" /\ ver' = Top(c) /\ done' = Append(done, Work(c))
      /\ holder = c /\ nowVer[c] = ver /\ AbleFrom(c) /\ RunInOrder
      /\ release[c] \in Releases /\ Loads(release[c])
      /\ ver \in Nat \cup {-1}
      /\ done \in Seq(SUBSET [kind : {"base", "step"}, v : Nat])
  BY DEF Commit, SchemaInv, SchemaTypeOK
<1> DEFINE top == Top(c)
           W == Work(c)
<1>2. top \in Nat
  BY <1>1, VersionsOf DEF Top
<1>3. /\ DOMAIN done = 1 .. Len(done) /\ Len(done) \in Nat
      /\ DOMAIN done' = 1 .. Len(done) + 1
      /\ done'[Len(done) + 1] = W
      /\ \A i \in DOMAIN done : done'[i] = done[i]
  <2> HIDE DEF W
  <2>1. done' = Append(done, W)
    BY <1>1 DEF W
  <2>2. QED
    BY <1>1, <2>1
<1> HIDE DEF W
<1>4. CASE ver = -1
  <2>1. done = <<>> /\ DOMAIN done = {}
    BY <1>1, <1>4 DEF RunInOrder
  <2>2. W = Seed(release[c]) /\ CanSeed(release[c])
    BY <1>1, <1>4 DEF Work, AbleFrom, W
  <2>3. /\ W \in SUBSET [kind : {"base", "step"}, v : Nat]
        /\ \A x \in W : x.v <= top
        /\ \E x \in W : x.kind = "base"
    BY <1>1, <2>2, SeedIs DEF Top
  <2>4. \A i \in DOMAIN done' : i = 1 /\ done'[i] = W
    BY <1>3, <2>1
  <2>5. 1 \in DOMAIN done' /\ done' # <<>>
    BY <1>3, <2>1
  <2>6. RunInOrder'
    <3>1. \A i, j \in DOMAIN done' : i < j => \A x \in done'[i], y \in done'[j] : x.v < y.v
      BY <2>4
    <3>2. \A i \in DOMAIN done' : (\E x \in done'[i] : x.kind = "base") <=> i = 1
      BY <2>3, <2>4
    <3>3. \A i \in DOMAIN done' : \A x \in done'[i] : x.v <= ver'
      BY <1>1, <2>3, <2>4
    <3>4. QED
      BY <1>1, <1>2, <2>5, <3>1, <3>2, <3>3 DEF RunInOrder
  <2>7. Append(done, W) \in Seq(SUBSET [kind : {"base", "step"}, v : Nat])
    BY <1>1, <2>3
  <2>8. QED
    BY <1>1, <1>2, <2>6, <2>7 DEF W
<1>5. CASE ver \in Nat
  <2>1. /\ CanUpgrade(release[c], ver) /\ ver # top
        /\ W = Upgrade(release[c], ver)
    BY <1>1, <1>5 DEF Work, AbleFrom, W
  <2>2. W = Piece("step", {ver + 1}) /\ ver + 1 <= top
    BY <1>1, <1>5, <2>1, UpgradeIsOne DEF Top
  <2>3. \A x \in W : x.kind = "step" /\ x.v = ver + 1
    BY <2>2 DEF Piece
  <2>4. done # <<>> /\ Len(done) # 0
    <3>1. done # <<>>
      BY <1>1, <1>5 DEF RunInOrder
    <3>2. QED
      BY <1>1, <3>1
  <2>5. \A i \in DOMAIN done : \A x \in done[i] : x.v \in Nat /\ x.v <= ver
    <3>1. \A i \in DOMAIN done : done[i] \in SUBSET [kind : {"base", "step"}, v : Nat]
      BY <1>1
    <3>2. QED
      BY <1>1, <3>1 DEF RunInOrder
  <2>6. \A i \in DOMAIN done' : i \in DOMAIN done \/ i = Len(done) + 1
    BY <1>3
  <2>7. RunInOrder'
    <3>1. ASSUME NEW i \in DOMAIN done', NEW j \in DOMAIN done', i < j,
                 NEW x \in done'[i], NEW y \in done'[j]
          PROVE  x.v < y.v
      <4>1. i \in DOMAIN done
        BY <1>3, <3>1
      <4>2. CASE j \in DOMAIN done
        <5>1. x \in done[i] /\ y \in done[j]
          BY <1>3, <3>1, <4>1, <4>2
        <5>2. QED
          BY <1>1, <3>1, <4>1, <4>2, <5>1 DEF RunInOrder
      <4>3. CASE j = Len(done) + 1
        <5>1. x \in done[i] /\ y \in W
          BY <1>3, <3>1, <4>1, <4>3
        <5>2. QED
          BY <1>5, <2>3, <2>5, <4>1, <5>1
      <4>4. QED
        BY <2>6, <4>2, <4>3
    <3>2. ASSUME NEW i \in DOMAIN done'
          PROVE  (\E x \in done'[i] : x.kind = "base") <=> i = 1
      <4>1. CASE i \in DOMAIN done
        BY <1>1, <1>3, <4>1 DEF RunInOrder
      <4>2. CASE i = Len(done) + 1
        <5>1. i # 1
          BY <1>3, <2>4, <4>2
        <5>2. QED
          BY <1>3, <2>3, <4>2, <5>1
      <4>3. QED
        BY <2>6, <4>1, <4>2
    <3>3. ASSUME NEW i \in DOMAIN done', NEW x \in done'[i]
          PROVE  x.v <= top
      <4>1. CASE i \in DOMAIN done
        BY <1>2, <1>3, <1>5, <2>2, <2>5, <3>3, <4>1
      <4>2. CASE i = Len(done) + 1
        BY <1>3, <2>2, <2>3, <3>3, <4>2
      <4>3. QED
        BY <2>6, <4>1, <4>2
    <3>4. done' # <<>>
      BY <1>3
    <3>5. QED
      BY <1>1, <1>2, <3>1, <3>2, <3>3, <3>4 DEF RunInOrder
  <2>8. W \in SUBSET [kind : {"base", "step"}, v : Nat]
    BY <1>5, <2>2 DEF Piece
  <2>9. Append(done, W) \in Seq(SUBSET [kind : {"base", "step"}, v : Nat])
    BY <1>1, <2>8
  <2>10. QED
    BY <1>1, <1>2, <2>7, <2>9 DEF W
<1>6. QED
  BY <1>1, <1>4, <1>5

\* A step of c that commits nothing.
LEMMA CallKept ==
    ASSUME SchemaInv, NEW c \in Clients, UNCHANGED <<release, ver, done>>,
           NEW l \in {"version", "set", "create", "creating", "run", "done"},
           phase' = [phase EXCEPT ![c] = l],
           \/ UNCHANGED nowVer
           \/ l \notin {"run"} /\ phase[c] # "run" /\ nowVer' = [nowVer EXCEPT ![c] = ver],
           l \in {"set", "create", "creating", "run"} => AbleFrom(c)',
           \/ l = "run" /\ holder = Nobody /\ holder' = c /\ nowVer[c] = ver
           \/ l # "run" /\ phase[c] # "run" /\ holder' = holder
           \/ l # "run" /\ phase[c] = "run" /\ holder' = Nobody
    PROVE  SchemaInv'
<1>1. SchemaTypeOK
  BY DEF SchemaInv
<1>2. /\ phase' \in [Clients -> {"version", "set", "create", "creating", "run", "done"}]
      /\ phase'[c] = l /\ \A d \in Clients \ {c} : phase'[d] = phase[d]
  BY <1>1 DEF SchemaTypeOK
<1>3. /\ nowVer' \in [Clients -> Nat \cup {-1}]
      /\ \A d \in Clients \ {c} : nowVer'[d] = nowVer[d]
      /\ l = "run" => nowVer'[c] = nowVer[c]
  BY <1>1 DEF SchemaTypeOK
<1>4. SchemaTypeOK'
  BY <1>1, <1>2, <1>3 DEF SchemaTypeOK
<1>5. RunInOrder'
  BY DEF SchemaInv, RunInOrder
<1>6. \A d \in Clients : phase'[d] = "run" <=> holder' = d
  BY <1>1, <1>2, SchemaAssumption DEF SchemaInv, SchemaTypeOK
<1>7. \A d \in Clients : phase'[d] \in {"set", "create", "creating", "run"} => AbleFrom(d)'
  <2>1. \A d \in Clients \ {c} : AbleFrom(d)' <=> AbleFrom(d)
    BY <1>3 DEF AbleFrom, Top
  <2>2. QED
    BY <1>2, <2>1 DEF SchemaInv
<1>8. \A d \in Clients : phase'[d] = "run" => nowVer'[d] = ver'
  BY <1>2, <1>3 DEF SchemaInv
<1>9. QED
  BY <1>4, <1>5, <1>6, <1>7, <1>8 DEF SchemaInv

\* The call of c has committed.
LEMMA CommitKept ==
    ASSUME SchemaInv, NEW c \in Clients,
           Commit(c), phase' = [phase EXCEPT ![c] = "done"], UNCHANGED <<release, nowVer>>
    PROVE  SchemaInv'
<1>1. /\ RunInOrder' /\ ver' \in Nat /\ holder = c /\ holder' = Nobody
      /\ done' \in Seq(SUBSET [kind : {"base", "step"}, v : Nat])
  BY CommitInOrder DEF Commit
<1>2. SchemaTypeOK'
  BY <1>1 DEF SchemaInv, SchemaTypeOK
<1>3. \A d \in Clients : phase'[d] # "run" /\ (phase'[d] = phase[d] \/ phase'[d] = "done")
  BY <1>1 DEF SchemaInv, SchemaTypeOK
<1>4. \A d \in Clients : phase'[d] = "run" <=> holder' = d
  BY <1>1, <1>3, SchemaAssumption
<1>5. \A d \in Clients : AbleFrom(d)' <=> AbleFrom(d)
  BY DEF AbleFrom, Top
<1>6. QED
  BY <1>1, <1>2, <1>3, <1>4, <1>5 DEF SchemaInv

LEMMA CallInv ==
    ASSUME SchemaInv, NEW c \in Clients, Call(c)
    PROVE  SchemaInv'
<1> USE DEF GoTo, Return, Race, Lock, schemaDB
<1>1. CASE CheckDBConn(c)
  BY <1>1, CallKept DEF CheckDBConn
<1>2. CASE GetVersion(c)
  <2>1. /\ phase[c] = "version" /\ nowVer' = [nowVer EXCEPT ![c] = ver]
        /\ UNCHANGED <<release, ver, done, holder>>
        /\ \/ phase' = [phase EXCEPT ![c] = "done"]
           \/ ver # Top(c) /\ Able(c) /\ phase' = [phase EXCEPT ![c] = "set"]
    BY <1>2 DEF GetVersion
  <2>2. nowVer'[c] = ver
    BY <2>1 DEF SchemaInv, SchemaTypeOK
  <2>3. CASE phase' = [phase EXCEPT ![c] = "done"]
    BY <2>1, <2>3, CallKept
  <2>4. CASE ver # Top(c) /\ Able(c) /\ phase' = [phase EXCEPT ![c] = "set"]
    <3>1. AbleFrom(c)'
      BY <2>1, <2>2, <2>4 DEF AbleFrom, Able, Top
    <3>2. QED
      BY <2>1, <2>4, <3>1, CallKept
  <2>5. QED
    BY <2>1, <2>3, <2>4
<1>3. ASSUME phase[c] # "run", UNCHANGED <<release, ver, done, holder, nowVer>>,
             \/ phase' = [phase EXCEPT ![c] = "done"] \/ phase' = [phase EXCEPT ![c] = "version"]
             \/ phase[c] \in {"set", "create"}
                  /\ (phase' = [phase EXCEPT ![c] = "create"] \/ phase' = [phase EXCEPT ![c] = "creating"])
      PROVE  SchemaInv'
  <2>1. CASE phase' = [phase EXCEPT ![c] = "done"] \/ phase' = [phase EXCEPT ![c] = "version"]
    BY <1>3, <2>1, CallKept
  <2>2. CASE phase[c] \in {"set", "create"}
               /\ (phase' = [phase EXCEPT ![c] = "create"] \/ phase' = [phase EXCEPT ![c] = "creating"])
    <3>1. AbleFrom(c)
      BY <2>2 DEF SchemaInv
    <3>2. AbleFrom(c)'
      BY <1>3, <3>1 DEF AbleFrom, Top
    <3>3. QED
      BY <1>3, <2>2, <3>2, CallKept
  <2>3. QED
    BY <1>3, <2>1, <2>2
<1>4. ASSUME phase[c] = "set", holder = Nobody, holder' = c, nowVer[c] = ver,
             phase' = [phase EXCEPT ![c] = "run"], UNCHANGED <<release, ver, done, nowVer>>
      PROVE  SchemaInv'
  <2>1. AbleFrom(c)
    BY <1>4 DEF SchemaInv
  <2>2. AbleFrom(c)'
    BY <1>4, <2>1 DEF AbleFrom, Top
  <2>3. QED
    BY <1>4, <2>2, CallKept
<1>5. CASE UpdateVersion(c)
  <2>1. CASE ver = nowVer[c]
    BY <1>4, <1>5, <2>1 DEF UpdateVersion
  <2>2. CASE ver # nowVer[c]
    BY <1>3, <1>5, <2>2 DEF UpdateVersion
  <2>3. QED
    BY <2>1, <2>2
<1>6. CASE InsertVersion(c)
  <2>1. CASE table /\ ver < 0 /\ holder = Nobody /\ Lock(c)
    <3>1. ver = -1 /\ nowVer[c] = -1
      BY <1>6, <2>1 DEF InsertVersion, SchemaInv, SchemaTypeOK
    <3>2. QED
      BY <1>4, <1>6, <2>1, <3>1 DEF InsertVersion
  <2>2. CASE ~(table /\ ver < 0 /\ holder = Nobody /\ Lock(c))
    <3>1. phase[c] = "set" /\ UNCHANGED <<release, ver, done, holder, nowVer>>
      BY <1>6, <2>2, Zenon DEF InsertVersion
    <3>2. \/ phase' = [phase EXCEPT ![c] = "done"] \/ phase' = [phase EXCEPT ![c] = "version"]
          \/ phase' = [phase EXCEPT ![c] = "create"]
      BY <1>6, <2>2, Zenon DEF InsertVersion
    <3>3. QED
      BY <1>3, <3>1, <3>2
  <2>3. QED
    BY <2>1, <2>2
<1>7. CASE CreateTable(c)
  BY <1>3, <1>7 DEF CreateTable
<1>8. CASE TableCreated(c)
  BY <1>3, <1>8 DEF TableCreated
<1>9. CASE RunAndCommit(c)
  BY <1>9, CommitKept DEF RunAndCommit
<1>10. QED
  BY <1>1, <1>2, <1>5, <1>6, <1>7, <1>8, <1>9 DEF Call

LEMMA SchemaStep ==
    ASSUME SchemaInv, [SchemaNext]_schemaVars
    PROVE  SchemaInv'
<1>1. ASSUME NEW c \in Clients, Call(c)
      PROVE  SchemaInv'
  BY <1>1, CallInv
<1>2. ASSUME NEW c \in Clients, Fail(c)
      PROVE  SchemaInv'
  <2>1. /\ phase' = [phase EXCEPT ![c] = "done"] /\ UNCHANGED <<release, ver, done, nowVer>>
        /\ holder' = IF holder = c THEN Nobody ELSE holder
    BY <1>2 DEF Fail, Return, Rollback
  <2>2. holder = c <=> phase[c] = "run"
    BY DEF SchemaInv
  <2>3. QED
    BY <2>1, <2>2, CallKept
<1>3. ASSUME NEW c \in Clients, CommitUnheard(c)
      PROVE  SchemaInv'
  BY <1>3, CommitKept DEF CommitUnheard, Return
<1>4. CASE UNCHANGED schemaVars
  BY <1>4 DEF schemaVars, schemaDB, SchemaInv, SchemaTypeOK, RunInOrder, AbleFrom, Top
<1>5. QED
  BY <1>1, <1>2, <1>3, <1>4 DEF SchemaNext

LEMMA SchemaStart == SchemaInit => SchemaInv
<1> SUFFICES ASSUME SchemaInit PROVE SchemaInv
  OBVIOUS
<1>1. SchemaTypeOK
  BY DEF SchemaInit, SchemaTypeOK
<1>2. RunInOrder
  BY DEF SchemaInit, RunInOrder
<1>3. \A c \in Clients : phase[c] = "version" /\ holder # c
  BY SchemaAssumption DEF SchemaInit
<1>4. QED
  BY <1>1, <1>2, <1>3 DEF SchemaInv

\* What a release that does the right thing commits builds its version.
LEMMA CommitBuilds ==
    ASSUME SchemaInv, VersionTrue, \A t \in Releases : Loads(t) => StepsRight(t),
           NEW c \in Clients, Commit(c)
    PROVE  VersionTrue'
<1>1. /\ phase[c] = "run" /\ ver' = Top(c) /\ done' = Append(done, Work(c))
      /\ nowVer[c] = ver /\ AbleFrom(c)
      /\ release[c] \in Releases /\ Loads(release[c])
      /\ ver \in Nat \cup {-1}
      /\ done \in Seq(SUBSET [kind : {"base", "step"}, v : Nat])
  BY DEF Commit, SchemaInv, SchemaTypeOK
<1> DEFINE top == Top(c)
           W == Work(c)
<1>2. top \in Nat
  BY <1>1, VersionsOf DEF Top
<1>3. StepsRight(release[c])
  BY <1>1
<1>4. /\ DOMAIN done = 1 .. Len(done) /\ Len(done) \in Nat
      /\ DOMAIN done' = 1 .. Len(done) + 1
      /\ done'[Len(done) + 1] = W
      /\ \A i \in DOMAIN done : done'[i] = done[i]
  <2> HIDE DEF W
  <2>1. done' = Append(done, W)
    BY <1>1 DEF W
  <2>2. QED
    BY <1>1, <2>1
<1> HIDE DEF W
<1>5. Committed' = Committed \cup W
  <2>1. \A i \in DOMAIN done : i \in DOMAIN done'
    BY <1>4
  <2>2. \A i \in DOMAIN done' : i \in DOMAIN done \/ i = Len(done) + 1
    BY <1>4
  <2>3. Len(done) + 1 \in DOMAIN done'
    BY <1>4
  <2>4. QED
    BY <1>4, <2>1, <2>2, <2>3 DEF Committed
<1>6. CASE ver = -1
  <2>1. done = <<>> /\ Committed = {}
    BY <1>1, <1>6 DEF VersionTrue, Committed
  <2>2. W = Seed(release[c]) /\ CanSeed(release[c])
    BY <1>1, <1>6 DEF Work, AbleFrom, W
  <2>3. W \in Builds(top)
    BY <1>3, <2>2 DEF StepsRight, Top
  <2>4. Committed' = W
    BY <1>5, <2>1
  <2>5. \A i, j \in DOMAIN done' : i # j => done'[i] \cap done'[j] = {}
    BY <1>4, <2>1
  <2>6. QED
    BY <1>1, <1>2, <2>3, <2>4, <2>5 DEF VersionTrue
<1>7. CASE ver \in Nat
  <2>1. /\ CanUpgrade(release[c], ver) /\ ver # top
        /\ W = Upgrade(release[c], ver)
    BY <1>1, <1>7 DEF Work, AbleFrom, W
  <2>2. W = Piece("step", ver + 1 .. top) /\ ver <= top
    BY <1>3, <1>7, <2>1 DEF StepsRight, CanUpgrade, Top
  <2>3. PICK b \in 0 .. ver : Committed = Piece("base", {b}) \cup Piece("step", b + 1 .. ver)
    <3>1. Committed \in Builds(ver)
      BY <1>1, <1>7 DEF VersionTrue
    <3>2. QED
      BY <3>1 DEF Builds
  <2>4. (b + 1 .. ver) \cup (ver + 1 .. top) = b + 1 .. top /\ b \in 0 .. top
    BY <1>2, <1>7, <2>2
  <2>5. Committed' = Piece("base", {b}) \cup Piece("step", b + 1 .. top)
    <3>1. Piece("step", b + 1 .. ver) \cup Piece("step", ver + 1 .. top)
            = Piece("step", (b + 1 .. ver) \cup (ver + 1 .. top))
      BY DEF Piece
    <3>2. QED
      BY <1>5, <2>2, <2>3, <2>4, <3>1
  <2>6. Committed' \in Builds(top)
    BY <2>4, <2>5 DEF Builds
  <2>7. W \cap Committed = {}
    <3>1. SUFFICES ASSUME NEW x \in W, x \in Committed PROVE FALSE
      OBVIOUS
    <3>2. x.kind = "step" /\ x.v \in ver + 1 .. top
      BY <2>2, <3>1 DEF Piece
    <3>3. x \in Piece("base", {b}) \/ x \in Piece("step", b + 1 .. ver)
      BY <2>3, <3>1
    <3>4. x.kind = "base" \/ x.v \in b + 1 .. ver
      BY <3>3 DEF Piece
    <3>5. QED
      BY <1>2, <1>7, <3>2, <3>4
  <2>8. \A i \in DOMAIN done : done[i] \cap W = {}
    BY <2>7 DEF Committed
  <2>9. \A i, j \in DOMAIN done' : i # j => done'[i] \cap done'[j] = {}
    <3>1. SUFFICES ASSUME NEW i \in DOMAIN done', NEW j \in DOMAIN done', i # j
                   PROVE  done'[i] \cap done'[j] = {}
      OBVIOUS
    <3>2. CASE i \in DOMAIN done /\ j \in DOMAIN done
      BY <1>1, <1>4, <3>1, <3>2 DEF VersionTrue
    <3>3. CASE i = Len(done) + 1
      <4>1. j \in DOMAIN done
        BY <1>4, <3>1, <3>3
      <4>2. QED
        BY <1>4, <2>8, <3>3, <4>1
    <3>4. CASE j = Len(done) + 1
      <4>1. i \in DOMAIN done
        BY <1>4, <3>1, <3>4
      <4>2. QED
        BY <1>4, <2>8, <3>4, <4>1
    <3>5. QED
      BY <1>4, <3>2, <3>3, <3>4
  <2>10. QED
    BY <1>1, <1>2, <2>6, <2>9 DEF VersionTrue
<1>8. QED
  BY <1>1, <1>6, <1>7

\* The version that the tables have stays the recorded one.
LEMMA VersionKept ==
    ASSUME SchemaInv, VersionTrue, \A t \in Releases : Loads(t) => StepsRight(t),
           [SchemaNext]_schemaVars
    PROVE  VersionTrue'
<1>1. ASSUME NEW c \in Clients, Commit(c)
      PROVE  VersionTrue'
  BY <1>1, CommitBuilds
<1>2. CASE UNCHANGED <<ver, done>>
  BY <1>2 DEF VersionTrue, Committed
<1>3. ASSUME NEW c \in Clients, Call(c)
      PROVE  VersionTrue'
  <2>1. RunAndCommit(c) \/ UNCHANGED <<ver, done>>
    BY <1>3 DEF Call, CheckDBConn, GetVersion, UpdateVersion, InsertVersion, CreateTable,
       TableCreated, schemaDB
  <2>2. QED
    BY <1>1, <1>2, <2>1 DEF RunAndCommit
<1>4. QED
  BY <1>1, <1>2, <1>3 DEF SchemaNext, Fail, CommitUnheard, schemaVars, schemaDB

\* Whatever calls of whatever releases run at once and wherever they fail, a
\* piece of SQL is committed once at most and after those of lower versions, and
\* the tables are built by one call (MigrateDBConn, SetVersion).  Nothing is
\* asked of the releases: they may carry any migrations.
THEOREM MigrationsRunInOrder == SchemaSpec => []RunInOrder
<1>1. SchemaInit => SchemaInv
  BY SchemaStart
<1>2. SchemaInv /\ [SchemaNext]_schemaVars => SchemaInv'
  BY SchemaStep
<1>3. SchemaInv => RunInOrder
  BY DEF SchemaInv
<1>4. QED
  BY <1>1, <1>2, <1>3, PTL DEF SchemaSpec

\* The recorded version is the one that the tables have, whatever calls run at
\* once, as long as each release by itself does what gets the tables from
\* the version they have to its own (MigrateDBConn, SetVersion).  A release that
\* leads over two migrations from a version that is in use does not: see
\* TwoStepsAreWrong.
THEOREM VersionFollows ==
    ASSUME \A t \in Releases : Loads(t) => StepsRight(t)
    PROVE  SchemaSpec => []VersionTrue
<1>1. SchemaInit => SchemaInv /\ VersionTrue
  BY SchemaStart DEF SchemaInit, VersionTrue
<1>2. SchemaInv /\ VersionTrue /\ [SchemaNext]_schemaVars => SchemaInv' /\ VersionTrue'
  BY SchemaStep, VersionKept
<1>3. QED
  BY <1>1, <1>2, PTL DEF SchemaSpec

\* What performUpgrade does to a release that carries two migrations or more past
\* version v: it runs the first of them alone, however far the release leads
\* (schematool.go:350-355), although SetVersion has recorded the last.
THEOREM TwoStepsAreWrong ==
    ASSUME NEW t \in Releases, Loads(t), NEW v \in Nat, CanUpgrade(t, v), v + 1 < MaxVer(t)
    PROVE  ~StepsRight(t)
<1>1. MaxVer(t) \in Nat /\ v # MaxVer(t)
  BY VersionsOf
<1>2. Upgrade(t, v) = Piece("step", {v + 1})
  BY <1>1, UpgradeIsOne
<1>3. [kind |-> "step", v |-> v + 2] \in Piece("step", v + 1 .. MaxVer(t))
  BY <1>1 DEF Piece
<1>4. [kind |-> "step", v |-> v + 2] \notin Upgrade(t, v)
  BY <1>2 DEF Piece
<1>5. QED
  BY <1>1, <1>3, <1>4 DEF StepsRight
=============================================================================
