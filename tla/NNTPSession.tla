----------------------------- MODULE NNTPSession -----------------------------
(***************************************************************************)
(* One connection to the NNTP server: the command loop (server.go), its    *)
(* commands (scmd_base.go, scmd_read.go, scmd_list.go, scmd_post.go,       *)
(* scmd_auth.go, auth.go) and the provider's part in taking in articles    *)
(* (nntppost.go), against a client that may send commands ahead of their   *)
(* answers and an administrator who swaps the run configuration.           *)
(*                                                                         *)
(* Client and server stay together by counting alone: an answer belongs to *)
(* the oldest command without one, and what follows an article is a        *)
(* command only because the server has read the article to its end.        *)
(*                                                                         *)
(* A command is one step, but for those that take an article.  Lines of an *)
(* article are units without content; the client's commands are well       *)
(* formed except for those marked as such.                                 *)
(***************************************************************************)
EXTENDS Integers, Sequences, SequencesExt, FiniteSets

CONSTANTS
    Accounts,    \* the users
    PrivOf,      \* UserInfo.UserPriv of each, a subset of {"r", "w"}
    NoPass,      \* the accounts without a password
    DefaultPriv, \* NNTPServerRunCfg.DefaultPriv
    TLSPriv,     \* NNTPServerRunCfg.TLSPriv
    Configs,     \* the rest of NNTPServerRunCfg: users, unsafePass, early, tls
    Supported,   \* the commands the provider supports, of {"POST", "IHAVE", "STREAM"}
    ArticleTexts,\* the articles: number of lines, and the line that ends the parts
    BufSize,     \* lines in the buffer of the part reader (4096 bytes in the code)
    BodyLimit,   \* PSQLIB.maxArticleBodySize
    MaxAhead,    \* bound on the commands a client sends ahead
    Sends        \* the commands that this client sends

None == "none"
Unknown == "unknown"

Articles == {"POST", "IHAVE", "TAKETHIS"}

Commands ==
    {"INFO", "MODE", "STREAM", "LIST", "NEW", "GROUP", "LISTGROUP", "NEXT", "LAST", "READ", "CURR",
     "USER", "PASS", "STARTTLS", "QUIT", "CHECK", "BAD"} \cup Articles

ASSUME SessionAssumption ==
    /\ None \notin Accounts /\ Unknown \notin Accounts
    /\ PrivOf \in [Accounts -> SUBSET {"r", "w"}]
    /\ NoPass \subseteq Accounts
    /\ DefaultPriv \subseteq {"r", "w"} /\ TLSPriv \subseteq {"r", "w"}
    /\ Configs \subseteq [users : BOOLEAN, unsafePass : BOOLEAN, early : BOOLEAN, tls : BOOLEAN]
    /\ ArticleTexts \subseteq [lines : Nat, ending : Nat]
    /\ \A t \in ArticleTexts : t.ending <= t.lines
    /\ BufSize \in Nat \ {0} /\ BodyLimit \in Nat /\ MaxAhead \in Nat
    /\ Sends \subseteq Commands

VARIABLES
    cfg,       \* the run configuration
    wire,      \* what the client has sent and the server not read
    expect,    \* the client's commands that have no final answer yet, oldest first
    invited,   \* whether the client has been told to send its article
    strange,   \* whether an answer came that fits no command
    pc,        \* where the server is
    taken,       \* the article command it is busy with
    eof,       \* whether the reader of the article is at its end
    priv,      \* ConnState.UserPriv
    auth,      \* whom the connection is authenticated as
    login,     \* ConnState.activeLogin
    tls,       \* ConnState.tlsConn
    group      \* whether ConnState.CurrentGroup is set

talk == <<wire, expect, invited, strange>>
task == <<pc, taken, eof>>
user == <<priv, auth, login, tls, group>>
sessionVars == <<cfg, talk, task, user>>

-----------------------------------------------------------------------------
(***************************************************************************)
(* What is said.                                                           *)
(***************************************************************************)

\* The codes that any command may be answered with: a failure inside, syntax,
\* authentication, permission, not implemented.
Generic == {403, 480, 500, 501, 502, 503}

\* The codes that nntpprovider.go promises for each command, and those of the
\* commands that the server answers itself.
Codes ==
    [c \in Commands |->
        CASE c = "INFO"      -> {100, 101, 111, 202, 205, 215}
          [] c = "MODE"      -> {200, 201}
          [] c = "STREAM"    -> {203}
          [] c = "LIST"      -> {215, 282}
          [] c = "NEW"       -> {230, 231}
          [] c = "GROUP"     -> {211, 411}
          [] c = "LISTGROUP" -> {211, 411, 412}
          [] c = "NEXT"      -> {223, 412, 420, 421}
          [] c = "LAST"      -> {223, 412, 420, 422}
          [] c = "READ"      -> {220, 221, 222, 223, 224, 225, 430}
          [] c = "CURR"      -> {220, 221, 222, 223, 224, 225, 412, 420, 423}
          [] c = "USER"      -> {281, 381, 481, 482, 483}
          [] c = "PASS"      -> {281, 481, 482, 483}
          [] c = "STARTTLS"  -> {382, 580}
          [] c = "QUIT"      -> {205}
          [] c = "CHECK"     -> {238, 431, 438}
          [] c = "POST"      -> {240, 440, 441}
          [] c = "IHAVE"     -> {235, 435, 436, 437}
          [] c = "TAKETHIS"  -> {239, 439}
          [] c = "BAD"       -> {}]

Fits(code, c) == code \in Generic \cup Codes[c]

\* The client gets a final answer.
Heard(code) ==
    IF expect = <<>>
    THEN strange' = TRUE /\ UNCHANGED <<expect, invited>>
    ELSE /\ strange' = (strange \/ ~Fits(code, Head(expect)))
         /\ expect' = Tail(expect)
         /\ invited' = FALSE

\* A text of n lines with the dot that ends it.
Lines(n) == [k \in 1 .. n |-> "line"] \o <<"dot">>

\* What is left of the wire after n units.
After(n) == SubSeq(wire, n + 1, Len(wire))

\* The client sends a command.  What follows POST, IHAVE, STARTTLS and QUIT
\* depends on their answers, so it waits for them; TAKETHIS brings its article.
Send(c) ==
    /\ pc # "closed"
    /\ Len(expect) < MaxAhead
    /\ \A k \in 1 .. Len(expect) : expect[k] \notin {"POST", "IHAVE", "STARTTLS", "QUIT"}
    /\ expect' = Append(expect, c)
    /\ \/ c # "TAKETHIS" /\ wire' = Append(wire, c)
       \/ c = "TAKETHIS" /\ \E t \in ArticleTexts : wire' = Append(wire, c) \o Lines(t.lines)
    /\ UNCHANGED <<cfg, invited, strange, task, user>>

\* It sends the article that it was told to send.
SendArticle ==
    /\ invited /\ wire = <<>>
    /\ \E t \in ArticleTexts :
          /\ wire' = Lines(t.lines)
          /\ taken' = [taken EXCEPT !.text = t]
    /\ invited' = FALSE
    /\ UNCHANGED <<cfg, expect, strange, pc, eof, user>>

\* The connection goes, or a write to it fails (AbortOnErr).
Break ==
    /\ pc # "closed"
    /\ pc' = "closed"
    /\ UNCHANGED <<cfg, talk, taken, eof, user>>

\* SetRunCfg.
Configure ==
    /\ pc # "closed"
    /\ cfg' \in Configs \ {cfg}
    /\ UNCHANGED <<talk, task, user>>

-----------------------------------------------------------------------------
(***************************************************************************)
(* The command loop.                                                       *)
(***************************************************************************)

\* The loop takes a command off the wire.
Takes(c) == pc = "cmd" /\ wire # <<>> /\ Head(wire) = c /\ wire' = Tail(wire)

\* A command that is answered at once and changes nothing.
Answers(codes) ==
    /\ \E code \in codes : Heard(code)
    /\ UNCHANGED <<cfg, task, user>>

\* An unknown keyword, a line that is too long, parameters too many or too few;
\* or a line of an article that the loop takes for a command.
Bad == \E c \in {"BAD", "line", "dot"} : Takes(c) /\ Answers({500, 501})

\* CAPABILITIES, HELP, DATE, SLAVE and LIST OVERVIEW.FMT.
Info == Takes("INFO") /\ Answers({100, 101, 111, 202, 215})

\* MODE READER and MODE STREAM.
Mode ==
    \/ Takes("MODE") /\ Answers(IF "r" \notin priv THEN {480} ELSE IF "w" \in priv THEN {200} ELSE {201})
    \/ Takes("STREAM") /\ Answers(IF "STREAM" \notin Supported THEN {503}
                                  ELSE IF "w" \in priv THEN {203} ELSE {480})

\* LIST ACTIVE, LIST NEWSGROUPS, XGTITLE.
List == Takes("LIST") /\ Answers(IF priv = {} THEN {480, 501} ELSE {215, 282, 403, 501})

\* NEWNEWS, NEWGROUPS.
NewNews == Takes("NEW") /\ Answers(IF "r" \notin priv THEN {480, 501, 503} ELSE {230, 231, 403, 501, 503})

Quit ==
    /\ Takes("QUIT")
    /\ Heard(205)
    /\ pc' = "closed"
    /\ UNCHANGED <<cfg, taken, eof, user>>

-----------------------------------------------------------------------------
(***************************************************************************)
(* Reading.  The group pointer itself is the subject of GroupPointer.      *)
(***************************************************************************)

\* (Wrong variant: does not ask for the privilege.)
GroupAnyone ==
    /\ Takes("GROUP") \/ Takes("LISTGROUP")
    /\ group' = TRUE /\ Heard(211)
    /\ UNCHANGED <<cfg, task, priv, auth, login, tls>>

\* GROUP; LISTGROUP with a name, which leaves a pointer behind even where there
\* is no such group.
Group ==
    /\ \/ /\ Takes("GROUP")
          /\ \/ "r" \notin priv /\ Heard(480) /\ UNCHANGED group
             \/ "r" \in priv /\ group' = TRUE /\ Heard(211)
             \/ "r" \in priv /\ (Heard(411) \/ Heard(403) \/ Heard(501)) /\ UNCHANGED group
       \/ /\ Takes("LISTGROUP")
          /\ \/ "r" \notin priv /\ (Heard(480) \/ Heard(501)) /\ UNCHANGED group
             \/ "r" \in priv /\ group' = TRUE /\ (Heard(211) \/ Heard(411) \/ Heard(403))
    /\ UNCHANGED <<cfg, task, priv, auth, login, tls>>

\* NEXT, LAST: no question about privileges.
NextLast ==
    \/ Takes("NEXT") /\ Answers(IF group THEN {223, 403, 412, 420, 421} ELSE {412})
    \/ Takes("LAST") /\ Answers(IF group THEN {223, 403, 412, 420, 422} ELSE {412})

\* ARTICLE, HEAD, BODY, STAT, OVER and HDR by message id.
ReadById == Takes("READ") /\ Answers(IF "r" \notin priv THEN {480} ELSE Codes["READ"] \cup {403, 503})

\* The same by number and for the current article.
ReadInGroup ==
    Takes("CURR") /\ Answers(IF "r" \notin priv THEN {480}
                             ELSE IF group THEN Codes["CURR"] \cup {403, 501, 503} ELSE {412})

-----------------------------------------------------------------------------
(***************************************************************************)
(* Authentication and TLS.                                                 *)
(***************************************************************************)

PassAllowed == cfg.unsafePass \/ tls

\* loginSuccess.
LoggedIn(u) == auth' = u /\ priv' = priv \cup PrivOf[u] /\ Heard(281)

\* AUTHINFO USER.
AuthUser ==
    /\ Takes("USER")
    /\ \/ login # None /\ login' = None /\ Heard(482) /\ UNCHANGED <<auth, priv>>
       \/ /\ login = None
          /\ \/ auth # None /\ Heard(502) /\ UNCHANGED <<login, auth, priv>>
             \/ /\ auth = None /\ ~(cfg.users /\ PassAllowed)
                /\ Heard(503) \/ Heard(483)
                /\ UNCHANGED <<login, auth, priv>>
             \/ /\ auth = None /\ cfg.users /\ PassAllowed
                /\ \E u \in Accounts \cup {Unknown} :
                      \/ u = Unknown /\ cfg.early /\ Heard(481) /\ UNCHANGED <<login, auth, priv>>
                      \/ u \in NoPass /\ LoggedIn(u) /\ UNCHANGED login
                      \/ /\ u \notin NoPass /\ ~(u = Unknown /\ cfg.early)
                         /\ login' = u /\ Heard(381) /\ UNCHANGED <<auth, priv>>
    /\ UNCHANGED <<cfg, task, tls, group>>

\* AUTHINFO PASS, with a password that is right or wrong.
AuthPass ==
    /\ Takes("PASS")
    /\ login' = None
    /\ \/ login \in Accounts /\ cfg.users /\ LoggedIn(login)
       \/ login # None /\ Heard(481) /\ UNCHANGED <<auth, priv>>
       \/ /\ login = None
          /\ IF auth # None THEN Heard(502) ELSE Heard(503) \/ Heard(483) \/ Heard(482)
          /\ UNCHANGED <<auth, priv>>
    /\ UNCHANGED <<cfg, task, tls, group>>

\* STARTTLS: the connection starts anew but for who is logged in.
StartTLS ==
    /\ Takes("STARTTLS")
    /\ IF ~cfg.tls \/ tls
       THEN (Heard(580) \/ Heard(502)) /\ UNCHANGED <<pc, user>>
       ELSE /\ Heard(382)
            /\ \/ pc' = "closed" /\ UNCHANGED user
               \/ /\ tls' = TRUE
                  /\ group' = FALSE
                  /\ priv' = priv \cup TLSPriv
                  /\ UNCHANGED <<pc, auth, login>>
    /\ UNCHANGED <<cfg, taken, eof>>

-----------------------------------------------------------------------------
(***************************************************************************)
(* Articles.                                                               *)
(***************************************************************************)

Goto(label) == pc' = label /\ UNCHANGED <<taken, eof>>
Refuses(codes) == (\E code \in codes : Heard(code)) /\ Goto("cmd")

\* The client is told to send its article, and a reader is opened.
Invite(c) ==
    /\ invited' = TRUE
    /\ pc' = "read"
    /\ taken' = [taken EXCEPT !.cmd = c]
    /\ eof' = FALSE
    /\ UNCHANGED <<expect, strange>>

\* POST.
Post ==
    /\ Takes("POST")
    /\ \/ "POST" \notin Supported /\ Refuses({503})
       \/ "POST" \in Supported /\ "w" \notin priv /\ Refuses({440})
       \/ "POST" \in Supported /\ "w" \in priv /\ Invite("POST")
    /\ UNCHANGED <<cfg, user>>

\* IHAVE; the article may be there already or be banned.
IHave ==
    /\ Takes("IHAVE")
    /\ \/ "IHAVE" \notin Supported /\ Refuses({503})
       \/ "IHAVE" \in Supported /\ "w" \notin priv /\ Refuses({480, 501})
       \/ "IHAVE" \in Supported /\ "w" \in priv /\ (Refuses({403, 435, 501}) \/ Invite("IHAVE"))
    /\ UNCHANGED <<cfg, user>>

Check ==
    Takes("CHECK") /\ Answers(IF "STREAM" \notin Supported THEN {503}
                              ELSE IF priv = {} THEN {480, 501} ELSE {238, 403, 438, 501})

\* (Wrong variant: the reader is opened when the article is wanted.)
TakeThisLate ==
    /\ Takes("TAKETHIS")
    /\ Heard(439)
    /\ UNCHANGED <<cfg, task, user>>

\* TAKETHIS: the reader is opened first, and when the command is refused the
\* deferred Discard is next.
TakeThis ==
    /\ Takes("TAKETHIS")
    /\ eof' = FALSE
    /\ taken' = [taken EXCEPT !.cmd = "TAKETHIS"]
    /\ \/ "STREAM" \notin Supported /\ Heard(503) /\ pc' = "discard"
       \/ "STREAM" \in Supported /\ "w" \notin priv /\ (Heard(480) \/ Heard(501)) /\ pc' = "discard"
       \/ "STREAM" \in Supported /\ "w" \in priv /\ (Heard(403) \/ Heard(439) \/ Heard(501)) /\ pc' = "discard"
       \/ "STREAM" \in Supported /\ "w" \in priv /\ pc' = "read" /\ UNCHANGED <<expect, invited, strange>>
    /\ UNCHANGED <<cfg, user>>

\* The number of lines before the dot.
Remaining == CHOOSE n \in 0 .. Len(wire) - 1 :
                wire[n + 1] = "dot" /\ \A k \in 1 .. n : wire[k] = "line"
Arrived == \E k \in 1 .. Len(wire) : wire[k] = "dot"

\* The dot is read when a reader asks for more than there are lines.
Consumed(n) == IF n > Remaining THEN Remaining + 1 ELSE n
ReadsOn(n) == wire' = After(Consumed(n)) /\ eof' = (n > Remaining)

\* netnewsHandleSubmissionDirectly: how much of an article is asked for when it
\* is taken in, whole buffers up to the line that ends its parts, or all of it;
\* and not more than the limit lets through.
Least(a, b) == IF a < b THEN a ELSE b
Asked(t) ==
    LET parts == ((t.ending + BufSize - 1) \div BufSize) * BufSize IN
    Least(IF t.ending = 0 THEN t.lines + 1 ELSE parts, BodyLimit + 1)

\* HandlePost takes the article in.
PostDone ==
    /\ pc = "read" /\ taken.cmd = "POST" /\ Arrived
    /\ ReadsOn(Asked(taken.text))
    /\ Heard(240)
    /\ pc' = "cmd"
    /\ UNCHANGED <<cfg, taken, user>>

\* netnewsCopyArticleToFile reads to the end or past the limit.
TransferDone ==
    /\ pc = "read" /\ taken.cmd # "POST" /\ Arrived
    /\ Remaining <= BodyLimit
    /\ ReadsOn(Remaining + 1)
    /\ Heard(IF taken.cmd = "IHAVE" THEN 235 ELSE 239)
    /\ pc' = "cmd"
    /\ UNCHANGED <<cfg, taken, user>>

Rejection == [POST |-> {441, 403}, IHAVE |-> {437, 403}, TAKETHIS |-> {439, 403}]

\* The article is rejected, with any part of it read; Discard is next.
Rejected ==
    /\ pc = "read" /\ Arrived
    /\ \E n \in 0 .. Remaining + 1 : ReadsOn(n)
    /\ \E code \in Rejection[taken.cmd] : Heard(code)
    /\ pc' = "discard"
    /\ UNCHANGED <<cfg, taken, user>>

\* Discard(-1): to the end of the article, if the reader is not there yet.
DiscardRest ==
    /\ pc = "discard"
    /\ eof \/ Arrived
    /\ wire' = IF eof THEN wire ELSE After(Remaining + 1)
    /\ eof' = TRUE
    /\ pc' = "cmd"
    /\ UNCHANGED <<cfg, expect, invited, strange, taken, user>>

-----------------------------------------------------------------------------

Reading == Group \/ NextLast \/ ReadById \/ ReadInGroup
Authenticating == AuthUser \/ AuthPass \/ StartTLS
Posting == Post \/ IHave \/ Check \/ TakeThis \/ PostDone \/ TransferDone \/ Rejected \/ DiscardRest
Serving == Bad \/ Info \/ Mode \/ List \/ NewNews \/ Quit \/ Reading \/ Authenticating \/ Posting

SessionNext ==
    \/ Serving
    \/ (\E c \in Sends : Send(c)) \/ SendArticle \/ Break \/ Configure

NoText == [lines |-> 0, ending |-> 0]

SessionInit ==
    /\ cfg \in Configs
    /\ wire = <<>>
    /\ expect = <<>>
    /\ invited = FALSE
    /\ strange = FALSE
    /\ pc = "cmd"
    /\ taken = [cmd |-> None, text |-> NoText]
    /\ eof = TRUE
    /\ priv = DefaultPriv
    /\ auth = None
    /\ login = None
    /\ tls = FALSE
    /\ group = FALSE

SessionSpec == SessionInit /\ [][SessionNext]_sessionVars

-----------------------------------------------------------------------------
(***************************************************************************)
(* Properties.                                                             *)
(***************************************************************************)

\* Every variable keeps its type.
SessionTypeOK ==
    /\ cfg \in Configs
    /\ wire \in Seq(Commands \cup {"line", "dot"})
    /\ expect \in Seq(Commands) /\ Len(expect) <= MaxAhead
    /\ invited \in BOOLEAN
    /\ strange \in BOOLEAN
    /\ pc \in {"cmd", "read", "discard", "closed"}
    /\ taken \in [cmd : Articles \cup {None}, text : ArticleTexts \cup {NoText}]
    /\ eof \in BOOLEAN
    /\ priv \subseteq {"r", "w"}
    /\ auth \in Accounts \cup {None}
    /\ login \in Accounts \cup {Unknown, None}
    /\ tls \in BOOLEAN
    /\ group \in BOOLEAN

\* The loop never reads a line of an article for a command ("implementers MUST
\* drain readers or bad things will happen", nntpprovider.go:102), and every
\* answer is one that the oldest command without an answer may get
\* (nntpprovider.go:36-112).
InStep ==
    /\ ~strange
    /\ pc = "cmd" /\ wire # <<>> => Head(wire) \in Commands

\* What a connection may do comes from the defaults, from TLS and from the one
\* account it is logged in to ("do not allow multiple authentications",
\* scmd_auth.go:75); and "if current group pointer set, reading was allowed
\* already" (scmd_read.go:142).
Entitled ==
    /\ priv = DefaultPriv \cup (IF tls THEN TLSPriv ELSE {})
                          \cup (IF auth = None THEN {} ELSE PrivOf[auth])
    /\ group => "r" \in priv
=============================================================================
