----------------------------- MODULE NNTPProofs -----------------------------
(***************************************************************************)
(* Proofs about the server's side of NNTP, and about what it reads with.   *)
(*                                                                         *)
(* NNTPSession, for any accounts, configurations and texts: what a         *)
(* connection may do, and that client and server stay together.  What is   *)
(* on the wire is described by its neighbours (Shape): what comes after    *)
(* TAKETHIS or a line is a line or the dot, and a line or a dot comes      *)
(* after one of these.  So where a text ends a command begins, and the     *)
(* commands on the wire are, in this order, those that the client has no   *)
(* answer of (Match).                                                      *)
(*                                                                         *)
(* Transfer, for any number of peers, any offers and any bounds: that what *)
(* is stored stays whole and that the answers are true.  TakenTrue is not  *)
(* inductive: that a row can be inserted depends on what the handler       *)
(* knows, which was looked up several steps ago.  Informed says what is    *)
(* still true of it: the group is there for ever; the thread that was      *)
(* found is there as it was, or somebody removed posts.                    *)
(*                                                                         *)
(* BufReader, for any bytes, buffers, lengths and delimiters: that what is *)
(* read is what was sent.  Flow says where every byte is and that an end   *)
(* is reported when nothing is left below; CallOK what the running call    *)
(* has so far; LastOK what the last one said, and that the byte of a       *)
(* ReadByte, which may be put back, is the last that was given.            *)
(*                                                                         *)
(* DotReader, for any bytes, buffers and wants and any number of blocks:   *)
(* that a block decodes to what its lines say.  BlockOK says what the      *)
(* characters of the block that were read became, what the state knows of  *)
(* the last of them, and that no end is among them before the state is     *)
(* EOF; a CR that waits for what follows it has been read and not decoded. *)
(***************************************************************************)
EXTENDS NNTPSession, Transfer, DotReader, FiniteSetTheorems, SequenceTheorems,
        WellFoundedInduction, TLAPS

\* A login has begun only where nobody is logged in.
EntitledInv ==
    /\ auth \in Accounts \cup {None} /\ login \in Accounts \cup {Unknown, None}
    /\ tls \in BOOLEAN /\ group \in BOOLEAN
    /\ login # None => auth = None
    /\ Entitled

Text == {"line", "dot"}
Units == Commands \cup Text

\* Texts are whole and follow TAKETHIS, or are the first on the wire.
Shape(w) ==
    \A k \in DOMAIN w :
        /\ w[k] \in {"TAKETHIS", "line"} => k + 1 \in DOMAIN w /\ w[k + 1] \in Text
        /\ k > 1 /\ w[k] \in Text => w[k - 1] \in {"TAKETHIS", "line"}

\* The commands in w are those of e, in this order.
Match(w, e) ==
    \E f \in [DOMAIN e -> DOMAIN w] :
        /\ \A i, j \in DOMAIN e : i < j => f[i] < f[j]
        /\ \A i \in DOMAIN e : w[f[i]] = e[i]
        /\ \A k \in DOMAIN w : w[k] \in Commands => \E i \in DOMAIN e : f[i] = k

AtCommand == wire # <<>> => wire[1] \in Commands
InText == wire # <<>> /\ wire[1] \in Text

\* The commands that have not been read.
Unread == IF pc = "read" THEN Tail(expect) ELSE expect

\* The client waits for the answers of these.
Waited == {"POST", "IHAVE", "STARTTLS", "QUIT"}

\* Where the server is on the wire.
PlaceOK ==
    /\ pc = "cmd" => AtCommand
    /\ pc = "discard" => IF eof THEN AtCommand ELSE InText
    /\ pc = "read" => expect # <<>> /\ expect[1] = taken.cmd
    /\ pc = "read" /\ taken.cmd = "TAKETHIS" => InText

\* The article that the client was told to send is alone on the wire.
InvitedOK ==
    /\ invited => pc = "read" /\ taken.cmd # "TAKETHIS"
    /\ pc = "read" /\ taken.cmd # "TAKETHIS" =>
          /\ Len(expect) = 1
          /\ invited => wire = <<>>
          /\ ~invited => taken.text \in ArticleTexts /\ wire = Lines(taken.text.lines)

TalkOK ==
    pc # "closed" =>
        /\ Shape(wire) /\ Match(wire, Unread)
        /\ PlaceOK /\ InvitedOK
        /\ \A k \in DOMAIN expect : expect[k] \in Waited => k = Len(expect)

TalkTypeOK ==
    /\ wire \in Seq(Units) /\ expect \in Seq(Sends)
    /\ invited \in BOOLEAN /\ eof \in BOOLEAN
    /\ pc \in {"cmd", "read", "discard", "closed"}
    /\ taken \in [cmd : Articles \cup {None}, text : ArticleTexts \cup {NoText}]
    /\ pc = "read" => taken.cmd \in Articles

TalkInv == TalkTypeOK /\ TalkOK /\ ~strange

\* Every article that is posted is read to its end.
ReadToEnd == "POST" \in Sends => \A t \in ArticleTexts : Asked(t) > t.lines
-----------------------------------------------------------------------------
(***************************************************************************)
(* What a connection may do.                                               *)
(***************************************************************************)

\* Most commands leave the user alone.
LEMMA UserKept ==
    ASSUME EntitledInv, UNCHANGED user
    PROVE  EntitledInv'
BY DEF EntitledInv, Entitled, user

\* A login where nobody was logged in.
LEMMA LoggedInEntitled ==
    ASSUME EntitledInv, NEW u \in Accounts, auth = None, LoggedIn(u), tls' = tls, group' = group,
           login' = None
    PROVE  EntitledInv'
<1>1. auth' = u /\ priv' = priv \cup PrivOf[u] /\ u # None
  BY SessionAssumption DEF LoggedIn
<1>2. QED
  BY <1>1 DEF EntitledInv, Entitled

LEMMA AuthUserEntitled == EntitledInv /\ AuthUser => EntitledInv'
<1> SUFFICES ASSUME EntitledInv, AuthUser PROVE EntitledInv'
  OBVIOUS
<1>1. tls' = tls /\ group' = group
  BY DEF AuthUser
<1>2. CASE login # None
  BY <1>1, <1>2 DEF AuthUser, EntitledInv, Entitled
<1>3. CASE login = None /\ UNCHANGED <<login, auth, priv>>
  BY <1>1, <1>3 DEF EntitledInv, Entitled
<1>4. CASE login = None /\ auth = None /\ \E u \in NoPass : LoggedIn(u) /\ UNCHANGED login
  BY <1>1, <1>4, SessionAssumption, LoggedInEntitled
<1>5. CASE /\ login = None /\ auth = None /\ UNCHANGED <<auth, priv>>
           /\ \E u \in Accounts \cup {Unknown} : login' = u
  BY <1>1, <1>5 DEF EntitledInv, Entitled
<1>6. QED
  BY <1>2, <1>3, <1>4, <1>5 DEF AuthUser

LEMMA AuthPassEntitled == EntitledInv /\ AuthPass => EntitledInv'
<1> SUFFICES ASSUME EntitledInv, AuthPass PROVE EntitledInv'
  OBVIOUS
<1>1. tls' = tls /\ group' = group /\ login' = None
  BY DEF AuthPass
<1>2. CASE login \in Accounts /\ LoggedIn(login)
  <2>1. auth = None
    BY <1>2, SessionAssumption DEF EntitledInv
  <2>2. QED
    BY <1>1, <1>2, <2>1, LoggedInEntitled
<1>3. CASE UNCHANGED <<auth, priv>>
  BY <1>1, <1>3 DEF EntitledInv, Entitled
<1>4. QED
  BY <1>2, <1>3 DEF AuthPass

LEMMA StartTLSEntitled == EntitledInv /\ StartTLS => EntitledInv'
<1> SUFFICES ASSUME EntitledInv, StartTLS PROVE EntitledInv'
  OBVIOUS
<1>1. CASE UNCHANGED user
  BY <1>1, UserKept
<1>2. CASE /\ ~tls /\ tls' = TRUE /\ group' = FALSE /\ priv' = priv \cup TLSPriv
           /\ UNCHANGED <<auth, login>>
  BY <1>2 DEF EntitledInv, Entitled
<1>3. QED
  BY <1>1, <1>2 DEF StartTLS

\* A group is entered by who may read.
LEMMA GroupEntitled == EntitledInv /\ Group => EntitledInv'
<1> SUFFICES ASSUME EntitledInv, Group PROVE EntitledInv'
  OBVIOUS
<1>1. UNCHANGED <<priv, auth, login, tls>>
  BY DEF Group
<1>2. group' = group \/ ("r" \in priv /\ group' = TRUE)
  BY DEF Group
<1>3. CASE group' = group
  BY <1>1, <1>3 DEF EntitledInv, Entitled
<1>4. CASE "r" \in priv /\ group' = TRUE
  BY <1>1, <1>4 DEF EntitledInv, Entitled
<1>5. QED
  BY <1>2, <1>3, <1>4

LEMMA EntitledStep == EntitledInv /\ [SessionNext]_sessionVars => EntitledInv'
<1> SUFFICES ASSUME EntitledInv, [SessionNext]_sessionVars PROVE EntitledInv'
  OBVIOUS
<1>1. CASE AuthUser
  BY <1>1, AuthUserEntitled
<1>2. CASE AuthPass
  BY <1>2, AuthPassEntitled
<1>3. CASE StartTLS
  BY <1>3, StartTLSEntitled
<1>4. CASE Group
  BY <1>4, GroupEntitled
<1>5. CASE Bad \/ Info \/ Mode \/ List \/ NewNews \/ Quit
  BY <1>5, UserKept DEF Bad, Info, Mode, List, NewNews, Quit, Answers
<1>6. CASE NextLast \/ ReadById \/ ReadInGroup
  BY <1>6, UserKept DEF NextLast, ReadById, ReadInGroup, Answers
<1>7. CASE Posting
  BY <1>7, UserKept DEF Posting, Post, IHave, Check, TakeThis, PostDone, TransferDone, Rejected,
                        DiscardRest, Answers
<1>8. CASE (\E c \in Sends : Send(c)) \/ SendArticle \/ Break \/ Configure
  BY <1>8, UserKept DEF Send, SendArticle, Break, Configure
<1>9. CASE UNCHANGED sessionVars
  BY <1>9, UserKept DEF sessionVars
<1>10. QED
  BY <1>1, <1>2, <1>3, <1>4, <1>5, <1>6, <1>7, <1>8, <1>9
     DEF SessionNext, Serving, Reading, Authenticating

\* What a connection may do comes from the defaults, from TLS and from one
\* account; who is in a group may read (AUTHINFO, STARTTLS, GROUP).
THEOREM PrivilegesFounded == SessionSpec => []Entitled
<1>1. SessionInit => EntitledInv
  BY SessionAssumption DEF SessionInit, EntitledInv, Entitled
<1>2. EntitledInv => Entitled
  BY DEF EntitledInv
<1>3. QED
  BY <1>1, <1>2, EntitledStep, PTL DEF SessionSpec
-----------------------------------------------------------------------------
(***************************************************************************)
(* The wire.                                                               *)
(***************************************************************************)

\* v is what is left of w after n units.
Left(w, v, n) ==
    /\ Len(v) = Len(w) - n
    /\ \A k \in 1 .. Len(v) : v[k] = w[k + n]

LEMMA TailLeft ==
    ASSUME NEW S, NEW w \in Seq(S), w # <<>>
    PROVE  Tail(w) \in Seq(S) /\ Left(w, Tail(w), 1) /\ Head(w) = w[1] /\ Len(w) \in Nat \ {0}
BY DEF Left

LEMMA AfterLeft ==
    ASSUME wire \in Seq(Units), NEW n \in 0 .. Len(wire)
    PROVE  After(n) \in Seq(Units) /\ Left(wire, After(n), n)
BY DEF After, Left

\* What is left of a well formed wire is well formed.
LEMMA ShapeLeft ==
    ASSUME NEW w \in Seq(Units), NEW v \in Seq(Units), NEW n \in Nat, Left(w, v, n), Shape(w)
    PROVE  Shape(v)
<1> SUFFICES ASSUME NEW k \in DOMAIN v
             PROVE  /\ v[k] \in {"TAKETHIS", "line"} => k + 1 \in DOMAIN v /\ v[k + 1] \in Text
                    /\ k > 1 /\ v[k] \in Text => v[k - 1] \in {"TAKETHIS", "line"}
  BY DEF Shape
<1>1. /\ DOMAIN v = 1 .. Len(v) /\ DOMAIN w = 1 .. Len(w) /\ Len(w) \in Nat /\ Len(v) \in Nat
      /\ Len(v) = Len(w) - n /\ k \in 1 .. Len(v) /\ k + n \in 1 .. Len(w)
      /\ v[k] = w[k + n]
  BY DEF Left
<1>2. ASSUME v[k] \in {"TAKETHIS", "line"}
      PROVE  k + 1 \in DOMAIN v /\ v[k + 1] \in Text
  <2>1. k + n + 1 \in DOMAIN w /\ w[k + n + 1] \in Text
    BY <1>1, <1>2 DEF Shape
  <2>2. k + 1 \in 1 .. Len(v) /\ (k + 1) + n = k + n + 1
    BY <1>1, <2>1
  <2>3. QED
    BY <1>1, <2>1, <2>2 DEF Left
<1>3. ASSUME k > 1, v[k] \in Text
      PROVE  v[k - 1] \in {"TAKETHIS", "line"}
  <2>1. w[(k + n) - 1] \in {"TAKETHIS", "line"}
    BY <1>1, <1>3 DEF Shape
  <2>2. k - 1 \in 1 .. Len(v) /\ (k - 1) + n = (k + n) - 1
    BY <1>1, <1>3
  <2>3. QED
    BY <2>1, <2>2 DEF Left
<1>4. QED
  BY <1>2, <1>3

\* Units that are no commands are of no account.
LEMMA MatchLeft ==
    ASSUME NEW w \in Seq(Units), NEW v \in Seq(Units), NEW n \in Nat, Left(w, v, n),
           NEW e \in Seq(Commands), Match(w, e), \A k \in 1 .. n : w[k] \notin Commands
    PROVE  Match(v, e)
<1>1. PICK f \in [DOMAIN e -> DOMAIN w] :
        /\ \A i, j \in DOMAIN e : i < j => f[i] < f[j]
        /\ \A i \in DOMAIN e : w[f[i]] = e[i]
        /\ \A k \in DOMAIN w : w[k] \in Commands => \E i \in DOMAIN e : f[i] = k
  BY DEF Match
<1>2. /\ DOMAIN v = 1 .. Len(v) /\ DOMAIN w = 1 .. Len(w) /\ Len(w) \in Nat /\ Len(v) \in Nat
      /\ Len(v) = Len(w) - n /\ DOMAIN e = 1 .. Len(e) /\ Len(e) \in Nat
  BY DEF Left
<1>3. \A i \in DOMAIN e : f[i] \in 1 .. Len(w) /\ f[i] > n
  <2>1. SUFFICES ASSUME NEW i \in DOMAIN e
                 PROVE  f[i] \in 1 .. Len(w) /\ f[i] > n
    OBVIOUS
  <2>2. f[i] \in 1 .. Len(w) /\ w[f[i]] \in Commands
    BY <1>1, <1>2
  <2>3. f[i] \notin 1 .. n
    BY <2>2
  <2>4. QED
    BY <2>2, <2>3
<1> DEFINE g == [i \in DOMAIN e |-> f[i] - n]
<1>4. g \in [DOMAIN e -> DOMAIN v]
  BY <1>2, <1>3
<1>5. \A i, j \in DOMAIN e : i < j => g[i] < g[j]
  BY <1>1, <1>2, <1>3
<1>6. \A i \in DOMAIN e : v[g[i]] = e[i]
  <2>1. SUFFICES ASSUME NEW i \in DOMAIN e
                 PROVE  v[g[i]] = e[i]
    OBVIOUS
  <2>2. f[i] - n \in 1 .. Len(v) /\ (f[i] - n) + n = f[i]
    BY <1>2, <1>3
  <2>3. QED
    BY <1>1, <2>2 DEF Left
<1>7. ASSUME NEW k \in DOMAIN v, v[k] \in Commands
      PROVE  \E i \in DOMAIN e : g[i] = k
  <2>1. k \in 1 .. Len(v) /\ k + n \in DOMAIN w /\ w[k + n] \in Commands
    <3>1. k \in 1 .. Len(v) /\ k + n \in DOMAIN w
      BY <1>2
    <3>2. v[k] = w[k + n]
      BY <3>1 DEF Left
    <3>3. QED
      BY <1>7, <3>1, <3>2
  <2>2. PICK i \in DOMAIN e : f[i] = k + n
    BY <1>1, <2>1
  <2>3. QED
    BY <2>1, <2>2
<1>8. QED
  BY <1>4, <1>5, <1>6, <1>7 DEF Match

\* The first command on the wire is the one that the client has waited for
\* longest.
LEMMA MatchTake ==
    ASSUME NEW w \in Seq(Units), w # <<>>, w[1] \in Commands, NEW e \in Seq(Commands), Match(w, e)
    PROVE  e # <<>> /\ e[1] = w[1] /\ Match(Tail(w), Tail(e))
<1>1. PICK f \in [DOMAIN e -> DOMAIN w] :
        /\ \A i, j \in DOMAIN e : i < j => f[i] < f[j]
        /\ \A i \in DOMAIN e : w[f[i]] = e[i]
        /\ \A k \in DOMAIN w : w[k] \in Commands => \E i \in DOMAIN e : f[i] = k
  BY DEF Match
<1>2. /\ DOMAIN w = 1 .. Len(w) /\ Len(w) \in Nat \ {0}
      /\ DOMAIN e = 1 .. Len(e) /\ Len(e) \in Nat
  OBVIOUS
<1>3. PICK i \in DOMAIN e : f[i] = 1
  BY <1>1, <1>2
<1>4. \A j \in DOMAIN e : f[j] \in 1 .. Len(w)
  BY <1>1, <1>2
<1>5. i = 1
  BY <1>1, <1>2, <1>3, <1>4
<1>6. e # <<>> /\ e[1] = w[1]
  BY <1>1, <1>3, <1>5
<1>7. \A j \in DOMAIN e : j # 1 => f[j] > 1
  BY <1>1, <1>2, <1>3, <1>4, <1>5
<1>8. /\ Tail(w) \in Seq(Units) /\ Left(w, Tail(w), 1)
      /\ Tail(e) \in Seq(Commands) /\ Left(e, Tail(e), 1)
  BY <1>6, TailLeft
<1> DEFINE v == Tail(w)
           d == Tail(e)
           g == [j \in DOMAIN d |-> f[j + 1] - 1]
<1>9. /\ DOMAIN v = 1 .. Len(v) /\ Len(v) = Len(w) - 1 /\ \A k \in 1 .. Len(v) : v[k] = w[k + 1]
      /\ DOMAIN d = 1 .. Len(d) /\ Len(d) = Len(e) - 1 /\ \A k \in 1 .. Len(d) : d[k] = e[k + 1]
      /\ Len(v) \in Nat /\ Len(d) \in Nat
  BY <1>8 DEF Left
<1> HIDE DEF v, d
<1>10. \A j \in DOMAIN d : j + 1 \in DOMAIN e /\ f[j + 1] - 1 \in 1 .. Len(v)
  BY <1>2, <1>4, <1>7, <1>9
<1>11. g \in [DOMAIN d -> DOMAIN v]
  BY <1>9, <1>10
<1>12. \A j, k \in DOMAIN d : j < k => g[j] < g[k]
  <2>1. SUFFICES ASSUME NEW j \in DOMAIN d, NEW k \in DOMAIN d, j < k
                 PROVE  f[j + 1] - 1 < f[k + 1] - 1
    OBVIOUS
  <2>2. f[j + 1] < f[k + 1]
    BY <1>1, <1>9, <1>10, <2>1
  <2>3. QED
    BY <1>4, <1>10, <2>2
<1>13. \A j \in DOMAIN d : v[g[j]] = d[j]
  <2>1. SUFFICES ASSUME NEW j \in DOMAIN d
                 PROVE  v[f[j + 1] - 1] = d[j]
    OBVIOUS
  <2>2. (f[j + 1] - 1) + 1 = f[j + 1]
    BY <1>4, <1>10
  <2>3. QED
    BY <1>1, <1>9, <1>10, <2>2
<1>14. ASSUME NEW k \in DOMAIN v, v[k] \in Commands
       PROVE  \E j \in DOMAIN d : g[j] = k
  <2>1. k + 1 \in DOMAIN w /\ w[k + 1] \in Commands
    BY <1>2, <1>9, <1>14
  <2>2. PICK j \in DOMAIN e : f[j] = k + 1
    BY <1>1, <2>1
  <2>3. j # 1
    BY <1>3, <1>5, <1>9, <2>2
  <2>4. j - 1 \in DOMAIN d /\ (j - 1) + 1 = j
    BY <1>2, <1>9, <2>3
  <2>5. QED
    BY <1>9, <2>2, <2>4
<1>15. Match(v, d)
  BY <1>11, <1>12, <1>13, <1>14 DEF Match
<1>16. QED
  BY <1>6, <1>15 DEF v, d

\* The client sends a command.
LEMMA MatchSend ==
    ASSUME NEW w \in Seq(Units), NEW e \in Seq(Commands), Match(w, e), NEW c \in Commands
    PROVE  Match(Append(w, c), Append(e, c))
<1>1. PICK f \in [DOMAIN e -> DOMAIN w] :
        /\ \A i, j \in DOMAIN e : i < j => f[i] < f[j]
        /\ \A i \in DOMAIN e : w[f[i]] = e[i]
        /\ \A k \in DOMAIN w : w[k] \in Commands => \E i \in DOMAIN e : f[i] = k
  BY DEF Match
<1> DEFINE v == Append(w, c)
           d == Append(e, c)
           g == [i \in DOMAIN d |-> IF i = Len(e) + 1 THEN Len(w) + 1 ELSE f[i]]
<1>2. /\ DOMAIN w = 1 .. Len(w) /\ Len(w) \in Nat /\ DOMAIN e = 1 .. Len(e) /\ Len(e) \in Nat
      /\ DOMAIN v = 1 .. Len(w) + 1 /\ DOMAIN d = 1 .. Len(e) + 1
      /\ v[Len(w) + 1] = c /\ d[Len(e) + 1] = c
      /\ \A k \in DOMAIN w : v[k] = w[k]
      /\ \A k \in DOMAIN e : d[k] = e[k]
  OBVIOUS
<1> HIDE DEF v, d
<1>3. \A i \in DOMAIN d : i # Len(e) + 1 => i \in DOMAIN e /\ f[i] \in 1 .. Len(w)
  BY <1>1, <1>2
<1>4. g \in [DOMAIN d -> DOMAIN v]
  BY <1>2, <1>3
<1>5. \A i, j \in DOMAIN d : i < j => g[i] < g[j]
  BY <1>1, <1>2, <1>3
<1>6. \A i \in DOMAIN d : v[g[i]] = d[i]
  BY <1>1, <1>2, <1>3
<1>7. \A k \in DOMAIN v : v[k] \in Commands => \E i \in DOMAIN d : g[i] = k
  <2>1. SUFFICES ASSUME NEW k \in DOMAIN v, v[k] \in Commands
                 PROVE  \E i \in DOMAIN d : g[i] = k
    OBVIOUS
  <2>2. CASE k = Len(w) + 1
    <3>1. Len(e) + 1 \in DOMAIN d /\ g[Len(e) + 1] = Len(w) + 1
      BY <1>2
    <3>2. QED
      BY <2>2, <3>1
  <2>3. CASE k # Len(w) + 1
    <3>1. k \in DOMAIN w /\ w[k] \in Commands
      BY <1>2, <2>1, <2>3
    <3>2. PICK i \in DOMAIN e : f[i] = k
      BY <1>1, <3>1
    <3>3. i \in DOMAIN d /\ i # Len(e) + 1
      BY <1>2
    <3>4. QED
      BY <3>2, <3>3
  <2>4. QED
    BY <2>2, <2>3
<1>8. Match(v, d)
  BY <1>4, <1>5, <1>6, <1>7 DEF Match
<1>9. QED
  BY <1>8 DEF v, d

\* A text is no command.
LEMMA MatchText ==
    ASSUME NEW w \in Seq(Units), NEW e \in Seq(Commands), Match(w, e), NEW l \in Seq(Text)
    PROVE  Match(w \o l, e)
<1>1. PICK f \in [DOMAIN e -> DOMAIN w] :
        /\ \A i, j \in DOMAIN e : i < j => f[i] < f[j]
        /\ \A i \in DOMAIN e : w[f[i]] = e[i]
        /\ \A k \in DOMAIN w : w[k] \in Commands => \E i \in DOMAIN e : f[i] = k
  BY DEF Match
<1> DEFINE v == w \o l
<1>2. /\ DOMAIN w = 1 .. Len(w) /\ Len(w) \in Nat /\ Len(l) \in Nat
      /\ DOMAIN v = 1 .. Len(w) + Len(l)
      /\ \A k \in DOMAIN w : v[k] = w[k]
      /\ \A k \in DOMAIN v : k \notin DOMAIN w => v[k] \in Text
  OBVIOUS
<1> HIDE DEF v
<1>3. Text \cap Commands = {}
  BY DEF Text, Commands, Articles
<1>4. f \in [DOMAIN e -> DOMAIN v]
  BY <1>2
<1>5. \A i \in DOMAIN e : v[f[i]] = e[i]
  BY <1>1, <1>2
<1>6. \A k \in DOMAIN v : v[k] \in Commands => \E i \in DOMAIN e : f[i] = k
  BY <1>1, <1>2, <1>3
<1>7. Match(v, e)
  BY <1>1, <1>4, <1>5, <1>6 DEF Match
<1>8. QED
  BY <1>7 DEF v

\* A text of n lines.
LEMMA LinesAre ==
    ASSUME NEW n \in Nat
    PROVE  /\ Lines(n) \in Seq(Text) /\ Lines(n) \in Seq(Units)
           /\ Len(Lines(n)) = n + 1 /\ Lines(n)[n + 1] = "dot"
           /\ \A k \in 1 .. n : Lines(n)[k] = "line"
<1> DEFINE l == [k \in 1 .. n |-> "line"]
<1>1. l \in Seq(Text) /\ Len(l) = n /\ <<"dot">> \in Seq(Text)
  BY DEF Text
<1> HIDE DEF l
<1>2. l \o <<"dot">> \in Seq(Text) /\ l \o <<"dot">> \in Seq(Units)
  BY <1>1 DEF Units
<1>3. Len(l \o <<"dot">>) = n + 1 /\ (l \o <<"dot">>)[n + 1] = "dot"
  BY <1>1
<1>4. \A k \in 1 .. n : (l \o <<"dot">>)[k] = l[k] /\ l[k] = "line"
  <2>1. \A k \in 1 .. n : l[k] = "line"
    BY DEF l
  <2>2. QED
    BY <1>1, <2>1
<1>5. QED
  BY <1>2, <1>3, <1>4 DEF Lines, l

\* It may be sent alone.
LEMMA ShapeLines ==
    ASSUME NEW n \in Nat
    PROVE  Shape(Lines(n)) /\ Lines(n) # <<>> /\ Lines(n)[1] \in Text
<1>1. /\ Lines(n) \in Seq(Text) /\ DOMAIN Lines(n) = 1 .. n + 1 /\ Lines(n)[n + 1] = "dot"
      /\ \A k \in 1 .. n : Lines(n)[k] = "line"
  BY LinesAre
<1>2. \A k \in 1 .. n + 1 : Lines(n)[k] \in Text
  BY <1>1
<1>3. ASSUME NEW k \in 1 .. n + 1, Lines(n)[k] \in {"TAKETHIS", "line"}
      PROVE  k + 1 \in 1 .. n + 1 /\ Lines(n)[k + 1] \in Text
  <2>1. k # n + 1
    BY <1>1, <1>3
  <2>2. QED
    BY <1>2, <2>1
<1>4. ASSUME NEW k \in 1 .. n + 1, k > 1
      PROVE  Lines(n)[k - 1] \in {"TAKETHIS", "line"}
  BY <1>1, <1>4
<1>5. QED
  BY <1>1, <1>2, <1>3, <1>4 DEF Shape

\* The client sends a command without a text.
LEMMA ShapeSend ==
    ASSUME NEW w \in Seq(Units), Shape(w), NEW c \in Commands, c # "TAKETHIS"
    PROVE  Shape(Append(w, c))
<1> DEFINE v == Append(w, c)
<1>1. /\ DOMAIN w = 1 .. Len(w) /\ Len(w) \in Nat
      /\ DOMAIN v = 1 .. Len(w) + 1 /\ v[Len(w) + 1] = c
      /\ \A k \in DOMAIN w : v[k] = w[k]
  OBVIOUS
<1>2. c \notin {"TAKETHIS", "line"} /\ c \notin Text
  BY DEF Commands, Articles, Text
<1> HIDE DEF v
<1>3. ASSUME NEW k \in DOMAIN v, v[k] \in {"TAKETHIS", "line"}
      PROVE  k + 1 \in DOMAIN v /\ v[k + 1] \in Text
  <2>1. k \in DOMAIN w
    BY <1>1, <1>2, <1>3
  <2>2. QED
    BY <1>1, <1>3, <2>1 DEF Shape
<1>4. ASSUME NEW k \in DOMAIN v, k > 1, v[k] \in Text
      PROVE  v[k - 1] \in {"TAKETHIS", "line"}
  <2>1. k \in DOMAIN w
    BY <1>1, <1>2, <1>4
  <2>2. w[k - 1] \in {"TAKETHIS", "line"} /\ k - 1 \in DOMAIN w
    BY <1>1, <1>4, <2>1 DEF Shape
  <2>3. QED
    BY <1>1, <2>2
<1>5. Shape(v)
  BY <1>3, <1>4 DEF Shape
<1>6. QED
  BY <1>5 DEF v

\* TAKETHIS and its text.
LEMMA ShapeTakeThis ==
    ASSUME NEW w \in Seq(Units), Shape(w), NEW n \in Nat
    PROVE  Shape(Append(w, "TAKETHIS") \o Lines(n))
<1> DEFINE l == Lines(n)
           v == Append(w, "TAKETHIS") \o l
           m == Len(w)
<1>1. /\ l \in Seq(Text) /\ Len(l) = n + 1 /\ DOMAIN l = 1 .. n + 1
      /\ Shape(l) /\ l[1] \in Text /\ l[n + 1] = "dot"
  BY LinesAre, ShapeLines
<1>2. \A k \in 1 .. n + 1 : l[k] \in Text
  BY <1>1
<1> HIDE DEF l
<1>3. "TAKETHIS" \in Units
  BY DEF Units, Commands, Articles
<1>4. /\ DOMAIN w = 1 .. m /\ m \in Nat
      /\ Append(w, "TAKETHIS") \in Seq(Units) /\ Len(Append(w, "TAKETHIS")) = m + 1
      /\ DOMAIN v = 1 .. (m + 1) + (n + 1)
      /\ v[m + 1] = "TAKETHIS"
      /\ \A k \in 1 .. m : v[k] = w[k]
      /\ \A k \in 1 .. n + 1 : v[(m + 1) + k] = l[k]
  BY <1>1, <1>3
<1> HIDE DEF v, m
<1>5. ASSUME NEW k \in DOMAIN v, k > m + 1
      PROVE  k - (m + 1) \in 1 .. n + 1 /\ v[k] = l[k - (m + 1)]
  <2>1. k - (m + 1) \in 1 .. n + 1 /\ (m + 1) + (k - (m + 1)) = k
    BY <1>4, <1>5
  <2>2. QED
    BY <1>4, <2>1
<1>6. ASSUME NEW k \in DOMAIN v, v[k] \in {"TAKETHIS", "line"}
      PROVE  k + 1 \in DOMAIN v /\ v[k + 1] \in Text
  <2>1. CASE k \in 1 .. m
    <3>1. k + 1 \in 1 .. m /\ w[k + 1] \in Text
      BY <1>4, <1>6, <2>1 DEF Shape
    <3>2. QED
      BY <1>4, <3>1
  <2>2. CASE k = m + 1
    <3>1. k + 1 \in DOMAIN v /\ k + 1 = (m + 1) + 1 /\ 1 \in 1 .. n + 1
      BY <1>4, <2>2
    <3>2. QED
      BY <1>1, <1>4, <3>1
  <2>3. CASE k > m + 1
    <3>1. k # (m + 1) + (n + 1)
      BY <1>1, <1>4, <1>5, <1>6, <2>3
    <3>2. k + 1 \in DOMAIN v /\ k + 1 > m + 1
      BY <1>4, <2>3, <3>1
    <3>3. QED
      BY <1>2, <1>5, <3>2
  <2>4. QED
    BY <1>4, <2>1, <2>2, <2>3
<1>7. ASSUME NEW k \in DOMAIN v, k > 1, v[k] \in Text
      PROVE  v[k - 1] \in {"TAKETHIS", "line"}
  <2>1. CASE k \in 1 .. m
    <3>1. w[k - 1] \in {"TAKETHIS", "line"} /\ k - 1 \in 1 .. m
      BY <1>4, <1>7, <2>1 DEF Shape
    <3>2. QED
      BY <1>4, <3>1
  <2>2. k # m + 1
    BY <1>4, <1>7 DEF Text
  <2>3. CASE k = (m + 1) + 1
    <3>1. k - 1 = m + 1
      BY <1>4, <2>3
    <3>2. QED
      BY <1>4, <3>1
  <2>4. CASE k > (m + 1) + 1
    <3> DEFINE j == k - (m + 1)
    <3>1. j \in 1 .. n + 1 /\ j > 1 /\ l[j] \in Text
      BY <1>2, <1>4, <1>5, <2>4
    <3>2. l[j - 1] \in {"TAKETHIS", "line"}
      BY <1>1, <3>1 DEF Shape
    <3>3. k - 1 \in DOMAIN v /\ k - 1 > m + 1 /\ (k - 1) - (m + 1) = j - 1
      BY <1>4, <2>4
    <3>4. QED
      BY <1>5, <3>2, <3>3
  <2>5. QED
    BY <1>4, <2>1, <2>2, <2>3, <2>4
<1>8. Shape(v)
  BY <1>6, <1>7 DEF Shape
<1>9. QED
  BY <1>8 DEF v, l

\* A set of natural numbers that is not empty has a least one.
LEMMA HasLeast ==
    ASSUME NEW S, S \subseteq Nat, S # {}
    PROVE  \E x \in S : \A y \in S : x <= y
<1>1. IsWellFoundedOn(OpToRel(<, Nat), Nat)
  BY NatLessThanWellFounded
<1>2. PICK x \in S : \A y \in S : <<y, x>> \notin OpToRel(<, Nat)
  BY <1>1, WFMin
<1>3. \A y \in S : ~(y < x)
  BY <1>2 DEF OpToRel
<1>4. QED
  BY <1>3

\* A text that is read has lines, then the dot.
LEMMA RemainingIs ==
    ASSUME wire \in Seq(Units), Shape(wire), InText, Arrived
    PROVE  /\ Remaining \in 0 .. Len(wire) - 1
           /\ wire[Remaining + 1] = "dot"
           /\ \A k \in 1 .. Remaining : wire[k] = "line"
<1>1. DOMAIN wire = 1 .. Len(wire) /\ Len(wire) \in Nat \ {0} /\ wire[1] \in Text
  BY DEF InText
<1> DEFINE S == {k \in 1 .. Len(wire) : wire[k] # "line"}
<1>2. S \subseteq Nat /\ S # {}
  BY DEF Arrived
<1>3. PICK m \in S : \A k \in S : m <= k
  BY <1>2, HasLeast
<1>4. m \in 1 .. Len(wire) /\ \A k \in 1 .. m - 1 : wire[k] = "line"
  BY <1>1, <1>3
<1>5. wire[m] = "dot"
  <2>1. CASE m = 1
    BY <1>1, <1>3, <2>1 DEF Text
  <2>2. CASE m > 1
    <3>1. m - 1 \in DOMAIN wire /\ wire[m - 1] = "line" /\ (m - 1) + 1 = m
      BY <1>1, <1>4, <2>2
    <3>2. wire[m] \in Text
      BY <3>1 DEF Shape
    <3>3. QED
      BY <1>3, <3>2 DEF Text
  <2>3. QED
    BY <1>4, <2>1, <2>2
<1>6. \E n \in 0 .. Len(wire) - 1 : wire[n + 1] = "dot" /\ \A k \in 1 .. n : wire[k] = "line"
  <2>1. m - 1 \in 0 .. Len(wire) - 1 /\ (m - 1) + 1 = m
    BY <1>1, <1>4
  <2>2. QED
    BY <1>4, <1>5, <2>1
<1>7. QED
  BY <1>6 DEF Remaining

\* A text is read up to some line, or to its dot.
LEMMA ReadUpTo ==
    ASSUME wire \in Seq(Units), Shape(wire), InText, Arrived, NEW e \in Seq(Commands), Match(wire, e),
           NEW m \in 0 .. Remaining + 1, wire' = After(m)
    PROVE  /\ wire' \in Seq(Units) /\ Shape(wire') /\ Match(wire', e)
           /\ m = Remaining + 1 => AtCommand'
           /\ m # Remaining + 1 => InText'
<1>1. /\ Remaining \in 0 .. Len(wire) - 1 /\ wire[Remaining + 1] = "dot"
      /\ \A k \in 1 .. Remaining : wire[k] = "line"
      /\ Len(wire) \in Nat /\ DOMAIN wire = 1 .. Len(wire)
  BY RemainingIs
<1>2. m \in 0 .. Len(wire) /\ m \in Nat
  BY <1>1
<1>4. wire' \in Seq(Units) /\ Left(wire, wire', m)
  BY <1>2, AfterLeft
<1>5. Shape(wire')
  BY <1>2, <1>4, ShapeLeft
<1>6. \A k \in 1 .. m : wire[k] \notin Commands
  <2>1. \A k \in 1 .. m : wire[k] \in Text
    BY <1>1, <1>2 DEF Text
  <2>2. Text \cap Commands = {}
    BY DEF Text, Commands, Articles
  <2>3. QED
    BY <2>1, <2>2
<1>7. Match(wire', e)
  BY <1>2, <1>4, <1>6, MatchLeft
<1>8. Len(wire') = Len(wire) - m /\ \A k \in 1 .. Len(wire') : wire'[k] = wire[k + m]
  BY <1>4 DEF Left
<1>9. ASSUME m = Remaining + 1, wire' # <<>>
      PROVE  wire'[1] \in Commands
  <2>1. 1 \in 1 .. Len(wire') /\ m + 1 \in DOMAIN wire /\ 1 + m = m + 1
    BY <1>1, <1>2, <1>4, <1>8, <1>9
  <2>2. wire'[1] = wire[m + 1] /\ wire[m + 1] \in Units
    BY <1>8, <2>1
  <2>3. wire[m] = "dot" /\ (m + 1) - 1 = m /\ m + 1 > 1
    BY <1>1, <1>9, <2>1
  <2>4. wire[m + 1] \notin Text
    BY <2>1, <2>3 DEF Shape
  <2>5. QED
    BY <2>2, <2>4 DEF Units
<1>10. ASSUME m # Remaining + 1
       PROVE  wire' # <<>> /\ wire'[1] \in Text
  <2>1. Len(wire') > 0 /\ m + 1 \in 1 .. Remaining + 1 /\ 1 + m = m + 1
    BY <1>1, <1>2, <1>8, <1>10
  <2>2. 1 \in 1 .. Len(wire') /\ wire' # <<>>
    BY <1>4, <2>1
  <2>3. wire'[1] = wire[m + 1]
    BY <1>8, <2>1, <2>2
  <2>4. wire[m + 1] \in Text
    <3>1. CASE m = Remaining
      BY <1>1, <3>1 DEF Text
    <3>2. CASE m # Remaining
      <4>1. m + 1 \in 1 .. Remaining
        BY <1>1, <1>2, <2>1, <3>2
      <4>2. QED
        BY <1>1, <4>1 DEF Text
    <3>3. QED
      BY <3>1, <3>2
  <2>5. QED
    BY <2>2, <2>3, <2>4
<1>11. QED
  BY <1>4, <1>5, <1>7, <1>9, <1>10 DEF AtCommand, InText

\* The reader is at its end when the dot has been read.
LEMMA ReadOn ==
    ASSUME wire \in Seq(Units), Shape(wire), InText, Arrived, NEW e \in Seq(Commands), Match(wire, e),
           NEW n, n > Remaining \/ n \in Nat, ReadsOn(n)
    PROVE  /\ wire' \in Seq(Units) /\ Shape(wire') /\ Match(wire', e)
           /\ eof' \in BOOLEAN
           /\ n > Remaining => eof' = TRUE
           /\ eof' => AtCommand'
           /\ ~eof' => InText'
<1>1. Remaining \in Nat
  BY RemainingIs
<1>2. CASE n > Remaining
  <2>1. (n > Remaining) = TRUE
    BY <1>2
  <2>2. wire' = After(Remaining + 1) /\ eof' = TRUE
    BY <1>2, <2>1, Zenon DEF ReadsOn, Consumed
  <2>3. Remaining + 1 \in 0 .. Remaining + 1
    BY <1>1
  <2>4. wire' \in Seq(Units) /\ Shape(wire') /\ Match(wire', e) /\ AtCommand'
    BY <2>2, <2>3, ReadUpTo
  <2>5. QED
    BY <2>2, <2>4
<1>3. CASE ~(n > Remaining)
  <2>1. (n > Remaining) = FALSE
    BY <1>3
  <2>2. wire' = After(n) /\ eof' = FALSE
    BY <1>3, <2>1, Zenon DEF ReadsOn, Consumed
  <2>3. n \in 0 .. Remaining + 1 /\ n # Remaining + 1
    BY <1>1, <1>3
  <2>4. wire' \in Seq(Units) /\ Shape(wire') /\ Match(wire', e) /\ InText'
    BY <2>2, <2>3, ReadUpTo
  <2>5. QED
    BY <1>3, <2>2, <2>4
<1>4. QED
  BY <1>2, <1>3
-----------------------------------------------------------------------------
(***************************************************************************)
(* Commands.                                                               *)
(***************************************************************************)

\* Types of what is read often.
LEMMA TalkTypes ==
    ASSUME TalkInv
    PROVE  /\ wire \in Seq(Units) /\ expect \in Seq(Commands) /\ expect \in Seq(Sends)
           /\ Len(expect) \in Nat /\ DOMAIN expect = 1 .. Len(expect)
           /\ pc \in {"cmd", "read", "discard", "closed"}
BY SessionAssumption DEF TalkInv, TalkTypeOK

\* The loop takes a command: it is the one that has waited longest.
LEMMA Taken ==
    ASSUME TalkInv, NEW c \in Units, Takes(c)
    PROVE  /\ c \in Commands /\ pc = "cmd"
           /\ expect # <<>> /\ Head(expect) = c /\ expect[1] = c
           /\ Tail(expect) \in Seq(Sends) /\ Tail(expect) \in Seq(Commands)
           /\ Left(expect, Tail(expect), 1)
           /\ wire' \in Seq(Units) /\ Shape(wire') /\ Match(wire', Tail(expect))
           /\ c = "TAKETHIS" => InText'
           /\ c # "TAKETHIS" => AtCommand'
           /\ ~invited
<1>1. /\ pc = "cmd" /\ wire # <<>> /\ Head(wire) = c /\ wire' = Tail(wire)
      /\ wire \in Seq(Units) /\ expect \in Seq(Commands) /\ expect \in Seq(Sends)
  BY TalkTypes DEF Takes
<1>2. wire' \in Seq(Units) /\ Left(wire, wire', 1) /\ wire[1] = c /\ Len(wire) \in Nat \ {0}
  BY <1>1, TailLeft
<1>3. /\ Shape(wire) /\ Match(wire, expect) /\ AtCommand /\ ~invited
  BY <1>1 DEF TalkInv, TalkOK, PlaceOK, InvitedOK, Unread
<1>4. c \in Commands
  BY <1>1, <1>2, <1>3 DEF AtCommand
<1>5. expect # <<>> /\ expect[1] = c /\ Match(wire', Tail(expect))
  BY <1>1, <1>2, <1>3, <1>4, MatchTake
<1>6. /\ Tail(expect) \in Seq(Sends) /\ Tail(expect) \in Seq(Commands)
      /\ Left(expect, Tail(expect), 1) /\ Head(expect) = c
  BY <1>1, <1>5, TailLeft
<1>7. Shape(wire')
  BY <1>1, <1>2, <1>3, ShapeLeft
<1>8. Len(wire') = Len(wire) - 1 /\ \A k \in 1 .. Len(wire') : wire'[k] = wire[k + 1]
  BY <1>2 DEF Left
<1>9. ASSUME wire' # <<>>
      PROVE  2 \in DOMAIN wire /\ wire'[1] = wire[2] /\ wire[2] \in Units
  <2>1. Len(wire') >= 1 /\ Len(wire') \in Nat
    BY <1>2, <1>9
  <2>2. 2 \in DOMAIN wire /\ 1 \in 1 .. Len(wire') /\ 1 + 1 = 2
    BY <1>1, <1>2, <1>8, <2>1
  <2>3. QED
    BY <1>1, <1>8, <2>2
<1>10. ASSUME c = "TAKETHIS"
       PROVE  InText'
  <2>1. 1 \in DOMAIN wire /\ 1 + 1 = 2
    BY <1>1, <1>2
  <2>2. 2 \in DOMAIN wire /\ wire[2] \in Text
    BY <1>2, <1>3, <1>10, <2>1 DEF Shape
  <2>3. Len(wire') >= 1 /\ Len(wire') \in Nat
    BY <1>1, <1>2, <1>8, <2>2
  <2>4. wire' # <<>> /\ 1 \in 1 .. Len(wire')
    BY <1>2, <2>3
  <2>5. QED
    BY <1>9, <2>2, <2>4 DEF InText
<1>11. ASSUME c # "TAKETHIS"
       PROVE  AtCommand'
  <2>1. SUFFICES ASSUME wire' # <<>>
                 PROVE  wire'[1] \in Commands
    BY DEF AtCommand
  <2>2. c # "line"
    BY <1>4 DEF Commands, Articles
  <2>3. 2 > 1 /\ 2 - 1 = 1
    OBVIOUS
  <2>4. wire[2] \notin Text
    BY <1>2, <1>3, <1>9, <1>11, <2>1, <2>2, <2>3 DEF Shape
  <2>5. QED
    BY <1>9, <2>1, <2>4 DEF Units
<1>12. QED
  BY <1>1, <1>2, <1>3, <1>4, <1>5, <1>6, <1>7, <1>10, <1>11

\* nntpprovider.go.
LEMMA CodesAre ==
    /\ Codes["INFO"] = {100, 101, 111, 202, 205, 215} /\ Codes["MODE"] = {200, 201}
    /\ Codes["STREAM"] = {203} /\ Codes["LIST"] = {215, 282} /\ Codes["NEW"] = {230, 231}
    /\ Codes["GROUP"] = {211, 411} /\ Codes["LISTGROUP"] = {211, 411, 412}
    /\ Codes["NEXT"] = {223, 412, 420, 421} /\ Codes["LAST"] = {223, 412, 420, 422}
    /\ Codes["READ"] = {220, 221, 222, 223, 224, 225, 430}
    /\ Codes["CURR"] = {220, 221, 222, 223, 224, 225, 412, 420, 423}
    /\ Codes["USER"] = {281, 381, 481, 482, 483} /\ Codes["PASS"] = {281, 481, 482, 483}
    /\ Codes["STARTTLS"] = {382, 580} /\ Codes["QUIT"] = {205}
    /\ Codes["CHECK"] = {238, 431, 438} /\ Codes["POST"] = {240, 440, 441}
    /\ Codes["IHAVE"] = {235, 435, 436, 437} /\ Codes["TAKETHIS"] = {239, 439}
BY DEF Codes, Commands, Articles

\* A final answer that fits.
LEMMA HeardFits ==
    ASSUME TalkInv, expect # <<>>, NEW code, Heard(code), Fits(code, Head(expect))
    PROVE  expect' = Tail(expect) /\ ~strange' /\ invited' = FALSE
<1>1. ~strange
  BY DEF TalkInv
<1>2. expect' = Tail(expect) /\ invited' = FALSE
  BY DEF Heard
<1>3. strange' = (strange \/ ~Fits(code, Head(expect)))
  BY DEF Heard
<1>4. ~strange'
  BY <1>1, <1>3
<1>5. QED
  BY <1>2, <1>4

\* What the client waits for is still the last.
WaitOK(e) == \A k \in DOMAIN e : e[k] \in Waited => k = Len(e)

LEMMA WaitLeft ==
    ASSUME NEW e \in Seq(Commands), NEW d \in Seq(Commands), Left(e, d, 1), WaitOK(e)
    PROVE  WaitOK(d)
<1>1. /\ DOMAIN d = 1 .. Len(d) /\ Len(d) = Len(e) - 1 /\ Len(e) \in Nat /\ Len(d) \in Nat
      /\ DOMAIN e = 1 .. Len(e)
  BY DEF Left
<1>2. SUFFICES ASSUME NEW k \in DOMAIN d, d[k] \in Waited
               PROVE  k = Len(d)
  BY DEF WaitOK
<1>3. k + 1 \in DOMAIN e /\ d[k] = e[k + 1]
  BY <1>1 DEF Left
<1>4. k + 1 = Len(e)
  BY <1>2, <1>3 DEF WaitOK
<1>5. QED
  BY <1>1, <1>4

\* A command is answered, and the loop goes on or ends.
LEMMA Replied ==
    ASSUME TalkInv, NEW c \in Units, Takes(c), c # "TAKETHIS",
           NEW code, Heard(code), Fits(code, c),
           pc' \in {"cmd", "closed"}, UNCHANGED <<taken, eof>>
    PROVE  TalkInv'
<1>1. /\ expect # <<>> /\ Head(expect) = c /\ pc = "cmd"
      /\ Tail(expect) \in Seq(Sends) /\ Tail(expect) \in Seq(Commands) /\ Left(expect, Tail(expect), 1)
      /\ wire' \in Seq(Units) /\ Shape(wire') /\ Match(wire', Tail(expect)) /\ AtCommand'
  BY Taken
<1>2. expect' = Tail(expect) /\ ~strange' /\ invited' = FALSE
  BY <1>1, HeardFits
<1>3. TalkTypeOK'
  BY <1>1, <1>2 DEF TalkInv, TalkTypeOK
<1>4. WaitOK(expect')
  <2>1. WaitOK(expect)
    BY <1>1 DEF TalkInv, TalkOK, WaitOK
  <2>2. QED
    BY <1>1, <1>2, <2>1, WaitLeft, TalkTypes
<1>5. TalkOK'
  <2>1. SUFFICES ASSUME pc' = "cmd" PROVE TalkOK'
    BY DEF TalkOK
  <2>2. Unread' = expect'
    BY <2>1 DEF Unread
  <2>3. PlaceOK' /\ InvitedOK'
    BY <1>1, <1>2, <2>1 DEF PlaceOK, InvitedOK
  <2>4. QED
    BY <1>1, <1>2, <1>4, <2>2, <2>3 DEF TalkOK, WaitOK
<1>6. QED
  BY <1>2, <1>3, <1>5 DEF TalkInv

\* One that is answered at once.
LEMMA Answered ==
    ASSUME TalkInv, NEW c \in Units, Takes(c), c # "TAKETHIS",
           NEW codes, Answers(codes), \A code \in codes : Fits(code, c)
    PROVE  TalkInv'
<1>1. PICK code \in codes : Heard(code)
  BY DEF Answers
<1>2. pc' = pc /\ UNCHANGED <<taken, eof>>
  BY DEF Answers, task
<1>3. pc = "cmd"
  BY DEF Takes
<1>4. QED
  BY <1>1, <1>2, <1>3, Replied

LEMMA UnitsAre ==
    /\ {"INFO", "MODE", "STREAM", "LIST", "NEW", "GROUP", "LISTGROUP", "NEXT", "LAST", "READ",
        "CURR", "USER", "PASS", "STARTTLS", "QUIT", "CHECK", "BAD", "line", "dot",
        "POST", "IHAVE", "TAKETHIS"} \subseteq Units
    /\ Commands \subseteq Units
BY DEF Units, Commands, Articles, Text

LEMMA BadTalk == TalkInv /\ Bad => TalkInv'
<1> SUFFICES ASSUME TalkInv, Bad PROVE TalkInv'
  OBVIOUS
<1>1. PICK c \in {"BAD", "line", "dot"} : Takes(c) /\ Answers({500, 501})
  BY DEF Bad
<1>2. \A code \in {500, 501} : Fits(code, c)
  BY DEF Fits, Generic
<1>3. QED
  BY <1>1, <1>2, UnitsAre, Answered

LEMMA InfoTalk == TalkInv /\ (Info \/ Mode \/ List \/ NewNews) => TalkInv'
<1> SUFFICES ASSUME TalkInv, Info \/ Mode \/ List \/ NewNews PROVE TalkInv'
  OBVIOUS
<1>1. CASE Info
  BY <1>1, UnitsAre, Answered, CodesAre DEF Info, Fits, Generic
<1>2. CASE Mode
  <2>1. CASE Takes("MODE")
    BY <1>2, <2>1, UnitsAre, Answered, CodesAre DEF Mode, Fits, Generic, Takes
  <2>2. CASE Takes("STREAM")
    BY <1>2, <2>2, UnitsAre, Answered, CodesAre DEF Mode, Fits, Generic, Takes
  <2>3. QED
    BY <1>2, <2>1, <2>2 DEF Mode
<1>3. CASE List
  BY <1>3, UnitsAre, Answered, CodesAre DEF List, Fits, Generic
<1>4. CASE NewNews
  BY <1>4, UnitsAre, Answered, CodesAre DEF NewNews, Fits, Generic
<1>5. QED
  BY <1>1, <1>2, <1>3, <1>4

LEMMA ReadingTalk == TalkInv /\ (NextLast \/ ReadById \/ ReadInGroup \/ Check) => TalkInv'
<1> SUFFICES ASSUME TalkInv, NextLast \/ ReadById \/ ReadInGroup \/ Check PROVE TalkInv'
  OBVIOUS
<1>1. CASE NextLast
  <2>1. CASE Takes("NEXT")
    BY <1>1, <2>1, UnitsAre, Answered, CodesAre DEF NextLast, Fits, Generic, Takes
  <2>2. CASE Takes("LAST")
    BY <1>1, <2>2, UnitsAre, Answered, CodesAre DEF NextLast, Fits, Generic, Takes
  <2>3. QED
    BY <1>1, <2>1, <2>2 DEF NextLast
<1>2. CASE ReadById
  BY <1>2, UnitsAre, Answered, CodesAre DEF ReadById, Fits, Generic
<1>3. CASE ReadInGroup
  BY <1>3, UnitsAre, Answered, CodesAre DEF ReadInGroup, Fits, Generic
<1>4. CASE Check
  BY <1>4, UnitsAre, Answered, CodesAre DEF Check, Fits, Generic
<1>5. QED
  BY <1>1, <1>2, <1>3, <1>4

LEMMA GroupTalk == TalkInv /\ (Group \/ Quit) => TalkInv'
<1> SUFFICES ASSUME TalkInv, Group \/ Quit PROVE TalkInv'
  OBVIOUS
<1>1. CASE Group
  <2>1. pc' = pc /\ UNCHANGED <<taken, eof>>
    BY <1>1 DEF Group, task
  <2>2. CASE Takes("GROUP")
    <3>1. \E code \in {480, 211, 411, 403, 501} : Heard(code)
      BY <1>1, <2>2 DEF Group, Takes
    <3>2. \A code \in {480, 211, 411, 403, 501} : Fits(code, "GROUP")
      BY CodesAre DEF Fits, Generic
    <3>3. QED
      BY <2>1, <2>2, <3>1, <3>2, UnitsAre, Replied DEF Takes
  <2>3. CASE Takes("LISTGROUP")
    <3>1. \E code \in {480, 211, 411, 403, 501} : Heard(code)
      BY <1>1, <2>3 DEF Group, Takes
    <3>2. \A code \in {480, 211, 411, 403, 501} : Fits(code, "LISTGROUP")
      BY CodesAre DEF Fits, Generic
    <3>3. QED
      BY <2>1, <2>3, <3>1, <3>2, UnitsAre, Replied DEF Takes
  <2>4. QED
    BY <1>1, <2>2, <2>3 DEF Group
<1>2. CASE Quit
  <2>1. Fits(205, "QUIT")
    BY CodesAre DEF Fits
  <2>2. QED
    BY <1>2, <2>1, UnitsAre, Replied DEF Quit
<1>3. QED
  BY <1>1, <1>2

LEMMA AuthTalk == TalkInv /\ Authenticating => TalkInv'
<1> SUFFICES ASSUME TalkInv, Authenticating PROVE TalkInv'
  OBVIOUS
<1>1. CASE AuthUser
  <2>1. pc' = pc /\ UNCHANGED <<taken, eof>> /\ Takes("USER")
    BY <1>1 DEF AuthUser, task
  <2>2. \E code \in {482, 502, 503, 483, 481, 281, 381} : Heard(code)
    BY <1>1 DEF AuthUser, LoggedIn
  <2>3. \A code \in {482, 502, 503, 483, 481, 281, 381} : Fits(code, "USER")
    BY CodesAre DEF Fits, Generic
  <2>4. QED
    BY <2>1, <2>2, <2>3, UnitsAre, Replied DEF Takes
<1>2. CASE AuthPass
  <2>1. pc' = pc /\ UNCHANGED <<taken, eof>> /\ Takes("PASS")
    BY <1>2 DEF AuthPass, task
  <2>2. \E code \in {281, 481, 502, 503, 483, 482} : Heard(code)
    BY <1>2 DEF AuthPass, LoggedIn
  <2>3. \A code \in {281, 481, 502, 503, 483, 482} : Fits(code, "PASS")
    BY CodesAre DEF Fits, Generic
  <2>4. QED
    BY <2>1, <2>2, <2>3, UnitsAre, Replied DEF Takes
<1>3. CASE StartTLS
  <2>1. pc' \in {pc, "closed"} /\ UNCHANGED <<taken, eof>> /\ Takes("STARTTLS")
    BY <1>3 DEF StartTLS
  <2>2. \E code \in {580, 502, 382} : Heard(code)
    BY <1>3 DEF StartTLS
  <2>3. \A code \in {580, 502, 382} : Fits(code, "STARTTLS")
    BY CodesAre DEF Fits, Generic
  <2>4. QED
    BY <2>1, <2>2, <2>3, UnitsAre, Replied DEF Takes
<1>4. QED
  BY <1>1, <1>2, <1>3 DEF Authenticating
-----------------------------------------------------------------------------
(***************************************************************************)
(* Articles.                                                               *)
(***************************************************************************)

\* The client is told to send its article: it has sent nothing else.
LEMMA InviteTalk ==
    ASSUME TalkInv, NEW c \in {"POST", "IHAVE"}, Takes(c), Invite(c)
    PROVE  TalkInv'
<1>1. /\ expect # <<>> /\ expect[1] = c /\ pc = "cmd"
      /\ Tail(expect) \in Seq(Commands) /\ Left(expect, Tail(expect), 1)
      /\ wire' \in Seq(Units) /\ Shape(wire') /\ Match(wire', Tail(expect)) /\ AtCommand'
  BY Taken, UnitsAre
<1>2. /\ invited' = TRUE /\ pc' = "read" /\ taken' = [taken EXCEPT !.cmd = c] /\ eof' = FALSE
      /\ UNCHANGED <<expect, strange>>
  BY DEF Invite
<1>3. taken \in [cmd : Articles \cup {None}, text : ArticleTexts \cup {NoText}]
  BY DEF TalkInv, TalkTypeOK
<1>4. /\ taken' \in [cmd : Articles \cup {None}, text : ArticleTexts \cup {NoText}]
      /\ taken'.cmd = c /\ c \in Articles
  BY <1>2, <1>3 DEF Articles
<1>5. TalkTypeOK'
  BY <1>1, <1>2, <1>4 DEF TalkInv, TalkTypeOK
<1>6. Len(expect) = 1
  <2>1. 1 \in DOMAIN expect
    BY <1>1, TalkTypes
  <2>2. QED
    BY <1>1, <2>1 DEF TalkInv, TalkOK, Waited
<1>7. wire' = <<>>
  <2>1. SUFFICES ASSUME wire' # <<>> PROVE FALSE
    OBVIOUS
  <2>2. wire'[1] \in Commands /\ 1 \in DOMAIN wire'
    BY <1>1, <2>1 DEF AtCommand
  <2>3. \E i \in DOMAIN Tail(expect) : TRUE
    BY <1>1, <2>2 DEF Match
  <2>4. Len(Tail(expect)) = 0
    BY <1>1, <1>6 DEF Left
  <2>5. DOMAIN Tail(expect) = 1 .. Len(Tail(expect))
    BY <1>1
  <2>6. PICK i \in 1 .. Len(Tail(expect)) : TRUE
    BY <2>3, <2>5
  <2>7. i >= 1 /\ i <= 0
    BY <2>4
  <2>8. QED
    BY <2>4, <2>7
<1>8. Unread' = Tail(expect)
  BY <1>2 DEF Unread
<1>9. PlaceOK'
  BY <1>1, <1>2, <1>4 DEF PlaceOK
<1>10. InvitedOK'
  BY <1>2, <1>4, <1>6, <1>7 DEF InvitedOK
<1>11. TalkOK'
  BY <1>1, <1>2, <1>8, <1>9, <1>10 DEF TalkInv, TalkOK
<1>12. QED
  BY <1>2, <1>5, <1>11 DEF TalkInv

LEMMA RefusesTalk ==
    ASSUME TalkInv, NEW c \in Units, Takes(c), c # "TAKETHIS",
           NEW codes, Refuses(codes), \A code \in codes : Fits(code, c)
    PROVE  TalkInv'
<1>1. PICK code \in codes : Heard(code)
  BY DEF Refuses
<1>2. pc' = "cmd" /\ UNCHANGED <<taken, eof>>
  BY DEF Refuses, Goto
<1>3. QED
  BY <1>1, <1>2, Replied

LEMMA PostTalk == TalkInv /\ (Post \/ IHave) => TalkInv'
<1> SUFFICES ASSUME TalkInv, Post \/ IHave PROVE TalkInv'
  OBVIOUS
<1>1. CASE Post
  <2>1. CASE Refuses({503}) \/ Refuses({440})
    <3>1. Fits(503, "POST") /\ Fits(440, "POST")
      BY CodesAre DEF Fits, Generic
    <3>2. QED
      BY <1>1, <2>1, <3>1, UnitsAre, RefusesTalk DEF Post
  <2>2. CASE Invite("POST")
    BY <1>1, <2>2, InviteTalk DEF Post
  <2>3. QED
    BY <1>1, <2>1, <2>2 DEF Post
<1>2. CASE IHave
  <2>1. CASE Refuses({503}) \/ Refuses({480, 501}) \/ Refuses({403, 435, 501})
    <3>1. \A code \in {503, 480, 501, 403, 435} : Fits(code, "IHAVE")
      BY CodesAre DEF Fits, Generic
    <3>2. QED
      BY <1>2, <2>1, <3>1, UnitsAre, RefusesTalk DEF IHave
  <2>2. CASE Invite("IHAVE")
    BY <1>2, <2>2, InviteTalk DEF IHave
  <2>3. QED
    BY <1>2, <2>1, <2>2 DEF IHave
<1>3. QED
  BY <1>1, <1>2

\* TAKETHIS: its article follows.
LEMMA TakeThisTalk == TalkInv /\ TakeThis => TalkInv'
<1> SUFFICES ASSUME TalkInv, TakeThis PROVE TalkInv'
  OBVIOUS
<1>1. /\ expect # <<>> /\ Head(expect) = "TAKETHIS" /\ expect[1] = "TAKETHIS" /\ pc = "cmd"
      /\ Tail(expect) \in Seq(Sends) /\ Tail(expect) \in Seq(Commands) /\ Left(expect, Tail(expect), 1)
      /\ wire' \in Seq(Units) /\ Shape(wire') /\ Match(wire', Tail(expect)) /\ InText' /\ ~invited
  BY Taken, UnitsAre DEF TakeThis
<1>2. /\ taken' = [taken EXCEPT !.cmd = "TAKETHIS"] /\ eof' = FALSE
  BY DEF TakeThis
<1>3. taken \in [cmd : Articles \cup {None}, text : ArticleTexts \cup {NoText}]
  BY DEF TalkInv, TalkTypeOK
<1>4. /\ taken' \in [cmd : Articles \cup {None}, text : ArticleTexts \cup {NoText}]
      /\ taken'.cmd = "TAKETHIS" /\ "TAKETHIS" \in Articles
  BY <1>2, <1>3 DEF Articles
<1>5. WaitOK(expect)
  BY <1>1 DEF TalkInv, TalkOK, WaitOK
<1>6. CASE pc' = "discard"
  <2>1. \E code \in {503, 480, 501, 403, 439} : Heard(code)
    BY <1>6 DEF TakeThis
  <2>2. \A code \in {503, 480, 501, 403, 439} : Fits(code, "TAKETHIS")
    BY CodesAre DEF Fits, Generic
  <2>3. expect' = Tail(expect) /\ ~strange' /\ invited' = FALSE
    <3>1. PICK code \in {503, 480, 501, 403, 439} : Heard(code)
      BY <2>1
    <3>2. Fits(code, Head(expect))
      BY <1>1, <2>2
    <3>3. QED
      BY <1>1, <3>1, <3>2, HeardFits
  <2>4. WaitOK(expect')
    BY <1>1, <1>5, <2>3, WaitLeft, TalkTypes
  <2>5. TalkTypeOK'
    BY <1>1, <1>2, <1>4, <1>6, <2>3 DEF TalkTypeOK
  <2>6. Unread' = expect' /\ PlaceOK' /\ InvitedOK'
    BY <1>1, <1>2, <1>6, <2>3 DEF Unread, PlaceOK, InvitedOK
  <2>7. TalkOK'
    BY <1>1, <2>3, <2>4, <2>6 DEF TalkOK, WaitOK
  <2>8. QED
    BY <2>3, <2>5, <2>7 DEF TalkInv
<1>7. CASE pc' = "read" /\ UNCHANGED <<expect, invited, strange>>
  <2>1. TalkTypeOK'
    BY <1>1, <1>2, <1>4, <1>7 DEF TalkInv, TalkTypeOK
  <2>2. Unread' = Tail(expect) /\ PlaceOK' /\ InvitedOK'
    BY <1>1, <1>2, <1>4, <1>7 DEF Unread, PlaceOK, InvitedOK
  <2>3. TalkOK'
    BY <1>1, <1>5, <1>7, <2>2 DEF TalkOK, WaitOK
  <2>4. QED
    BY <1>7, <2>1, <2>3 DEF TalkInv
<1>8. QED
  BY <1>6, <1>7 DEF TakeThis

\* An article that is being read is there, and after it the commands that come
\* after its own.
LEMMA AtText ==
    ASSUME TalkInv, pc = "read", Arrived
    PROVE  /\ wire \in Seq(Units) /\ Shape(wire) /\ InText /\ Match(wire, Tail(expect))
           /\ expect # <<>> /\ expect[1] = taken.cmd /\ Head(expect) = taken.cmd
           /\ Tail(expect) \in Seq(Sends) /\ Tail(expect) \in Seq(Commands)
           /\ Left(expect, Tail(expect), 1)
           /\ taken.cmd \in Articles
           /\ taken.cmd # "TAKETHIS" =>
                 taken.text \in ArticleTexts /\ wire = Lines(taken.text.lines)
<1>1. /\ wire \in Seq(Units) /\ Shape(wire) /\ Match(wire, Tail(expect))
      /\ expect # <<>> /\ expect[1] = taken.cmd /\ taken.cmd \in Articles
      /\ expect \in Seq(Sends) /\ expect \in Seq(Commands)
  BY TalkTypes DEF TalkInv, TalkTypeOK, TalkOK, Unread, PlaceOK
<1>2. /\ Tail(expect) \in Seq(Sends) /\ Tail(expect) \in Seq(Commands)
      /\ Left(expect, Tail(expect), 1) /\ Head(expect) = expect[1]
  BY <1>1, TailLeft
<1>3. wire # <<>>
  BY <1>1 DEF Arrived
<1>4. taken.cmd # "TAKETHIS" => taken.text \in ArticleTexts /\ wire = Lines(taken.text.lines)
  BY <1>3 DEF TalkInv, TalkOK, InvitedOK
<1>5. InText
  <2>1. CASE taken.cmd = "TAKETHIS"
    BY <2>1 DEF TalkInv, TalkOK, PlaceOK
  <2>2. CASE taken.cmd # "TAKETHIS"
    <3>1. taken.text.lines \in Nat
      BY <1>4, <2>2, SessionAssumption
    <3>2. QED
      BY <1>4, <2>2, <3>1, ShapeLines DEF InText
  <2>3. QED
    BY <2>1, <2>2
<1>6. QED
  BY <1>1, <1>2, <1>4, <1>5

\* An article is read in part or to its end, and its command answered: the loop
\* goes on where it was read to the end.
LEMMA ReadTalk ==
    ASSUME TalkInv, pc = "read", Arrived, NEW n, n > Remaining \/ n \in Nat, ReadsOn(n),
           NEW code, Heard(code), Fits(code, taken.cmd), taken' = taken,
           pc' = "discard" \/ (pc' = "cmd" /\ n > Remaining)
    PROVE  TalkInv'
<1>1. /\ wire \in Seq(Units) /\ Shape(wire) /\ InText /\ Match(wire, Tail(expect))
      /\ expect # <<>> /\ Head(expect) = taken.cmd
      /\ Tail(expect) \in Seq(Sends) /\ Tail(expect) \in Seq(Commands)
      /\ Left(expect, Tail(expect), 1)
  BY AtText
<1>2. /\ wire' \in Seq(Units) /\ Shape(wire') /\ Match(wire', Tail(expect))
      /\ eof' \in BOOLEAN
      /\ n > Remaining => eof' = TRUE
      /\ eof' => AtCommand'
      /\ ~eof' => InText'
  BY <1>1, ReadOn
<1>3. expect' = Tail(expect) /\ ~strange' /\ invited' = FALSE
  BY <1>1, HeardFits
<1>4. WaitOK(expect')
  <2>1. WaitOK(expect)
    BY DEF TalkInv, TalkOK, WaitOK
  <2>2. QED
    BY <1>1, <1>3, <2>1, WaitLeft, TalkTypes
<1>5. TalkTypeOK'
  BY <1>1, <1>2, <1>3 DEF TalkInv, TalkTypeOK
<1>6. Unread' = expect' /\ InvitedOK'
  BY <1>3 DEF Unread, InvitedOK
<1>7. PlaceOK'
  <2>1. pc' = "cmd" => AtCommand'
    BY <1>2
  <2>2. CASE eof'
    BY <1>2, <2>1, <2>2 DEF PlaceOK
  <2>3. CASE ~eof'
    BY <1>2, <2>1, <2>3 DEF PlaceOK
  <2>4. QED
    BY <2>2, <2>3
<1>8. TalkOK'
  BY <1>2, <1>3, <1>4, <1>6, <1>7 DEF TalkOK, WaitOK
<1>9. QED
  BY <1>3, <1>5, <1>8 DEF TalkInv

\* What is posted is read to its end.
LEMMA PostDoneTalk ==
    ASSUME ReadToEnd, TalkInv, PostDone
    PROVE  TalkInv'
<1>1. /\ pc = "read" /\ taken.cmd = "POST" /\ Arrived /\ ReadsOn(Asked(taken.text)) /\ Heard(240)
      /\ pc' = "cmd" /\ taken' = taken
  BY DEF PostDone
<1>2. /\ wire \in Seq(Units) /\ Shape(wire) /\ InText /\ expect # <<>> /\ expect[1] = "POST"
      /\ taken.text \in ArticleTexts /\ wire = Lines(taken.text.lines)
  BY <1>1, AtText
<1>3. taken.text.lines \in Nat
  BY <1>2, SessionAssumption
<1> DEFINE l == taken.text.lines
<1>4. Remaining \in 0 .. Len(wire) - 1 /\ wire[Remaining + 1] = "dot"
  BY <1>1, <1>2, RemainingIs
<1>5. Len(wire) = l + 1 /\ \A k \in 1 .. l : wire[k] = "line"
  BY <1>2, <1>3, LinesAre
<1>6. Remaining <= l
  BY <1>3, <1>4, <1>5
<1>7. "POST" \in Sends
  <2>1. 1 \in DOMAIN expect /\ expect \in Seq(Sends)
    BY <1>2, TalkTypes
  <2>2. QED
    BY <1>2, <2>1
<1>8. Asked(taken.text) > l
  BY <1>2, <1>7 DEF ReadToEnd
<1>9. Remaining = l
  <2>1. SUFFICES ASSUME Remaining < l PROVE FALSE
    BY <1>3, <1>4, <1>6
  <2>2. Remaining + 1 \in 1 .. l
    BY <1>3, <1>4, <2>1
  <2>3. QED
    BY <1>4, <1>5, <2>2
<1>10. Asked(taken.text) > Remaining
  BY <1>8, <1>9
<1>11. Fits(240, taken.cmd)
  BY <1>1, CodesAre DEF Fits
<1>12. QED
  BY <1>1, <1>10, <1>11, ReadTalk

LEMMA TransferDoneTalk == TalkInv /\ TransferDone => TalkInv'
<1> SUFFICES ASSUME TalkInv, TransferDone PROVE TalkInv'
  OBVIOUS
<1>1. /\ pc = "read" /\ taken.cmd # "POST" /\ Arrived /\ ReadsOn(Remaining + 1)
      /\ Heard(IF taken.cmd = "IHAVE" THEN 235 ELSE 239)
      /\ pc' = "cmd" /\ taken' = taken
  BY DEF TransferDone
<1>2. Remaining + 1 > Remaining
  BY <1>1, AtText, RemainingIs
<1>3. taken.cmd = "IHAVE" \/ taken.cmd = "TAKETHIS"
  BY <1>1, AtText DEF Articles
<1>4. Fits(IF taken.cmd = "IHAVE" THEN 235 ELSE 239, taken.cmd)
  BY <1>3, CodesAre DEF Fits
<1>5. QED
  BY <1>1, <1>2, <1>4, ReadTalk

LEMMA RejectedTalk == TalkInv /\ Rejected => TalkInv'
<1> SUFFICES ASSUME TalkInv, Rejected PROVE TalkInv'
  OBVIOUS
<1>1. pc = "read" /\ Arrived /\ pc' = "discard" /\ taken' = taken
  BY DEF Rejected
<1>2. PICK n \in 0 .. Remaining + 1 : ReadsOn(n)
  BY DEF Rejected
<1>3. n \in Nat
  BY <1>1, AtText, RemainingIs
<1>4. PICK code \in Rejection[taken.cmd] : Heard(code)
  BY DEF Rejected
<1>5. Fits(code, taken.cmd)
  <2>1. taken.cmd = "POST" \/ taken.cmd = "IHAVE" \/ taken.cmd = "TAKETHIS"
    BY <1>1, AtText DEF Articles
  <2>2. QED
    BY <2>1, CodesAre DEF Rejection, Fits, Generic
<1>6. QED
  BY <1>1, <1>2, <1>3, <1>4, <1>5, ReadTalk

\* What was left of an article is read.
LEMMA DiscardRestTalk == TalkInv /\ DiscardRest => TalkInv'
<1> SUFFICES ASSUME TalkInv, DiscardRest PROVE TalkInv'
  OBVIOUS
<1>1. /\ pc = "discard" /\ (eof \/ Arrived) /\ eof' = TRUE /\ pc' = "cmd"
      /\ UNCHANGED <<expect, invited, strange, taken>>
      /\ wire' = IF eof THEN wire ELSE After(Remaining + 1)
  BY DEF DiscardRest
<1>2. /\ wire \in Seq(Units) /\ Shape(wire) /\ Match(wire, expect) /\ expect \in Seq(Commands)
      /\ ~invited /\ PlaceOK
  BY <1>1, TalkTypes DEF TalkInv, TalkOK, Unread, InvitedOK
<1>3. wire' \in Seq(Units) /\ Shape(wire') /\ Match(wire', expect) /\ AtCommand'
  <2>1. CASE eof
    BY <1>1, <1>2, <2>1 DEF PlaceOK, AtCommand
  <2>2. CASE ~eof
    <3>1. InText /\ Arrived /\ wire' = After(Remaining + 1)
      BY <1>1, <1>2, <2>2 DEF PlaceOK
    <3>2. Remaining + 1 \in 0 .. Remaining + 1
      BY <1>2, <3>1, RemainingIs
    <3>3. QED
      BY <1>2, <3>1, <3>2, ReadUpTo
  <2>3. QED
    BY <2>1, <2>2
<1>4. TalkTypeOK'
  BY <1>1, <1>3 DEF TalkInv, TalkTypeOK
<1>5. Unread' = expect /\ PlaceOK' /\ InvitedOK'
  BY <1>1, <1>2, <1>3 DEF Unread, PlaceOK, InvitedOK
<1>6. TalkOK'
  BY <1>1, <1>3, <1>5 DEF TalkInv, TalkOK
<1>7. QED
  BY <1>1, <1>4, <1>6 DEF TalkInv
-----------------------------------------------------------------------------
(***************************************************************************)
(* The client.                                                             *)
(***************************************************************************)

\* What is added to the end of the wire leaves its beginning as it is.
LEMMA FrontKept ==
    ASSUME NEW w \in Seq(Units), NEW v \in Seq(Units), NEW c \in Commands, NEW l \in Seq(Units),
           v = Append(w, c) \o l
    PROVE  v # <<>> /\ v[1] = IF w = <<>> THEN c ELSE w[1]
BY DEF Units

\* A command is sent: no other waits for its answer.
LEMMA SendTalk ==
    ASSUME TalkInv, NEW c \in Sends, Send(c)
    PROVE  TalkInv'
<1>1. /\ pc # "closed" /\ expect' = Append(expect, c)
      /\ UNCHANGED <<invited, strange, pc, taken, eof>>
      /\ c \in Commands /\ c \in Units
  BY SessionAssumption DEF Send, task, Units
<1>2. /\ wire \in Seq(Units) /\ Shape(wire) /\ Match(wire, Unread) /\ PlaceOK /\ InvitedOK
      /\ expect \in Seq(Sends) /\ expect \in Seq(Commands) /\ Len(expect) \in Nat
      /\ DOMAIN expect = 1 .. Len(expect)
  BY <1>1, TalkTypes DEF TalkInv, TalkOK
<1>3. \A k \in DOMAIN expect : expect[k] \notin Waited
  BY <1>2 DEF Send, Waited
<1>4. /\ expect' \in Seq(Sends) /\ expect' \in Seq(Commands) /\ Len(expect') = Len(expect) + 1
      /\ DOMAIN expect' = 1 .. Len(expect) + 1
      /\ \A k \in DOMAIN expect : expect'[k] = expect[k]
  BY <1>1, <1>2
<1>5. WaitOK(expect')
  <2>1. SUFFICES ASSUME NEW k \in DOMAIN expect', expect'[k] \in Waited
                 PROVE  k = Len(expect')
    BY DEF WaitOK
  <2>2. k \notin DOMAIN expect
    BY <1>3, <1>4, <2>1
  <2>3. QED
    BY <1>2, <1>4, <2>1, <2>2
<1>6. pc = "read" => expect # <<>> /\ expect[1] = taken.cmd /\ taken.cmd = "TAKETHIS"
  <2>1. SUFFICES ASSUME pc = "read"
                 PROVE  expect # <<>> /\ expect[1] = taken.cmd /\ taken.cmd = "TAKETHIS"
    OBVIOUS
  <2>2. expect # <<>> /\ expect[1] = taken.cmd /\ taken.cmd \in Articles
    BY <1>2, <2>1 DEF PlaceOK, TalkInv, TalkTypeOK
  <2>3. 1 \in DOMAIN expect
    BY <1>2, <2>2
  <2>4. QED
    BY <1>3, <2>2, <2>3 DEF Waited, Articles
<1>7. ~invited
  BY <1>2, <1>6 DEF InvitedOK
<1>8. Unread \in Seq(Commands) /\ Unread' = Append(Unread, c)
  <2>1. CASE pc = "read"
    <3>1. expect # <<>>
      BY <1>6, <2>1
    <3>2. Tail(expect) \in Seq(Commands) /\ Tail(Append(expect, c)) = Append(Tail(expect), c)
      BY <1>1, <1>2, <3>1
    <3>3. QED
      BY <1>1, <2>1, <3>2 DEF Unread
  <2>2. CASE pc # "read"
    BY <1>1, <1>2, <2>2 DEF Unread
  <2>3. QED
    BY <2>1, <2>2
<1>9. PICK l \in Seq(Text) :
         /\ wire' = Append(wire, c) \o l
         /\ Shape(wire')
  <2>1. CASE c # "TAKETHIS" /\ wire' = Append(wire, c)
    <3>1. <<>> \in Seq(Text) /\ Append(wire, c) = Append(wire, c) \o <<>>
      BY <1>1, <1>2
    <3>2. Shape(Append(wire, c))
      BY <1>1, <1>2, <2>1, ShapeSend
    <3>3. QED
      BY <2>1, <3>1, <3>2
  <2>2. CASE c = "TAKETHIS" /\ \E t \in ArticleTexts : wire' = Append(wire, c) \o Lines(t.lines)
    <3>1. PICK t \in ArticleTexts : wire' = Append(wire, c) \o Lines(t.lines)
      BY <2>2
    <3>2. t.lines \in Nat
      BY SessionAssumption
    <3>3. Lines(t.lines) \in Seq(Text) /\ Shape(Append(wire, "TAKETHIS") \o Lines(t.lines))
      BY <1>2, <3>2, LinesAre, ShapeTakeThis
    <3>4. QED
      BY <2>2, <3>1, <3>3
  <2>3. QED
    BY <2>1, <2>2 DEF Send
<1>10. l \in Seq(Units) /\ Append(wire, c) \in Seq(Units)
  BY <1>1, <1>2, <1>9 DEF Units
<1>11. wire' \in Seq(Units)
  BY <1>9, <1>10
<1>12. Match(wire', Unread')
  <2>1. Append(Unread, c) \in Seq(Commands) /\ Match(Append(wire, c), Append(Unread, c))
    BY <1>1, <1>2, <1>8, MatchSend
  <2>2. QED
    BY <1>8, <1>9, <1>10, <2>1, MatchText
<1>13. wire' # <<>> /\ wire'[1] = IF wire = <<>> THEN c ELSE wire[1]
  BY <1>1, <1>2, <1>9, <1>10, <1>11, FrontKept
<1>14. (AtCommand => AtCommand') /\ (InText => InText')
  BY <1>1, <1>13 DEF AtCommand, InText
<1>15. PlaceOK'
  <2>1. pc = "read" => expect' # <<>> /\ expect'[1] = taken.cmd
    BY <1>2, <1>4, <1>6
  <2>2. pc' = pc /\ taken' = taken /\ eof' = eof
    BY <1>1
  <2>3. CASE eof
    BY <1>2, <1>14, <2>1, <2>2, <2>3 DEF PlaceOK
  <2>4. CASE ~eof
    BY <1>2, <1>14, <2>1, <2>2, <2>4 DEF PlaceOK
  <2>5. QED
    BY <2>3, <2>4
<1>16. InvitedOK'
  BY <1>1, <1>6, <1>7 DEF InvitedOK
<1>17. TalkOK'
  BY <1>5, <1>9, <1>12, <1>15, <1>16 DEF TalkOK, WaitOK
<1>18. TalkTypeOK'
  BY <1>1, <1>4, <1>11 DEF TalkInv, TalkTypeOK
<1>19. QED
  BY <1>1, <1>17, <1>18 DEF TalkInv

\* The article that the client was told to send.
LEMMA SendArticleTalk == TalkInv /\ SendArticle => TalkInv'
<1> SUFFICES ASSUME TalkInv, SendArticle PROVE TalkInv'
  OBVIOUS
<1>1. PICK t \in ArticleTexts : wire' = Lines(t.lines) /\ taken' = [taken EXCEPT !.text = t]
  BY DEF SendArticle
<1>2. invited /\ wire = <<>> /\ invited' = FALSE /\ UNCHANGED <<expect, strange, pc, eof>>
  BY DEF SendArticle
<1>3. t.lines \in Nat
  BY SessionAssumption
<1>4. wire' \in Seq(Text) /\ wire' \in Seq(Units) /\ Shape(wire')
  BY <1>1, <1>3, LinesAre, ShapeLines
<1>5. /\ taken' \in [cmd : Articles \cup {None}, text : ArticleTexts \cup {NoText}]
      /\ taken'.cmd = taken.cmd /\ taken'.text = t
  BY <1>1 DEF TalkInv, TalkTypeOK
<1>6. TalkTypeOK'
  BY <1>2, <1>4, <1>5 DEF TalkInv, TalkTypeOK
<1>7. ASSUME pc # "closed"
      PROVE  TalkOK'
  <2>1. /\ pc = "read" /\ taken.cmd # "TAKETHIS" /\ Len(expect) = 1 /\ expect # <<>>
        /\ expect[1] = taken.cmd /\ Match(wire, Tail(expect))
        /\ wire \in Seq(Units) /\ expect \in Seq(Commands)
    BY <1>2, <1>7, TalkTypes DEF TalkInv, TalkOK, InvitedOK, PlaceOK, Unread
  <2>2. Tail(expect) \in Seq(Commands)
    BY <2>1
  <2>3. Match(wire \o wire', Tail(expect))
    BY <1>4, <2>1, <2>2, MatchText
  <2>4. wire \o wire' = wire'
    BY <1>2, <1>4
  <2>5. Unread' = Tail(expect)
    BY <1>2, <2>1 DEF Unread
  <2>6. PlaceOK'
    BY <1>2, <1>5, <2>1 DEF PlaceOK
  <2>7. InvitedOK'
    BY <1>1, <1>2, <1>5, <2>1 DEF InvitedOK
  <2>8. QED
    BY <1>2, <1>4, <1>7, <2>3, <2>4, <2>5, <2>6, <2>7 DEF TalkInv, TalkOK
<1>8. TalkOK'
  BY <1>2, <1>7 DEF TalkOK
<1>9. QED
  BY <1>2, <1>6, <1>8 DEF TalkInv

\* Nothing is said.
LEMMA TalkKept ==
    ASSUME TalkInv, UNCHANGED <<wire, expect, invited, strange, taken, eof>>, pc' \in {pc, "closed"}
    PROVE  TalkInv'
<1>1. TalkTypeOK'
  BY DEF TalkInv, TalkTypeOK
<1>2. TalkOK'
  <2>1. SUFFICES ASSUME pc' # "closed" PROVE TalkOK'
    BY DEF TalkOK
  <2>2. pc' = pc /\ TalkOK
    BY <2>1 DEF TalkInv
  <2>3. Unread' = Unread /\ (PlaceOK => PlaceOK') /\ (InvitedOK => InvitedOK')
    BY <2>2 DEF Unread, PlaceOK, InvitedOK, AtCommand, InText
  <2>4. QED
    BY <2>1, <2>2, <2>3 DEF TalkOK
<1>3. QED
  BY <1>1, <1>2 DEF TalkInv
-----------------------------------------------------------------------------

LEMMA ServingTalk ==
    ASSUME ReadToEnd, TalkInv, Serving
    PROVE  TalkInv'
<1>1. CASE Bad \/ Info \/ Mode \/ List \/ NewNews \/ Quit
  BY <1>1, BadTalk, InfoTalk, GroupTalk
<1>2. CASE Reading
  BY <1>2, GroupTalk, ReadingTalk DEF Reading
<1>3. CASE Authenticating
  BY <1>3, AuthTalk
<1>4. CASE Posting
  BY <1>4, PostTalk, ReadingTalk, TakeThisTalk, PostDoneTalk, TransferDoneTalk, RejectedTalk,
     DiscardRestTalk DEF Posting
<1>5. QED
  BY <1>1, <1>2, <1>3, <1>4 DEF Serving

LEMMA StartTalk == SessionInit => TalkInv
<1> SUFFICES ASSUME SessionInit PROVE TalkInv
  OBVIOUS
<1>1. wire = <<>> /\ expect = <<>> /\ ~invited /\ ~strange /\ pc = "cmd"
  BY DEF SessionInit
<1>2. TalkTypeOK
  <2>1. wire \in Seq(Units) /\ expect \in Seq(Sends)
    BY <1>1
  <2>2. invited \in BOOLEAN /\ eof \in BOOLEAN
    BY DEF SessionInit
  <2>3. taken \in [cmd : Articles \cup {None}, text : ArticleTexts \cup {NoText}]
    BY DEF SessionInit
  <2>4. QED
    BY <1>1, <2>1, <2>2, <2>3 DEF TalkTypeOK
<1>3. Shape(wire) /\ Unread = expect /\ PlaceOK /\ InvitedOK
  BY <1>1 DEF Shape, Unread, PlaceOK, InvitedOK, AtCommand
<1>4. Match(wire, expect)
  <2>1. DOMAIN wire = {} /\ DOMAIN expect = {}
    BY <1>1
  <2>2. [i \in {} |-> 0] \in [DOMAIN expect -> DOMAIN wire]
    BY <2>1
  <2>3. QED
    BY <2>1, <2>2 DEF Match
<1>5. \A k \in DOMAIN expect : expect[k] \in Waited => k = Len(expect)
  BY <1>1
<1>6. QED
  BY <1>1, <1>2, <1>3, <1>4, <1>5 DEF TalkInv, TalkOK

LEMMA TalkStep ==
    ASSUME ReadToEnd, TalkInv, [SessionNext]_sessionVars
    PROVE  TalkInv'
<1>1. CASE Serving
  BY <1>1, ServingTalk
<1>2. CASE \E c \in Sends : Send(c)
  BY <1>2, SendTalk
<1>3. CASE SendArticle
  BY <1>3, SendArticleTalk
<1>4. CASE Break
  BY <1>4, TalkKept DEF Break, talk
<1>5. CASE Configure
  BY <1>5, TalkKept DEF Configure, talk, task
<1>6. CASE UNCHANGED sessionVars
  BY <1>6, TalkKept DEF sessionVars, talk, task
<1>7. QED
  BY <1>1, <1>2, <1>3, <1>4, <1>5, <1>6 DEF SessionNext

\* Client and server stay together, whatever is sent ahead, as long as every
\* article that is posted is read to its end (nntppost.go stops at the line that
\* ends its parts, which is where session_drain goes wrong): the loop never reads
\* a line of an article for a command, and every answer is one that the oldest
\* command without an answer may get (nntpprovider.go:36-112).
THEOREM StaysInStep ==
    ASSUME ReadToEnd
    PROVE  SessionSpec => []InStep
<1>1. SessionInit => TalkInv
  BY StartTalk
<1>2. TalkInv /\ [SessionNext]_sessionVars => TalkInv'
  BY TalkStep
<1>3. TalkInv => InStep
  <2>1. SUFFICES ASSUME TalkInv PROVE InStep
    OBVIOUS
  <2>2. ~strange /\ TalkOK
    BY <2>1 DEF TalkInv
  <2>3. pc = "cmd" => AtCommand
    BY <2>2 DEF TalkOK, PlaceOK
  <2>4. wire # <<>> => Head(wire) = wire[1]
    BY <2>1, TalkTypes, TailLeft
  <2>5. QED
    BY <2>2, <2>3, <2>4 DEF InStep, AtCommand
<1>4. QED
  BY <1>1, <1>2, <1>3, PTL DEF SessionSpec

-----------------------------------------------------------------------------
(***************************************************************************)
(* Transfer.                                                               *)
(***************************************************************************)


\* Every post that is there has been stored; ids are banned by removals only.
Recorded == DOMAIN stored \subseteq ever /\ (banned # {} => removals > 0)

Found(p) ==
    \/ info[p].thread = BadId /\ removals > 0
    \/ /\ info[p].thread \in DOMAIN stored
       /\ stored[info[p].thread].thread = info[p].thread
       /\ stored[info[p].thread].group = info[p].group
       /\ stored[info[p].thread].date <= info[p].date

InformedOf(p) ==
    /\ at[p] \in {"board", "taken", "insert"} => info[p].id = IdOf(offer[p])
    /\ at[p] \in {"taken", "insert"} =>
          info[p].group \in boards /\ (info[p].ref # NoId => Found(p))

Informed == \A p \in Peers : InformedOf(p)

TransferInv == TransferTypeOK /\ TakenTrue /\ Recorded /\ Informed

\* What TakenTrue says of an answer.
Truly(o) ==
    \/ (IF IdOf(o) = NoId THEN o.art.own ELSE IdOf(o)) \in ever
    \/ o.how # "post" /\ (~o.art.sound \/ failures > 0 \/ removals > 0)

InfoType == [id : Nat, group : Groups, ref : Nat, date : Nat, thread : Nat \cup {BadId}]

-----------------------------------------------------------------------------

\* What an offer is made of, so that the rows made of it are rows.
LEMMA OfferType ==
    ASSUME NEW o \in Offers
    PROVE  /\ o.how \in Hows /\ o.said \in Nat /\ o.art.given \in Nat /\ o.art.own \in Nat \ {0}
           /\ o.art.group \in Groups /\ o.art.ref \in Nat /\ o.art.date \in Nat
           /\ o.art.sound \in BOOLEAN
           /\ IdOf(o) \in Nat \cup {BadId}
<1>1. o \in [how : Hows, said : Nat, expect : Groups,
             art : [given : Nat, own : Nat \ {0}, group : Groups, ref : Nat, date : Nat,
                    laxdate : BOOLEAN, lacks : SUBSET Hows, sound : BOOLEAN]]
  BY TransferAssumption
<1>2. /\ o.how \in Hows /\ o.said \in Nat /\ o.art.given \in Nat /\ o.art.own \in Nat \ {0}
      /\ o.art.group \in Groups /\ o.art.ref \in Nat /\ o.art.date \in Nat
      /\ o.art.sound \in BOOLEAN
  BY <1>1
<1>3. IdOf(o) \in Nat \cup {BadId}
  BY <1>2 DEF IdOf, NoId, BadId
<1> QED
  BY <1>2, <1>3

\* The initial states: a whole table, and nothing under way.
LEMMA TransferInitInv == TransferInit => TransferInv
<1> SUFFICES ASSUME TransferInit PROVE TransferInv
  OBVIOUS
<1>1. (CHOOSE o \in Offers : TRUE) \in Offers
  BY TransferAssumption
<1>2. /\ DOMAIN stored \subseteq Nat \ {0} /\ stored \in [DOMAIN stored -> RowType]
      /\ Whole(stored, boards)
  BY TransferAssumption DEF TransferInit
<1>a. MaxOffers \in Nat /\ MaxRemovals \in Nat /\ MaxFailures \in Nat
  BY TransferAssumption
<1>b. NoInfo \in [id : Nat, group : Groups, ref : Nat, date : Nat, thread : Nat \cup {BadId}]
  BY DEF NoInfo, NoId, Groups
<1>3. TransferTypeOK
  <2>1. offers \in 0..MaxOffers /\ removals \in 0..MaxRemovals /\ failures \in 0..MaxFailures
    BY <1>a DEF TransferInit
  <2> QED
    BY <1>1, <1>2, <1>b, <2>1 DEF TransferInit, TransferTypeOK
<1>4. TakenTrue /\ Recorded /\ Informed
  BY <1>2 DEF TransferInit, TakenTrue, Recorded, Informed, InformedOf
<1> QED
  BY <1>3, <1>4 DEF TransferInv

-----------------------------------------------------------------------------
(***************************************************************************)
(* What a step of one handler leaves as it is.                             *)
(***************************************************************************)

\* The handlers of others: their part is as it was, and the tables they looked
\* at are.
LEMMA OthersInformed ==
    ASSUME NEW q \in Peers, InformedOf(q),
           at'[q] = at[q], info'[q] = info[q], offer'[q] = offer[q],
           UNCHANGED <<stored, removals>>, boards \subseteq boards'
    PROVE  InformedOf(q)'
  BY DEF InformedOf, Found

\* Answers that were true stay true.
LEMMA AnswersStay ==
    ASSUME TransferTypeOK, NEW o \in accepted, Truly(o),
           ever \subseteq ever', failures' \in Nat, failures <= failures',
           removals' \in Nat, removals <= removals'
    PROVE  Truly(o)'
<1>1. failures \in Nat /\ removals \in Nat
  BY TransferAssumption DEF TransferTypeOK
<1> QED
  BY <1>1 DEF Truly, IdOf

\* A step that leaves the tables of posts alone and accepts nothing.
LEMMA TablesStay ==
    ASSUME TransferInv, TransferTypeOK', UNCHANGED <<stored, banned, ever, removals>>,
           boards \subseteq boards', failures <= failures',
           \A o \in accepted' : o \in accepted \/ Truly(o)'
    PROVE  TakenTrue' /\ Recorded'
<1>1. Whole(stored, boards)'
  BY DEF TransferInv, TakenTrue, Whole
<1>2. \A o \in accepted : Truly(o)
  BY DEF TransferInv, TakenTrue, Truly
<1>3. failures' \in Nat /\ removals' \in Nat /\ removals <= removals'
  BY TransferAssumption DEF TransferTypeOK
<1>4. \A o \in accepted : Truly(o)'
  BY <1>2, <1>3, AnswersStay DEF TransferInv
<1>5. TakenTrue'
  BY <1>1, <1>4 DEF TakenTrue, Truly
<1>6. Recorded'
  BY DEF TransferInv, Recorded
<1> QED
  BY <1>5, <1>6

-----------------------------------------------------------------------------
(***************************************************************************)
(* The steps.                                                              *)
(***************************************************************************)

LEMMA BeginInv ==
    ASSUME TransferInv, NEW p \in Peers, Begin(p)
    PROVE  TransferInv'
<1>1. PICK o \in Offers :
        /\ offer' = [offer EXCEPT ![p] = o]
        /\ at' = [at EXCEPT ![p] = "idle"] \/ at' = [at EXCEPT ![p] = "head"]
  <2>1. PICK o \in Offers :
          /\ offer' = [offer EXCEPT ![p] = o]
          /\ Goes(p, CASE o.how = "transfer" -> IF Known(o.said) THEN "idle" ELSE "head"
                       [] o.how = "pull" -> IF IsArticleWanted(o.said) THEN "head" ELSE "idle"
                       [] o.how = "post" -> "head")
    BY DEF Begin
  <2>2. o.how \in {"transfer", "post", "pull"}
    BY OfferType DEF Hows
  <2> QED
    BY <2>1, <2>2 DEF Goes
<1>2. /\ info' = [info EXCEPT ![p] = NoInfo]
      /\ UNCHANGED <<boards, stored, banned, ever, accepted, removals, failures>>
      /\ offers' = offers + 1 /\ offers < MaxOffers
  BY DEF Begin
<1>3. NoInfo \in InfoType
  BY DEF NoInfo, NoId, InfoType, Groups
<1>4. TransferTypeOK'
  <2>1. offers' \in 0..MaxOffers
    BY <1>2, TransferAssumption DEF TransferInv, TransferTypeOK
  <2> QED
    BY <1>1, <1>2, <1>3, <2>1 DEF TransferInv, TransferTypeOK, InfoType
<1>5. TakenTrue' /\ Recorded'
  <2>1. failures <= failures'
    BY <1>2, TransferAssumption DEF TransferInv, TransferTypeOK
  <2> QED
    BY <1>2, <1>4, <2>1, TablesStay
<1>6. Informed'
  <2> SUFFICES ASSUME NEW q \in Peers PROVE InformedOf(q)'
    BY DEF Informed
  <2>1. CASE q = p
    BY <1>1, <2>1 DEF TransferInv, TransferTypeOK, InformedOf
  <2>2. CASE q # p
    BY <1>1, <1>2, <2>2, OthersInformed DEF TransferInv, TransferTypeOK, Informed
  <2> QED
    BY <2>1, <2>2
<1> QED
  BY <1>4, <1>5, <1>6 DEF TransferInv

\* What is read from the head has the id of the offer.
LEMMA DigestHeadInv ==
    ASSUME TransferInv, NEW p \in Peers, DigestHead(p)
    PROVE  TransferInv'
<1> DEFINE read == [id |-> IdOf(offer[p]), group |-> offer[p].art.group,
                    ref |-> IF SelfReference(offer[p]) THEN NoId ELSE offer[p].art.ref,
                    date |-> IF offer[p].art.date = 0 THEN Now ELSE offer[p].art.date,
                    thread |-> NoId]
<1>1. /\ UNCHANGED <<boards, stored, banned, ever, offers, removals, offer, failures, accepted>>
      /\ \/ HeadGood(offer[p]) /\ info' = [info EXCEPT ![p] = read] /\ at' = [at EXCEPT ![p] = "board"]
         \/ UNCHANGED info /\ at' = [at EXCEPT ![p] = "idle"]
  BY DEF DigestHead, Still, Goes, Answer
<1>2. offer[p] \in Offers
  BY DEF TransferInv, TransferTypeOK
<1>3. HeadGood(offer[p]) => read \in InfoType
  BY <1>2, OfferType DEF HeadGood, InfoType, NoId, Now, BadId
<1> HIDE DEF read
<1>4. TransferTypeOK'
  BY <1>1, <1>3 DEF TransferInv, TransferTypeOK, InfoType
<1>5. TakenTrue' /\ Recorded'
  <2>1. failures <= failures'
    BY <1>1, TransferAssumption DEF TransferInv, TransferTypeOK
  <2> QED
    BY <1>1, <1>4, <2>1, TablesStay
<1>6. Informed'
  <2> SUFFICES ASSUME NEW q \in Peers PROVE InformedOf(q)'
    BY DEF Informed
  <2>1. CASE q = p
    BY <1>1, <2>1 DEF TransferInv, TransferTypeOK, InformedOf, read
  <2>2. CASE q # p
    BY <1>1, <2>2, OthersInformed DEF TransferInv, TransferTypeOK, Informed
  <2> QED
    BY <2>1, <2>2
<1> QED
  BY <1>4, <1>5, <1>6 DEF TransferInv

\* The group is there; a reply has found the first post of its thread, which is
\* of the same group and no younger, because the post it refers to is.
LEMMA AcceptHeadInv ==
    ASSUME TransferInv, NEW p \in Peers, AcceptHead(p)
    PROVE  TransferInv'
<1>1. UNCHANGED <<stored, banned, ever, offers, removals, offer, accepted>> /\ at[p] = "board"
  BY DEF AcceptHead, NewThreadBoard, ReplyBoard, Answer, Goes
<1>2. PICK l \in {"board", "taken", "idle"} : at' = [at EXCEPT ![p] = l]
  BY DEF AcceptHead, NewThreadBoard, ReplyBoard, Answer, Goes, TransferInv, TransferTypeOK
<1>3. boards \subseteq boards' /\ boards' \subseteq boards \cup AutoAdd
  BY DEF AcceptHead, NewThreadBoard, ReplyBoard
<1>4. failures' \in 0..MaxFailures /\ failures <= failures'
  BY TransferAssumption DEF AcceptHead, Fail, TransferInv, TransferTypeOK
<1>5. \/ UNCHANGED info
      \/ /\ info[p].ref \in DOMAIN stored /\ info[p].group \in boards
         /\ stored[info[p].ref].group = info[p].group
         /\ stored[info[p].ref].date <= info[p].date
         /\ info' = [info EXCEPT ![p].thread = stored[info[p].ref].thread]
  BY DEF AcceptHead, NewThreadBoard, ReplyBoard
<1>6. info[p] \in InfoType /\ info \in [Peers -> InfoType]
  BY DEF TransferInv, TransferTypeOK, InfoType
<1>7. info[p].ref \in DOMAIN stored => stored[info[p].ref].thread \in Nat
  BY DEF TransferInv, TransferTypeOK, RowType
<1>8. info' \in [Peers -> InfoType]
  BY <1>5, <1>6, <1>7 DEF InfoType
<1>9. TransferTypeOK'
  BY <1>1, <1>2, <1>3, <1>4, <1>8 DEF TransferInv, TransferTypeOK, InfoType
<1>10. TakenTrue' /\ Recorded'
  BY <1>1, <1>3, <1>4, <1>9, TablesStay
<1>11. InformedOf(p)'
  <2>1. at'[p] = l /\ offer'[p] = offer[p]
    BY <1>1, <1>2 DEF TransferInv, TransferTypeOK
  <2>2. info'[p].id = IdOf(offer'[p])
    BY <1>1, <1>5, <1>6 DEF TransferInv, Informed, InformedOf, InfoType
  <2>3. ASSUME l = "taken" PROVE info'[p].group \in boards' /\ (info'[p].ref # NoId => Found(p)')
    <3>1. at'[p] = "taken"
      BY <2>1, <2>3
    <3>2. CASE info[p].ref = NoId
      <4>1. NewThreadBoard(p)
        BY <1>1, <3>1, <3>2 DEF AcceptHead, ReplyBoard, Answer, Goes, TransferInv, TransferTypeOK
      <4>2. UNCHANGED info /\ info[p].group \in boards
        BY <1>1, <3>1, <4>1 DEF NewThreadBoard, Answer, Goes, TransferInv, TransferTypeOK
      <4> QED
        BY <1>3, <3>2, <4>2
    <3>3. CASE info[p].ref # NoId
      <4>1. ReplyBoard(p)
        BY <1>1, <3>1, <3>3 DEF AcceptHead, NewThreadBoard, Answer, Goes, TransferInv, TransferTypeOK
      <4> DEFINE t == stored[info[p].ref].thread
      <4>2. /\ info[p].ref \in DOMAIN stored /\ info[p].group \in boards
            /\ stored[info[p].ref].group = info[p].group
            /\ stored[info[p].ref].date <= info[p].date
            /\ info' = [info EXCEPT ![p].thread = t]
        BY <1>1, <3>1, <4>1 DEF ReplyBoard, Answer, Goes, TransferInv, TransferTypeOK
      <4>3. /\ t \in DOMAIN stored /\ stored[t].thread = t
            /\ stored[t].group = info[p].group
            /\ stored[t].date <= stored[info[p].ref].date
        BY <4>2 DEF TransferInv, TakenTrue, Whole
      <4>4. stored[t].date \in Nat /\ stored[info[p].ref].date \in Nat /\ info[p].date \in Nat
        BY <1>6, <4>2, <4>3 DEF TransferInv, TransferTypeOK, RowType, InfoType
      <4>5. stored[t].date <= info[p].date
        BY <4>2, <4>3, <4>4
      <4>6. info'[p] = [info[p] EXCEPT !.thread = t]
        BY <1>6, <4>2
      <4>7. info'[p].thread = t /\ info'[p].group = info[p].group /\ info'[p].date = info[p].date
        BY <1>6, <4>6 DEF InfoType
      <4> QED
        BY <1>1, <1>3, <4>2, <4>3, <4>5, <4>7 DEF Found
    <3> QED
      BY <3>2, <3>3
  <2> QED
    BY <1>2, <2>1, <2>2, <2>3 DEF InformedOf
<1>12. Informed'
  <2> SUFFICES ASSUME NEW q \in Peers, q # p PROVE InformedOf(q)'
    BY <1>11 DEF Informed
  <2>1. at'[q] = at[q] /\ info'[q] = info[q] /\ offer'[q] = offer[q]
    BY <1>1, <1>2, <1>5 DEF TransferInv, TransferTypeOK
  <2> QED
    BY <1>1, <1>3, <2>1, OthersInformed DEF TransferInv, Informed
<1> QED
  BY <1>9, <1>10, <1>12 DEF TransferInv

LEMMA TakeTextInv ==
    ASSUME TransferInv, NEW p \in Peers, TakeText(p)
    PROVE  TransferInv'
<1>1. /\ UNCHANGED <<boards, stored, banned, ever, offers, removals, offer, info, accepted>>
      /\ at[p] = "taken"
  BY DEF TakeText, Still, Answer, Goes
<1>2. PICK l \in {"insert", "idle"} : at' = [at EXCEPT ![p] = l]
  BY DEF TakeText, Answer, Goes
<1>3. failures' \in 0..MaxFailures /\ failures <= failures'
  BY TransferAssumption DEF TakeText, Fail, TransferInv, TransferTypeOK
<1>4. TransferTypeOK'
  BY <1>1, <1>2, <1>3 DEF TransferInv, TransferTypeOK
<1>5. TakenTrue' /\ Recorded'
  BY <1>1, <1>3, <1>4, TablesStay
<1>6. Informed'
  <2> SUFFICES ASSUME NEW q \in Peers PROVE InformedOf(q)'
    BY DEF Informed
  <2>1. CASE q = p
    BY <1>1, <1>2, <2>1 DEF TransferInv, TransferTypeOK, Informed, InformedOf, Found
  <2>2. CASE q # p
    BY <1>1, <1>2, <2>2, OthersInformed DEF TransferInv, TransferTypeOK, Informed
  <2> QED
    BY <2>1, <2>2
<1> QED
  BY <1>4, <1>5, <1>6 DEF TransferInv

\* What is inserted is whole: the id is new, the group is there, and if the
\* thread is there, it is the one that was found.
LEMMA InsertWhole ==
    ASSUME TransferInv, NEW p \in Peers, at[p] = "insert", CanInsert(p),
           stored' = [x \in DOMAIN stored \cup {FinalId(p)} |->
                        IF x = FinalId(p) THEN Row(p) ELSE stored[x]],
           boards' = boards
    PROVE  /\ FinalId(p) \in Nat \ {0} /\ FinalId(p) \notin DOMAIN stored
           /\ Row(p) \in RowType
           /\ Whole(stored, boards)'
<1>1. info[p] \in InfoType /\ offer[p] \in Offers
  BY DEF TransferInv, TransferTypeOK, InfoType
<1>2. FinalId(p) \in Nat \ {0} /\ FinalId(p) \notin DOMAIN stored
  BY <1>1, OfferType DEF FinalId, NoId, CanInsert, Known, InfoType
<1>3. info[p].group \in boards /\ (info[p].ref # NoId => Found(p))
  BY DEF TransferInv, Informed, InformedOf
<1>4. BadId \notin DOMAIN stored /\ DOMAIN stored \subseteq Nat
  BY DEF TransferInv, TransferTypeOK, BadId
<1> DEFINE t == info[p].thread
<1>5. info[p].ref # NoId => /\ t \in DOMAIN stored /\ stored[t].thread = t
                            /\ stored[t].group = info[p].group
                            /\ stored[t].date <= info[p].date
  BY <1>3, <1>4 DEF CanInsert, Found
<1>6. Row(p) \in RowType
  BY <1>1, <1>2, <1>4, <1>5 DEF Row, RowType, InfoType
<1>7. /\ Row(p).group = info[p].group /\ Row(p).date = info[p].date
      /\ Row(p).thread = IF info[p].ref = NoId THEN FinalId(p) ELSE t
  BY DEF Row
<1>8. info[p].date <= info[p].date
  BY <1>1 DEF InfoType
<1>9. /\ DOMAIN stored' = DOMAIN stored \cup {FinalId(p)}
      /\ stored'[FinalId(p)] = Row(p)
      /\ \A x \in DOMAIN stored : stored'[x] = stored[x]
  BY <1>2
<1> HIDE DEF t
<1>10. Whole(stored, boards)'
  <2> SUFFICES ASSUME NEW id \in DOMAIN stored'
               PROVE  /\ stored'[id].group \in boards'
                      /\ stored'[id].thread \in DOMAIN stored'
                      /\ stored'[stored'[id].thread].thread = stored'[id].thread
                      /\ stored'[stored'[id].thread].group = stored'[id].group
                      /\ stored'[stored'[id].thread].date <= stored'[id].date
    BY DEF Whole
  <2>1. CASE id \in DOMAIN stored
    <3>1. /\ stored[id].group \in boards
          /\ stored[id].thread \in DOMAIN stored
          /\ stored[stored[id].thread].thread = stored[id].thread
          /\ stored[stored[id].thread].group = stored[id].group
          /\ stored[stored[id].thread].date <= stored[id].date
      BY <2>1 DEF TransferInv, TakenTrue, Whole
    <3> QED
      BY <1>9, <2>1, <3>1
  <2>2. CASE id = FinalId(p) /\ info[p].ref = NoId
    BY <1>3, <1>7, <1>8, <1>9, <2>2
  <2>3. CASE id = FinalId(p) /\ info[p].ref # NoId
    BY <1>3, <1>5, <1>7, <1>9, <2>3
  <2> QED
    BY <1>9, <2>1, <2>2, <2>3
<1> QED
  BY <1>2, <1>6, <1>10

\* Who is answered well though the article was not stored was no poster, and it
\* was one of the reasons that TakenTrue names.
LEMMA RefusedTrue ==
    ASSUME TransferInv, NEW p \in Peers, at[p] = "insert", offer[p].how # "post",
           ~CanInsert(p)
    PROVE  Truly(offer[p])
<1>1. info[p].id = IdOf(offer[p])
  BY DEF TransferInv, Informed, InformedOf
<1>2. Known(FinalId(p)) => Truly(offer[p])
  BY <1>1 DEF Known, FinalId, Truly, TransferInv, Recorded, TransferTypeOK
<1>3. ASSUME info[p].ref # NoId, info[p].thread \notin DOMAIN stored
      PROVE  removals > 0
  BY <1>3 DEF TransferInv, Informed, InformedOf, Found
<1> QED
  BY <1>2, <1>3 DEF CanInsert, Truly

LEMMA SubmitInv ==
    ASSUME TransferInv, NEW p \in Peers, Submit(p)
    PROVE  TransferInv'
<1>1. /\ UNCHANGED <<boards, banned, offers, removals, offer, info>>
      /\ at[p] = "insert" /\ at' = [at EXCEPT ![p] = "idle"]
  BY DEF Submit, Answer, AnswerWell, Goes
<1>2. failures' \in 0..MaxFailures /\ failures <= failures'
  BY TransferAssumption DEF Submit, Fail, TransferInv, TransferTypeOK
<1>3. offer[p] \in Offers
  BY DEF TransferInv, TransferTypeOK
<1>4. CASE /\ CanInsert(p)
           /\ stored' = [x \in DOMAIN stored \cup {FinalId(p)} |->
                           IF x = FinalId(p) THEN Row(p) ELSE stored[x]]
           /\ ever' = ever \cup {FinalId(p)}
           /\ AnswerWell(p)
  <2>1. /\ FinalId(p) \in Nat \ {0} /\ FinalId(p) \notin DOMAIN stored
        /\ Row(p) \in RowType
        /\ Whole(stored, boards)'
    BY <1>1, <1>4, InsertWhole
  <2>2. accepted' = accepted \cup {offer[p]}
    BY <1>4 DEF AnswerWell
  <2>3. /\ DOMAIN stored' \subseteq Nat \ {0} /\ stored' \in [DOMAIN stored' -> RowType]
    BY <1>4, <2>1 DEF TransferInv, TransferTypeOK
  <2>4. TransferTypeOK'
    BY <1>1, <1>2, <1>3, <1>4, <2>1, <2>2, <2>3 DEF TransferInv, TransferTypeOK
  <2>5. Truly(offer[p])'
    <3>1. info[p].id = IdOf(offer[p])
      BY <1>1 DEF TransferInv, Informed, InformedOf
    <3>2. (IF IdOf(offer[p]) = NoId THEN offer[p].art.own ELSE IdOf(offer[p])) \in ever'
      BY <1>4, <3>1 DEF FinalId
    <3> QED
      BY <1>1, <3>2 DEF Truly, IdOf
  <2>6. \A o \in accepted : Truly(o)'
    <3>1. /\ removals' \in Nat /\ removals <= removals'
          /\ failures' \in Nat /\ failures <= failures'
      BY <1>1, <1>2, TransferAssumption DEF TransferInv, TransferTypeOK
    <3>2. \A o \in accepted : Truly(o)
      BY DEF TransferInv, TakenTrue, Truly
    <3>3. ever \subseteq ever' /\ TransferTypeOK
      BY <1>4 DEF TransferInv
    <3> QED
      BY <3>1, <3>2, <3>3, AnswersStay
  <2>7. TakenTrue'
    BY <1>1, <2>1, <2>2, <2>5, <2>6 DEF TakenTrue, Truly
  <2>8. Recorded'
    BY <1>1, <1>4 DEF TransferInv, Recorded
  <2>9. Informed'
    <3> SUFFICES ASSUME NEW q \in Peers PROVE InformedOf(q)'
      BY DEF Informed
    <3>1. CASE q = p
      BY <1>1, <3>1 DEF TransferInv, TransferTypeOK, InformedOf
    <3>2. CASE q # p
      <4>1. at'[q] = at[q] /\ InformedOf(q)
        BY <1>1, <3>2 DEF TransferInv, TransferTypeOK, Informed
      <4>2. \A x \in DOMAIN stored : x \in DOMAIN stored' /\ stored'[x] = stored[x]
        BY <1>4, <2>1
      <4>3. Found(q) => Found(q)'
        BY <1>1, <4>2 DEF Found
      <4> QED
        BY <1>1, <4>1, <4>3 DEF InformedOf
    <3> QED
      BY <3>1, <3>2
  <2> QED
    BY <2>4, <2>7, <2>8, <2>9 DEF TransferInv
<1>5. CASE /\ (~CanInsert(p) /\ UNCHANGED failures) \/ Fail
           /\ IF offer[p].how = "post" THEN Answer(p) ELSE AnswerWell(p)
           /\ UNCHANGED <<stored, ever>>
  <2>1. /\ accepted' = accepted \/ accepted' = accepted \cup {offer[p]}
        /\ accepted' # accepted => offer[p].how # "post"
    BY <1>5 DEF Answer, AnswerWell
  <2>2. TransferTypeOK'
    BY <1>1, <1>2, <1>3, <1>5, <2>1 DEF TransferInv, TransferTypeOK
  <2>3. accepted' # accepted => Truly(offer[p])'
    <3>1. CASE ~CanInsert(p) /\ UNCHANGED failures
      <4>1. accepted' # accepted => Truly(offer[p])
        BY <1>1, <2>1, <3>1, RefusedTrue
      <4>2. UNCHANGED <<ever, failures, removals, offer>>
        BY <1>1, <1>5, <3>1
      <4>3. Truly(offer[p]) => Truly(offer[p])'
        BY <4>2 DEF Truly, IdOf
      <4> QED
        BY <4>1, <4>3
    <3>2. CASE Fail
      <4>1. failures' > 0
        BY <3>2, TransferAssumption DEF Fail, TransferInv, TransferTypeOK
      <4> QED
        BY <1>1, <2>1, <4>1 DEF Truly
    <3> QED
      BY <1>5, <3>1, <3>2
  <2>4. \A o \in accepted' : o \in accepted \/ Truly(o)'
    BY <1>1, <2>1, <2>3
  <2>5. TakenTrue' /\ Recorded'
    BY <1>1, <1>2, <1>5, <2>2, <2>4, TablesStay
  <2>6. Informed'
    <3> SUFFICES ASSUME NEW q \in Peers PROVE InformedOf(q)'
      BY DEF Informed
    <3>1. CASE q = p
      BY <1>1, <3>1 DEF TransferInv, TransferTypeOK, InformedOf
    <3>2. CASE q # p
      BY <1>1, <1>5, <3>2, OthersInformed DEF TransferInv, TransferTypeOK, Informed
    <3> QED
      BY <3>1, <3>2
  <2> QED
    BY <2>2, <2>5, <2>6 DEF TransferInv
<1> QED
  BY <1>4, <1>5 DEF Submit

\* A thread that is removed goes with its posts, so that what is left is whole;
\* who has found it, has found nothing.
LEMMA RemovePostInv ==
    ASSUME TransferInv, RemovePost
    PROVE  TransferInv'
<1>1. PICK id \in DOMAIN stored, ban \in BOOLEAN :
        /\ stored' = [x \in {y \in DOMAIN stored : y # id /\ stored[y].thread # id} |-> stored[x]]
        /\ banned' = IF ban THEN banned \cup {id} ELSE banned
        /\ info' = [p \in Peers |-> IF info[p].thread = id
                                    THEN [info[p] EXCEPT !.thread = BadId] ELSE info[p]]
  BY DEF RemovePost
<1>2. UNCHANGED <<boards, at, offer, ever, accepted, offers, failures>>
  BY DEF RemovePost
<1>3. removals' = removals + 1 /\ removals' \in 0..MaxRemovals /\ removals' > 0
  BY TransferAssumption DEF RemovePost, TransferInv, TransferTypeOK
<1>4. info \in [Peers -> InfoType]
  BY DEF TransferInv, TransferTypeOK, InfoType
<1>5. info' \in [Peers -> InfoType]
  BY <1>1, <1>4 DEF InfoType
<1>6. /\ DOMAIN stored' = {y \in DOMAIN stored : y # id /\ stored[y].thread # id}
      /\ \A x \in DOMAIN stored' : stored'[x] = stored[x]
  BY <1>1
<1>7. /\ DOMAIN stored' \subseteq Nat \ {0} /\ stored' \in [DOMAIN stored' -> RowType]
  BY <1>1, <1>6 DEF TransferInv, TransferTypeOK
<1>8. id \in ever /\ DOMAIN stored' \subseteq ever
  BY <1>1, <1>6 DEF TransferInv, Recorded
<1>9. TransferTypeOK'
  BY <1>1, <1>2, <1>3, <1>5, <1>7, <1>8 DEF TransferInv, TransferTypeOK, InfoType
<1>10. Whole(stored, boards)'
  <2>1. Whole(stored, boards)
    BY DEF TransferInv, TakenTrue
  <2> SUFFICES ASSUME NEW x \in DOMAIN stored'
               PROVE  /\ stored'[x].group \in boards'
                      /\ stored'[x].thread \in DOMAIN stored'
                      /\ stored'[stored'[x].thread].thread = stored'[x].thread
                      /\ stored'[stored'[x].thread].group = stored'[x].group
                      /\ stored'[stored'[x].thread].date <= stored'[x].date
    BY DEF Whole
  <2>2. /\ x \in DOMAIN stored /\ stored[x].thread # id
        /\ stored[x].group \in boards
        /\ stored[x].thread \in DOMAIN stored
        /\ stored[stored[x].thread].thread = stored[x].thread
        /\ stored[stored[x].thread].group = stored[x].group
        /\ stored[stored[x].thread].date <= stored[x].date
    BY <1>6, <2>1 DEF Whole
  <2>3. stored[x].thread \in DOMAIN stored'
    BY <1>6, <2>2
  <2> QED
    BY <1>2, <1>6, <2>2, <2>3
<1>11. \A o \in accepted : Truly(o)'
  <2>1. \A o \in accepted : Truly(o)
    BY DEF TransferInv, TakenTrue, Truly
  <2>2. /\ failures \in Nat /\ failures' \in Nat /\ failures <= failures'
        /\ removals' \in Nat /\ removals <= removals'
        /\ ever \subseteq ever' /\ TransferTypeOK
    BY <1>2, <1>3, TransferAssumption DEF TransferInv, TransferTypeOK
  <2> QED
    BY <2>1, <2>2, AnswersStay
<1>12. TakenTrue'
  BY <1>2, <1>10, <1>11 DEF TakenTrue, Truly
<1>13. Recorded'
  BY <1>2, <1>3, <1>8 DEF Recorded
<1>14. Informed'
  <2> SUFFICES ASSUME NEW p \in Peers PROVE InformedOf(p)'
    BY DEF Informed
  <2>1. /\ info[p] \in InfoType /\ InformedOf(p)
        /\ info'[p] = IF info[p].thread = id THEN [info[p] EXCEPT !.thread = BadId] ELSE info[p]
    BY <1>1, <1>4 DEF TransferInv, Informed
  <2>2. /\ info'[p].id = info[p].id /\ info'[p].group = info[p].group
        /\ info'[p].ref = info[p].ref /\ info'[p].date = info[p].date
        /\ info'[p].thread = IF info[p].thread = id THEN BadId ELSE info[p].thread
    BY <2>1 DEF InfoType
  <2>3. Found(p) => Found(p)'
    <3>1. CASE info'[p].thread = BadId
      BY <1>3, <3>1 DEF Found
    <3>2. CASE info[p].thread # id /\ info[p].thread # BadId
      <4>1. ASSUME Found(p) PROVE info[p].thread \in DOMAIN stored'
        BY <1>6, <3>2, <4>1 DEF Found
      <4> QED
        BY <1>6, <2>2, <3>2, <4>1 DEF Found
    <3> QED
      BY <2>2, <3>1, <3>2
  <2> QED
    BY <1>2, <2>1, <2>2, <2>3 DEF InformedOf
<1> QED
  BY <1>9, <1>12, <1>13, <1>14 DEF TransferInv

\* A step that changes nothing but the groups, if at all.
LEMMA GroupsGrowInv ==
    ASSUME TransferInv, boards \subseteq boards', boards' \subseteq boards \cup AutoAdd,
           UNCHANGED <<stored, banned, at, offer, info, ever, accepted, offers, removals, failures>>
    PROVE  TransferInv'
<1>1. TransferTypeOK'
  BY DEF TransferInv, TransferTypeOK
<1>2. failures <= failures'
  BY TransferAssumption DEF TransferInv, TransferTypeOK
<1>3. TakenTrue' /\ Recorded'
  BY <1>1, <1>2, TablesStay
<1>4. Informed'
  BY OthersInformed DEF TransferInv, Informed
<1> QED
  BY <1>1, <1>3, <1>4 DEF TransferInv

LEMMA TransferStepInv ==
    ASSUME TransferInv, [TransferNext]_transferVars
    PROVE  TransferInv'
<1>1. ASSUME NEW p \in Peers, Handling(p) PROVE TransferInv'
  BY <1>1, BeginInv, DigestHeadInv, AcceptHeadInv, TakeTextInv, SubmitInv DEF Handling
<1>2. CASE RemovePost
  BY <1>2, RemovePostInv
<1>3. CASE ListedGroup
  BY <1>3, GroupsGrowInv DEF ListedGroup
<1>4. CASE UNCHANGED transferVars
  BY <1>4, GroupsGrowInv DEF transferVars
<1> QED
  BY <1>1, <1>2, <1>3, <1>4 DEF TransferNext

\* The invariant holds in every state, for every set of peers and of offers, and
\* for all bounds on failures and removals: nntppost.go:304-464.
THEOREM TransferInvariant == TransferSpec => []TransferInv
<1> QED
  BY TransferInitInv, TransferStepInv, PTL DEF TransferSpec

\* What is stored of an article, and what a handler knows, always has its type.
THEOREM TransferTypes == TransferSpec => []TransferTypeOK
<1>1. TransferInv => TransferTypeOK
  BY DEF TransferInv
<1> QED
  BY <1>1, TransferInvariant, PTL

\* Whatever happens between the looks at the database and the insertion, what is
\* stored is whole, and who was answered well was told the truth (HandlePost,
\* HandleIHave, HandleTakeThis, netnewsSubmitArticle).
THEOREM TakenTrueHolds == TransferSpec => []TakenTrue
<1>1. TransferInv => TakenTrue
  BY DEF TransferInv
<1> QED
  BY <1>1, TransferInvariant, PTL
-----------------------------------------------------------------------------
(***************************************************************************)
(* The buffered reader.                                                    *)
(***************************************************************************)

\* The lesser of two numbers.
LEMMA MinOfTwo ==
    ASSUME NEW a \in Int, NEW b \in Int
    PROVE  Min({a, b}) = IF a <= b THEN a ELSE b
<1>1. CASE a <= b
  <2>1. a \in {a, b} /\ \A y \in {a, b} : a <= y
    BY <1>1
  <2>2. \A x \in {a, b} : (\A y \in {a, b} : x <= y) => x = a
    BY <1>1
  <2> QED
    BY <1>1, <2>1, <2>2 DEF Min
<1>2. CASE ~(a <= b)
  <2>1. b \in {a, b} /\ \A y \in {a, b} : b <= y
    BY <1>2
  <2>2. \A x \in {a, b} : (\A y \in {a, b} : x <= y) => x = b
    BY <1>2
  <2> QED
    BY <1>2, <2>1, <2>2 DEF Min
<1> QED
  BY <1>1, <1>2

\* A sequence is its first elements and the rest.
LEMMA FirstRest ==
    ASSUME NEW S, NEW s \in Seq(S), NEW n \in 0 .. Len(s)
    PROVE  /\ First(s, n) \in Seq(S) /\ Rest(s, n) \in Seq(S)
           /\ Len(First(s, n)) = n /\ Len(Rest(s, n)) = Len(s) - n
           /\ \A i \in 1 .. n : First(s, n)[i] = s[i]
           /\ \A i \in 1 .. Len(s) - n : Rest(s, n)[i] = s[n + i]
           /\ First(s, n) \o Rest(s, n) = s
<1> DEFINE a == SubSeq(s, 1, n)  b == SubSeq(s, n + 1, Len(s))
<1>1. Len(s) \in Nat /\ n \in Nat /\ n <= Len(s)
  OBVIOUS
<1>2. a \in Seq(S) /\ Len(a) = n /\ \A i \in 1 .. n : a[i] = s[i]
  BY <1>1
<1>3. b \in Seq(S) /\ Len(b) = Len(s) - n /\ \A i \in 1 .. Len(s) - n : b[i] = s[n + i]
  BY <1>1
<1> HIDE DEF a, b
<1>4. /\ a \o b \in Seq(S) /\ Len(a \o b) = Len(s)
      /\ \A i \in 1 .. Len(s) : (a \o b)[i] = IF i <= n THEN a[i] ELSE b[i - n]
  BY <1>1, <1>2, <1>3
<1>5. \A i \in 1 .. Len(s) : (a \o b)[i] = s[i]
  <2> SUFFICES ASSUME NEW i \in 1 .. Len(s) PROVE (a \o b)[i] = s[i]
    OBVIOUS
  <2>1. CASE i <= n
    BY <1>1, <1>2, <1>4, <2>1
  <2>2. CASE i > n
    <3>1. i - n \in 1 .. Len(s) - n /\ n + (i - n) = i
      BY <1>1, <2>2
    <3>2. b[i - n] = s[n + (i - n)]
      BY <1>3, <3>1
    <3> QED
      BY <1>1, <1>4, <2>2, <3>1, <3>2
  <2>3. i <= n \/ i > n
    BY <1>1
  <2> QED
    BY <2>1, <2>2, <2>3
<1>6. a \o b = s
  BY <1>1, <1>4, <1>5, SeqEqual
<1> QED
  BY <1>2, <1>3, <1>6 DEF a, b, First, Rest

\* How sequences are put together does not matter.
LEMMA Joining ==
    ASSUME NEW S
    PROVE  /\ \A a, b \in Seq(S) : a \o b \in Seq(S) /\ Len(a \o b) = Len(a) + Len(b)
           /\ \A a, b, c \in Seq(S) : (a \o b) \o c = a \o (b \o c)
           /\ \A a \in Seq(S) : a \o <<>> = a /\ <<>> \o a = a
<1>1. \A a, b \in Seq(S) : a \o b \in Seq(S) /\ Len(a \o b) = Len(a) + Len(b)
  BY ConcatProperties
<1>2. \A a, b, c \in Seq(S) : (a \o b) \o c = a \o (b \o c)
  <2> TAKE a, b, c \in Seq(S)
  <2> QED
    BY ConcatAssociative
<1>3. \A a \in Seq(S) : a \o <<>> = a /\ <<>> \o a = a
  BY ConcatEmptySeq
<1> QED
  BY <1>1, <1>2, <1>3

\* The same, the other way round.
LEMMA Assoc ==
    ASSUME NEW S, NEW a \in Seq(S), NEW b \in Seq(S), NEW c \in Seq(S)
    PROVE  a \o (b \o c) = (a \o b) \o c
<1>1. (a \o b) \o c = a \o (b \o c)
  BY ConcatAssociative
<1> QED
  BY <1>1

\* What is cut from the front of one sequence is put behind another.
LEMMA MovedOut ==
    ASSUME NEW S
    PROVE  \A a, b \in Seq(S) : \A k \in 0 .. Len(b) :
              (a \o First(b, k)) \o Rest(b, k) = a \o b
<1> TAKE a, b \in Seq(S)
<1> TAKE k \in 0 .. Len(b)
<1> DEFINE x == First(b, k)  y == Rest(b, k)
<1>1. x \in Seq(S) /\ y \in Seq(S) /\ x \o y = b
  BY FirstRest
<1> HIDE DEF x, y
<1>2. x \in Seq(S)
  BY <1>1
<1>3. y \in Seq(S)
  BY <1>1
<1>4. a \o (x \o y) = (a \o x) \o y
  BY <1>2, <1>3, Assoc
<1>5. (a \o x) \o y = a \o b
  BY <1>1, <1>4
<1> QED
  BY <1>5 DEF x, y

\* What is cut from the front of the bytes below is put behind the buffer.
LEMMA MovedIn ==
    ASSUME NEW S
    PROVE  \A a, b, c \in Seq(S) : \A k \in 0 .. Len(b) :
              (c \o (a \o First(b, k))) \o Rest(b, k) = (c \o a) \o b
<1> DEFINE cat(u, v) == u \o v
<1>1. \A a, c, x, y \in Seq(S) : cat(cat(c, cat(a, x)), y) = cat(cat(c, a), cat(x, y))
  <2> TAKE a, c, x, y \in Seq(S)
  <2> DEFINE d == c \o a
  <2>1. d \in Seq(S) /\ d = c \o a
    BY ConcatProperties
  <2>2. c \o (a \o x) = (c \o a) \o x
    BY Assoc
  <2> HIDE DEF d
  <2>3. d \o (x \o y) = (d \o x) \o y
    <3>1. d \in Seq(S)
      BY <2>1
    <3> QED
      BY <3>1, Assoc
  <2> QED
    BY <2>1, <2>2, <2>3
<1>2. \A b \in Seq(S) : \A k \in 0 .. Len(b) :
         /\ First(b, k) \in Seq(S) /\ Rest(b, k) \in Seq(S)
         /\ cat(First(b, k), Rest(b, k)) = b
  BY FirstRest
<1> HIDE DEF cat
<1>3. \A a, b, c \in Seq(S) : \A k \in 0 .. Len(b) :
         cat(cat(c, cat(a, First(b, k))), Rest(b, k)) = cat(cat(c, a), b)
  BY <1>1, <1>2
<1> QED
  BY <1>3 DEF cat

\* Where a delimiter is found.
LEMMA DelimIs ==
    ASSUME NEW S, NEW s \in Seq(S), NEW d
    PROVE  LET place == SelectInSeq(s, LAMBDA c : c = d)
           IN  /\ place \in 0 .. Len(s)
               /\ place > 0 => s[place] = d /\ \A i \in 1 .. place - 1 : s[i] # d
               /\ place = 0 => \A i \in 1 .. Len(s) : s[i] # d
<1> DEFINE I == {i \in 1 .. Len(s) : s[i] = d}
           place == SelectInSeq(s, LAMBDA c : c = d)
<1>1. place = IF I # {} THEN Min(I) ELSE 0
  BY DEF SelectInSeq
<1> HIDE DEF place
<1>2. ASSUME I = {}
      PROVE  place = 0 /\ \A i \in 1 .. Len(s) : s[i] # d
  BY <1>1, <1>2
<1>3. ASSUME I # {}
      PROVE  place \in 1 .. Len(s) /\ s[place] = d /\ \A i \in 1 .. place - 1 : s[i] # d
  <2>1. \E x \in I : \A y \in I : x <= y
    <3>1. I \subseteq Nat
      OBVIOUS
    <3> HIDE DEF I
    <3> QED
      BY <1>3, <3>1, HasLeast
  <2>2. Min(I) \in I /\ \A y \in I : Min(I) <= y
    <3> HIDE DEF I
    <3> QED
      BY <2>1 DEF Min
  <2>3. place \in I /\ \A y \in I : place <= y
    <3> HIDE DEF I
    <3> QED
      BY <1>1, <1>3, <2>2
  <2>4. place \in 1 .. Len(s) /\ s[place] = d
    BY <2>3
  <2> QED
    BY <2>3, <2>4
<1>4. /\ place \in 0 .. Len(s)
      /\ place > 0 => s[place] = d /\ \A i \in 1 .. place - 1 : s[i] # d
      /\ place = 0 => \A i \in 1 .. Len(s) : s[i] # d
  <2>1. Len(s) \in Nat
    OBVIOUS
  <2> HIDE DEF I
  <2> QED
    BY <1>2, <1>3, <2>1
<1> QED
  BY <1>4 DEF place

BufOps == {"none", "Read", "ReadByte", "ReadUntil", "FillBufferAtleast", "FillBufferUpto", "Discard"}

\* Every byte has been given, is in the buffer or is still below, in this order;
\* the end is reported when nothing is below any more.
Flow(Bytes) ==
    /\ size \in Nat \ {0} /\ lead \in Nat /\ lead + Len(buf) <= size
    /\ input \in Seq(Bytes) /\ src \in Seq(Bytes) /\ buf \in Seq(Bytes) /\ given \in Seq(Bytes)
    /\ (given \o buf) \o src = input
    /\ queued \in {"nil", "EOF"} /\ (queued = "EOF" => src = <<>>)

\* What one read may return.
LEMMA ReadsIs ==
    ASSUME NEW Bytes, Flow(Bytes), NEW n \in Int, NEW x \in Reads(n)
    PROVE  /\ x[1] \in 0 .. Len(src) /\ x[1] <= n /\ x[2] \in {"nil", "EOF"}
           /\ x[2] = "EOF" => x[1] = Len(src)
<1>1. Len(src) \in Nat
  BY DEF Flow
<1>2. /\ x \in (0 .. Min({n, Len(src)})) \X {"nil", "EOF"}
      /\ x[2] = "EOF" => x[1] = Len(src)
  BY DEF Reads
<1>3. Min({n, Len(src)}) = IF n <= Len(src) THEN n ELSE Len(src)
  BY <1>1, MinOfTwo
<1> QED
  BY <1>1, <1>2, <1>3

\* The empty buffer is filled.
LEMMA RefillFlow ==
    ASSUME NEW Bytes, Flow(Bytes), buf = <<>>, Refill, UNCHANGED <<size, input>>
    PROVE  Flow(Bytes)'
<1>1. PICK x \in Reads(size) :
         /\ buf' = First(src, x[1]) /\ src' = Rest(src, x[1])
         /\ lead' = 0 /\ queued' = x[2] /\ UNCHANGED given
  BY DEF Refill
<1>2. size \in Int
  BY DEF Flow
<1>3. /\ x[1] \in 0 .. Len(src) /\ x[1] <= size /\ x[2] \in {"nil", "EOF"}
      /\ x[2] = "EOF" => x[1] = Len(src)
  BY <1>2, ReadsIs
<1> DEFINE n == x[1]
<1> HIDE DEF n
<1>4. /\ n \in 0 .. Len(src) /\ n <= size /\ queued' \in {"nil", "EOF"}
      /\ queued' = "EOF" => n = Len(src)
      /\ buf' = First(src, n) /\ src' = Rest(src, n) /\ lead' = 0 /\ given' = given
  BY <1>1, <1>3 DEF n
<1>5. /\ src \in Seq(Bytes) /\ given \in Seq(Bytes)
      /\ (given \o <<>>) \o src = input /\ size \in Nat \ {0}
  BY DEF Flow
<1>6. /\ buf' \in Seq(Bytes) /\ src' \in Seq(Bytes) /\ Len(buf') = n /\ Len(src') = Len(src) - n
      /\ buf' \o src' = src
  BY <1>4, <1>5, FirstRest
<1>7. (given' \o buf') \o src' = input
  <2>0. /\ \A p, q, r \in Seq(Bytes) : (p \o q) \o r = p \o (q \o r)
        /\ \A p \in Seq(Bytes) : p \o <<>> = p
    BY Joining
  <2>1. (given \o buf') \o src' = given \o (buf' \o src')
    BY <1>5, <1>6, <2>0
  <2>2. given \o <<>> = given
    BY <1>5, <2>0
  <2> QED
    BY <1>4, <1>5, <1>6, <2>1, <2>2
<1>8. queued' = "EOF" => src' = <<>>
  BY <1>4, <1>6, EmptySeq
<1>9. lead' \in Nat /\ lead' + Len(buf') <= size
  BY <1>4, <1>5, <1>6
<1> QED
  BY <1>4, <1>5, <1>6, <1>7, <1>8, <1>9 DEF Flow

\* Bytes are taken from the buffer.
LEMMA TakeFlow ==
    ASSUME NEW Bytes, Flow(Bytes), NEW n \in 0 .. Len(buf), Take(n), UNCHANGED <<size, input>>
    PROVE  Flow(Bytes)'
<1>1. /\ buf' = Rest(buf, n) /\ lead' = lead + n /\ given' = given \o First(buf, n)
      /\ UNCHANGED <<src, queued>>
  BY DEF Take
<1>2. /\ src \in Seq(Bytes) /\ buf \in Seq(Bytes) /\ given \in Seq(Bytes) /\ Len(buf) \in Nat
      /\ (given \o buf) \o src = input /\ lead \in Nat /\ lead + Len(buf) <= size /\ size \in Nat \ {0}
  BY DEF Flow
<1>3. buf' \in Seq(Bytes) /\ Len(buf') = Len(buf) - n
  BY <1>1, <1>2, FirstRest
<1>4. given' \in Seq(Bytes) /\ (given' \o buf') \o src' = input
  <2>1. (given \o First(buf, n)) \o Rest(buf, n) = given \o buf
    <3>1. \A a, b \in Seq(Bytes) : \A k \in 0 .. Len(b) :
             (a \o First(b, k)) \o Rest(b, k) = a \o b
      BY MovedOut
    <3>2. given \in Seq(Bytes) /\ buf \in Seq(Bytes) /\ n \in 0 .. Len(buf)
      BY <1>2
    <3> QED
      BY <3>1, <3>2
  <2>2. First(buf, n) \in Seq(Bytes)
    BY <1>2, FirstRest
  <2>3. given \o First(buf, n) \in Seq(Bytes)
    BY <1>2, <2>2, Joining
  <2> QED
    BY <1>1, <1>2, <2>1, <2>3
<1>5. lead' \in Nat /\ lead' + Len(buf') <= size
  BY <1>1, <1>2, <1>3
<1> QED
  BY <1>1, <1>2, <1>3, <1>4, <1>5 DEF Flow

\* Bytes are added to the buffer.
LEMMA ExtendFlow ==
    ASSUME NEW Bytes, Flow(Bytes), NEW most \in Int, Extend(most), UNCHANGED <<size, input>>
    PROVE  /\ Flow(Bytes)'
           /\ Len(buf') \in Len(buf) .. size
<1>1. PICK x \in Reads(Min({most, Capacity})) :
         /\ buf' = buf \o First(src, x[1]) /\ src' = Rest(src, x[1])
         /\ lead' = Rewound /\ queued' = x[2] /\ UNCHANGED given
  BY DEF Extend
<1>2. /\ src \in Seq(Bytes) /\ buf \in Seq(Bytes) /\ given \in Seq(Bytes) /\ Len(buf) \in Nat
      /\ (given \o buf) \o src = input /\ lead \in Nat /\ lead + Len(buf) <= size /\ size \in Nat \ {0}
  BY DEF Flow
<1>3. Rewound \in Nat /\ Capacity \in Int /\ Capacity = size - Rewound - Len(buf)
  BY <1>2 DEF Rewound, Capacity
<1>4. Min({most, Capacity}) \in Int /\ Min({most, Capacity}) <= Capacity
  BY <1>3, MinOfTwo
<1>5. /\ x[1] \in 0 .. Len(src) /\ x[1] <= Min({most, Capacity}) /\ x[2] \in {"nil", "EOF"}
      /\ x[2] = "EOF" => x[1] = Len(src)
  BY <1>4, ReadsIs
<1> DEFINE n == x[1]
<1> HIDE DEF n
<1>6. /\ n \in 0 .. Len(src) /\ n <= Capacity /\ queued' \in {"nil", "EOF"}
      /\ queued' = "EOF" => n = Len(src)
      /\ buf' = buf \o First(src, n) /\ src' = Rest(src, n) /\ lead' = Rewound /\ given' = given
  <2>1. n \in Int /\ n <= Min({most, Capacity})
    BY <1>2, <1>5 DEF n
  <2>2. n <= Capacity
    BY <1>3, <1>4, <2>1
  <2> QED
    BY <1>1, <1>5, <2>2 DEF n
<1>7. /\ First(src, n) \in Seq(Bytes) /\ Len(First(src, n)) = n
      /\ src' \in Seq(Bytes) /\ Len(src') = Len(src) - n
  BY <1>2, <1>6, FirstRest
<1>8. buf' \in Seq(Bytes) /\ Len(buf') = Len(buf) + n
  <2>1. \A p, q \in Seq(Bytes) : p \o q \in Seq(Bytes) /\ Len(p \o q) = Len(p) + Len(q)
    BY Joining
  <2> DEFINE f == First(src, n)
  <2>2. f \in Seq(Bytes) /\ Len(f) = n /\ buf' = buf \o f
    BY <1>6, <1>7
  <2> HIDE DEF f
  <2> QED
    BY <1>2, <2>1, <2>2
<1>9. (given' \o buf') \o src' = input
  <2>1. (given \o (buf \o First(src, n))) \o Rest(src, n) = (given \o buf) \o src
    <3>1. \A a, b, c \in Seq(Bytes) : \A k \in 0 .. Len(b) :
             (c \o (a \o First(b, k))) \o Rest(b, k) = (c \o a) \o b
      BY MovedIn
    <3>2. given \in Seq(Bytes) /\ buf \in Seq(Bytes) /\ src \in Seq(Bytes) /\ n \in 0 .. Len(src)
      BY <1>2, <1>6
    <3> QED
      BY <3>1, <3>2
  <2> QED
    BY <1>2, <1>6, <2>1
<1>10. queued' = "EOF" => src' = <<>>
  BY <1>6, <1>7, EmptySeq
<1>11. lead' \in Nat /\ lead' + Len(buf') <= size /\ Len(buf') \in Len(buf) .. size
  BY <1>2, <1>3, <1>6, <1>8
<1> QED
  BY <1>2, <1>6, <1>7, <1>8, <1>9, <1>10, <1>11 DEF Flow

\* The buffer is skipped and filled again, or skipped for good.
LEMMA FlushFlow ==
    ASSUME NEW Bytes, Flow(Bytes), UNCHANGED <<size, input>>, given' = given \o buf, lead' = 0,
           \/ buf' = <<>> /\ queued' = "nil" /\ UNCHANGED src
           \/ \E x \in Reads(size) :
                 buf' = First(src, x[1]) /\ src' = Rest(src, x[1]) /\ queued' = x[2]
    PROVE  Flow(Bytes)'
<1>1. /\ src \in Seq(Bytes) /\ buf \in Seq(Bytes) /\ given \in Seq(Bytes) /\ Len(src) \in Nat
      /\ (given \o buf) \o src = input /\ size \in Nat \ {0} /\ given \o buf \in Seq(Bytes)
  BY DEF Flow
<1>2. given' \in Seq(Bytes) /\ given' \o src = input
  BY <1>1
<1>3. CASE buf' = <<>> /\ queued' = "nil" /\ UNCHANGED src
  <2>1. (given' \o buf') \o src' = input
    BY <1>2, <1>3, ConcatEmptySeq
  <2> QED
    BY <1>1, <1>2, <1>3, <2>1 DEF Flow
<1>4. CASE \E x \in Reads(size) :
              buf' = First(src, x[1]) /\ src' = Rest(src, x[1]) /\ queued' = x[2]
  <2>1. PICK x \in Reads(size) :
           buf' = First(src, x[1]) /\ src' = Rest(src, x[1]) /\ queued' = x[2]
    BY <1>4
  <2>2. /\ x[1] \in 0 .. Len(src) /\ x[1] <= size /\ x[2] \in {"nil", "EOF"}
        /\ x[2] = "EOF" => x[1] = Len(src)
    BY <1>1, ReadsIs
  <2> DEFINE n == x[1]
  <2> HIDE DEF n
  <2>3. /\ n \in 0 .. Len(src) /\ n <= size /\ queued' \in {"nil", "EOF"}
        /\ queued' = "EOF" => n = Len(src)
        /\ buf' = First(src, n) /\ src' = Rest(src, n)
    BY <2>1, <2>2 DEF n
  <2>4. /\ buf' \in Seq(Bytes) /\ src' \in Seq(Bytes) /\ Len(buf') = n /\ Len(src') = Len(src) - n
        /\ buf' \o src' = src
    BY <1>1, <2>3, FirstRest
  <2>5. (given' \o buf') \o src' = input
    <3>1. \A p, q, r \in Seq(Bytes) : (p \o q) \o r = p \o (q \o r)
      BY Joining
    <3>2. (given' \o buf') \o src' = given' \o (buf' \o src')
      BY <1>2, <2>4, <3>1
    <3> QED
      BY <1>2, <2>4, <3>2
  <2>6. queued' = "EOF" => src' = <<>>
    BY <2>3, <2>4, EmptySeq
  <2> QED
    BY <1>1, <1>2, <2>3, <2>4, <2>5, <2>6 DEF Flow
<1> QED
  BY <1>3, <1>4

\* Bytes are read around the empty buffer.
LEMMA DirectFlow ==
    ASSUME NEW Bytes, Flow(Bytes), buf = <<>>, NEW n \in 0 .. Len(src),
           src' = Rest(src, n), given' = given \o First(src, n),
           UNCHANGED <<size, input, buf, lead>>, queued = "nil", queued' = queued
    PROVE  Flow(Bytes)'
<1>1. /\ src \in Seq(Bytes) /\ given \in Seq(Bytes) /\ buf \in Seq(Bytes)
      /\ (given \o <<>>) \o src = input
  BY DEF Flow
<1>2. /\ First(src, n) \in Seq(Bytes) /\ src' \in Seq(Bytes) /\ First(src, n) \o src' = src
  BY <1>1, FirstRest
<1>3. given' \in Seq(Bytes)
  BY <1>1, <1>2
<1>4. (given' \o buf') \o src' = input
  <2>0. /\ \A p, q, r \in Seq(Bytes) : (p \o q) \o r = p \o (q \o r)
        /\ \A p \in Seq(Bytes) : p \o <<>> = p
    BY Joining
  <2>1. given' \o buf' = given' /\ given \o <<>> = given
    BY <1>1, <1>3, <2>0
  <2>2. given' \o src' = given \o (First(src, n) \o src')
    BY <1>1, <1>2, <2>0
  <2> QED
    BY <1>1, <1>2, <2>1, <2>2
<1> QED
  BY <1>2, <1>3, <1>4 DEF Flow

\* The byte that was just read goes back.
LEMMA UnreadFlow ==
    ASSUME NEW Bytes, Flow(Bytes), NEW c \in Bytes, given # <<>>, given[Len(given)] = c,
           CanUnread, UnreadByte(c), UNCHANGED <<size, input>>
    PROVE  Flow(Bytes)'
<1>1. /\ buf' = <<c>> \o buf /\ lead' = (IF lead = 0 THEN 0 ELSE lead - 1) /\ given' = Front(given)
      /\ UNCHANGED <<src, queued>>
  BY DEF UnreadByte
<1>2. /\ src \in Seq(Bytes) /\ buf \in Seq(Bytes) /\ given \in Seq(Bytes) /\ Len(buf) \in Nat
      /\ (given \o buf) \o src = input /\ lead \in Nat /\ lead + Len(buf) <= size /\ size \in Nat \ {0}
  BY DEF Flow
<1>3. given' \in Seq(Bytes) /\ given' \o <<c>> = given
  <2> DEFINE k == Len(given) - 1  f == First(given, k)  r == Rest(given, k)
  <2>1. Len(given) \in Nat \ {0}
    BY <1>2, EmptySeq
  <2>2. k \in 0 .. Len(given) /\ Len(given) - k = 1 /\ k + 1 = Len(given)
    BY <2>1
  <2>3. f \in Seq(Bytes) /\ r \in Seq(Bytes) /\ Len(r) = Len(given) - k /\ f \o r = given
        /\ \A i \in 1 .. Len(given) - k : r[i] = given[k + i]
    <3>1. \A n \in 0 .. Len(given) :
             /\ First(given, n) \in Seq(Bytes) /\ Rest(given, n) \in Seq(Bytes)
             /\ Len(Rest(given, n)) = Len(given) - n /\ First(given, n) \o Rest(given, n) = given
             /\ \A i \in 1 .. Len(given) - n : Rest(given, n)[i] = given[n + i]
      BY <1>2, FirstRest
    <3> HIDE DEF k
    <3> QED
      BY <2>2, <3>1
  <2>4. given' = f
    BY <1>1 DEF Front, First
  <2> HIDE DEF k, f, r
  <2>5. Len(r) = 1 /\ r[1] = c
    BY <2>2, <2>3
  <2>6. r = <<c>>
    <3>1. <<c>> \in Seq(Bytes) /\ Len(<<c>>) = 1 /\ <<c>>[1] = c
      OBVIOUS
    <3>2. \A i \in 1 .. Len(r) : r[i] = <<c>>[i]
      BY <2>5, <3>1
    <3> QED
      BY <2>3, <2>5, <3>1, <3>2, SeqEqual
  <2> QED
    BY <2>3, <2>4, <2>6
<1>4. <<c>> \in Seq(Bytes) /\ Len(<<c>>) = 1
  OBVIOUS
<1>5. buf' \in Seq(Bytes) /\ Len(buf') = Len(buf) + 1
  BY <1>1, <1>2, <1>4
<1>6. (given' \o buf') \o src' = input
  <2>0. \A p, q, r \in Seq(Bytes) : (p \o q) \o r = p \o (q \o r)
    BY Joining
  <2>1. given' \o (<<c>> \o buf) = (given' \o <<c>>) \o buf
    BY <1>2, <1>3, <1>4, <2>0
  <2> QED
    BY <1>1, <1>2, <1>3, <2>1
<1>7. lead' \in Nat /\ lead' + Len(buf') <= size
  <2>1. CASE lead = 0
    <3>1. Len(buf) = 0
      BY <2>1 DEF CanUnread
    <3> QED
      BY <1>1, <1>2, <1>5, <2>1, <3>1
  <2>2. CASE lead # 0
    BY <1>1, <1>2, <1>5, <2>2
  <2> QED
    BY <2>1, <2>2
<1>8. /\ size' \in Nat \ {0} /\ input' \in Seq(Bytes) /\ src' \in Seq(Bytes)
      /\ queued' \in {"nil", "EOF"} /\ (queued' = "EOF" => src' = <<>>)
  BY <1>1 DEF Flow
<1> QED
  BY <1>3, <1>5, <1>6, <1>7, <1>8 DEF Flow

\* What a call of a method has so far.
CallOK(Bytes, delims) ==
    /\ call \in [op : BufOps, want : Int, delim : delims \cup {""}, got : Seq(Bytes)]
    /\ call.op # "Discard" => call.want >= 0
    /\ call.op # "none" => last = NoResult
    /\ call.op = "ReadByte" => call.got = <<>>
    /\ call.op = "ReadUntil" =>
          Len(call.got) <= call.want /\ \A i \in 1 .. Len(call.got) : call.got[i] # call.delim
    /\ call.op = "Discard" /\ call.want >= 0 => Len(call.got) <= call.want

\* What the last call said; the byte of a ReadByte is the last that was given.
LastOK(Bytes) ==
    /\ last.op \in {"Read", "ReadByte", "ReadUntil", "Discard"} /\ last.err = "EOF" =>
          buf = <<>> /\ src = <<>>
    /\ last.op = "ReadUntil" =>
           LET n == Len(last.got)
           IN  /\ \A i \in 1..(n - 1) : last.got[i] # last.delim
               /\ last.err = "nil" <=> n > 0 /\ last.got[n] = last.delim
               /\ last.err = "ErrDelimNotFound" => n = last.want
    /\ last.op = "ReadByte" /\ last.err = "nil" =>
          given # <<>> /\ last.got[1] = given[Len(given)] /\ last.got[1] \in Bytes

BufInv(Bytes, delims) == Flow(Bytes) /\ CallOK(Bytes, delims) /\ LastOK(Bytes)

\* Nothing, as a sequence of bytes.
LEMMA NothingRead ==
    ASSUME NEW Bytes
    PROVE  <<>> \in Seq(Bytes) /\ Len(<<>>) = 0
  BY EmptySeq

\* An empty sequence has no places.
LEMMA NoPlaces ==
    \A n : n = 0 => \A i \in 1 .. n : FALSE
  OBVIOUS

\* While no call has ended, or one that says nothing of the kind.
LEMMA NothingSaid ==
    ASSUME NEW Bytes, last'.op \notin {"Read", "ReadByte", "ReadUntil", "Discard"}
    PROVE  LastOK(Bytes)'
  BY DEF LastOK

\* No call and no result, as records.
LEMMA NothingIs ==
    /\ NoCall.op = "none" /\ NoCall.want >= 0 /\ NoResult.op = "none"
    /\ \A Bytes, delims :
          NoCall \in [op : BufOps, want : Int, delim : delims \cup {""}, got : Seq(Bytes)]
<1>1. NoCall.op = "none" /\ NoCall.want >= 0 /\ NoResult.op = "none"
  BY DEF NoCall, NoResult
<1>2. ASSUME NEW Bytes, NEW delims
      PROVE  NoCall \in [op : BufOps, want : Int, delim : delims \cup {""}, got : Seq(Bytes)]
  <2>1. <<>> \in Seq(Bytes) /\ "none" \in BufOps /\ "" \in delims \cup {""} /\ 0 \in Int
    BY NothingRead DEF BufOps
  <2> QED
    BY <2>1 DEF NoCall
<1> QED
  BY <1>1, <1>2

\* The call is over.
LEMMA CallEnds ==
    ASSUME NEW Bytes, NEW delims, call' = NoCall
    PROVE  CallOK(Bytes, delims)'
<1>1. call' \in [op : BufOps, want : Int, delim : delims \cup {""}, got : Seq(Bytes)]
  BY NothingIs
<1>2. call'.op = "none" /\ call'.want >= 0
  BY NothingIs
<1>3. call'.op \notin {"ReadUntil", "ReadByte", "Discard"}
  BY <1>2
<1> QED
  BY <1>1, <1>2, <1>3 DEF CallOK

\* A call goes on as it is.
LEMMA CallGoesOn ==
    ASSUME NEW Bytes, NEW delims, CallOK(Bytes, delims), call.op # "none", UNCHANGED <<call, last>>
    PROVE  CallOK(Bytes, delims)' /\ LastOK(Bytes)'
<1>1. CallOK(Bytes, delims)'
  BY DEF CallOK
<1>2. last' = NoResult
  BY DEF CallOK
<1>3. last'.op = "none"
  BY <1>2, NothingIs
<1> QED
  BY <1>1, <1>3, NothingSaid

\* A call begins.
LEMMA StartInv ==
    ASSUME NEW Bytes, NEW wants \in SUBSET Nat, NEW delims, BufInv(Bytes, delims),
           Start(wants, delims)
    PROVE  BufInv(Bytes, delims)'
<1>1. /\ last' = NoResult /\ UNCHANGED <<size, input, src, buf, queued, given>>
      /\ lead' = Rewound \/ lead' = lead
  BY DEF Start
<1>2. Flow(Bytes)'
  <2>1. /\ size \in Nat \ {0} /\ lead \in Nat /\ lead + Len(buf) <= size /\ buf \in Seq(Bytes)
        /\ Len(buf) \in Nat
    BY DEF BufInv, Flow
  <2>2. lead' \in Nat /\ lead' + Len(buf') <= size
    BY <1>1, <2>1 DEF Rewound
  <2> QED
    BY <1>1, <2>2 DEF BufInv, Flow
<1>3. LastOK(Bytes)'
  BY <1>1, NothingIs, NothingSaid
<1>4. CallOK(Bytes, delims)'
  <2>1. \E op \in BufOps \ {"none"}, w \in Int, q \in delims \cup {""} :
           Calling(op, w, q) /\ (op # "Discard" => w >= 0)
    <3>1. CASE \E op \in {"Read", "FillBufferAtleast", "FillBufferUpto"}, w \in wants : Calling(op, w, "")
      <4>1. PICK op \in {"Read", "FillBufferAtleast", "FillBufferUpto"}, w \in wants : Calling(op, w, "")
        BY <3>1
      <4>2. op \in BufOps \ {"none"} /\ w \in Int /\ w >= 0 /\ "" \in delims \cup {""}
        BY DEF BufOps
      <4> QED
        BY <4>1, <4>2
    <3>2. CASE \E w \in wants, q \in delims : Calling("ReadUntil", w, q)
      <4>1. PICK w \in wants, q \in delims : Calling("ReadUntil", w, q)
        BY <3>2
      <4>2. "ReadUntil" \in BufOps \ {"none"} /\ w \in Int /\ w >= 0
        BY DEF BufOps
      <4>3. q \in delims \cup {""}
        BY <4>1
      <4> QED
        BY <4>1, <4>2, <4>3
    <3>3. CASE \E w \in wants \cup {-1} : Calling("Discard", w, "")
      <4>1. PICK w \in wants \cup {-1} : Calling("Discard", w, "")
        BY <3>3
      <4>2. "Discard" \in BufOps \ {"none"} /\ w \in Int /\ "" \in delims \cup {""}
        BY DEF BufOps
      <4> QED
        BY <4>1, <4>2
    <3>4. CASE Calling("ReadByte", 1, "")
      <4>1. "ReadByte" \in BufOps \ {"none"} /\ 1 \in Int /\ 1 >= 0 /\ "" \in delims \cup {""}
        BY DEF BufOps
      <4> QED
        BY <3>4, <4>1
    <3> QED
      BY <3>1, <3>2, <3>3, <3>4 DEF Start
  <2>2. PICK op \in BufOps \ {"none"}, w \in Int, q \in delims \cup {""} :
           Calling(op, w, q) /\ (op # "Discard" => w >= 0)
    BY <2>1
  <2>3. call' = [op |-> op, want |-> w, delim |-> q, got |-> <<>>]
    BY <2>2 DEF Calling
  <2>4. /\ call' \in [op : BufOps, want : Int, delim : delims \cup {""}, got : Seq(Bytes)]
        /\ call'.op = op /\ call'.want = w /\ call'.got = <<>> /\ Len(call'.got) = 0
    <3>1. <<>> \in Seq(Bytes) /\ Len(<<>>) = 0
      BY NothingRead
    <3> QED
      BY <2>3, <3>1
  <2> QED
    <3>1. /\ op # "Discard" => call'.want >= 0
          /\ call'.op # "none" => last' = NoResult
      BY <1>1, <2>2, <2>4
    <3>2. \A i \in 1 .. Len(call'.got) : call'.got[i] # call'.delim
      <4>1. Len(call'.got) = 0
        BY <2>4
      <4>2. \A i \in 1 .. Len(call'.got) : FALSE
        BY <4>1, NoPlaces
      <4> QED
        BY <4>2
    <3>3. call'.want >= 0 => Len(call'.got) <= call'.want
      BY <2>4
    <3>4. op = "ReadUntil" => Len(call'.got) <= call'.want
      BY <2>4, <3>1
    <3> QED
      BY <2>4, <3>1, <3>2, <3>3, <3>4 DEF CallOK
<1> QED
  BY <1>2, <1>3, <1>4 DEF BufInv

\* How a call that read to the end of its bytes, or found it, is reported.
LEMMA ReturnsIs ==
    ASSUME NEW got, NEW err, Returns(got, err)
    PROVE  /\ call' = NoCall /\ last'.op = call.op /\ last'.want = call.want
           /\ last'.delim = call.delim /\ last'.got = call.got \o got /\ last'.err = err
  BY DEF Returns

\* The end is reported when nothing is buffered.
LEMMA StarvedInv ==
    ASSUME NEW Bytes, NEW delims, BufInv(Bytes, delims), Starved,
           call.op \in {"Read", "ReadByte", "ReadUntil"}, UNCHANGED <<size, input>>
    PROVE  BufInv(Bytes, delims)'
<1>1. Flow(Bytes) /\ CallOK(Bytes, delims) /\ buf = <<>>
  BY DEF BufInv, Starved
<1>2. CASE queued # "nil" /\ readErr /\ Returns(<<>>, queued)
  <2>1. /\ queued' = "nil" /\ UNCHANGED <<src, buf, lead, given>> /\ queued = "EOF" /\ src = <<>>
    BY <1>1, <1>2 DEF readErr, Flow
  <2>2. Flow(Bytes)'
    BY <1>1, <2>1 DEF Flow
  <2>3. CallOK(Bytes, delims)'
    BY <1>2, ReturnsIs, CallEnds
  <2>4. /\ last'.op = call.op /\ last'.want = call.want /\ last'.delim = call.delim
        /\ last'.got = call.got \o <<>> /\ last'.err = "EOF"
    BY <1>2, <2>1, ReturnsIs
  <2>5. call.got \o <<>> = call.got /\ Len(call.got) \in Nat
    <3>1. call.got \in Seq(Bytes)
      BY <1>1 DEF CallOK
    <3> QED
      BY <3>1, Joining
  <2>6. LastOK(Bytes)'
    <3>1. ASSUME call.op = "ReadUntil"
          PROVE  \A i \in 1 .. Len(last'.got) : last'.got[i] # last'.delim
      BY <1>1, <2>4, <2>5, <3>1 DEF CallOK
    <3>2. ASSUME last'.op = "ReadUntil"
          PROVE  LET n == Len(last'.got)
                 IN  /\ \A i \in 1..(n - 1) : last'.got[i] # last'.delim
                     /\ last'.err = "nil" <=> n > 0 /\ last'.got[n] = last'.delim
                     /\ last'.err = "ErrDelimNotFound" => n = last'.want
      <4> DEFINE n == Len(last'.got)
      <4>1. n \in Nat
        BY <2>4, <2>5
      <4>2. \A i \in 1 .. n : last'.got[i] # last'.delim
        BY <2>4, <3>1, <3>2
      <4> HIDE DEF n
      <4>3. ~(n > 0 /\ last'.got[n] = last'.delim)
        BY <4>1, <4>2
      <4>4. \A i \in 1..(n - 1) : last'.got[i] # last'.delim
        BY <4>1, <4>2
      <4> QED
        BY <2>4, <4>3, <4>4 DEF n
    <3> QED
      BY <1>1, <2>1, <2>4, <3>2 DEF LastOK
  <2> QED
    BY <2>2, <2>3, <2>6 DEF BufInv
<1>3. CASE queued = "nil" /\ Refill /\ UNCHANGED <<call, last>>
  <2>1. Flow(Bytes)'
    BY <1>1, <1>3, RefillFlow
  <2>2. CallOK(Bytes, delims)' /\ LastOK(Bytes)'
    BY <1>1, <1>3, CallGoesOn
  <2> QED
    BY <2>1, <2>2 DEF BufInv
<1> QED
  BY <1>2, <1>3 DEF Starved

\* A call ends that is not one of ReadUntil and did not read a byte with ReadByte.
LEMMA EndsWell ==
    ASSUME NEW Bytes, NEW delims, NEW got, NEW err, Returns(got, err),
           call.op # "ReadUntil", call.op = "ReadByte" => err # "nil",
           call.op \in {"Read", "ReadByte", "Discard"} /\ err = "EOF" => buf' = <<>> /\ src' = <<>>
    PROVE  CallOK(Bytes, delims)' /\ LastOK(Bytes)'
<1>1. call' = NoCall /\ last'.op = call.op /\ last'.err = err
  BY ReturnsIs
<1>2. CallOK(Bytes, delims)'
  BY <1>1, CallEnds
<1>3. LastOK(Bytes)'
  BY <1>1 DEF LastOK
<1> QED
  BY <1>2, <1>3

\* Read gives what is buffered, or reads around the empty buffer.
LEMMA ReadInv ==
    ASSUME NEW Bytes, NEW delims, BufInv(Bytes, delims), Read
    PROVE  BufInv(Bytes, delims)'
<1>1. /\ Flow(Bytes) /\ CallOK(Bytes, delims) /\ call.op = "Read" /\ UNCHANGED <<size, input>>
  BY DEF BufInv, Read
<1>2. /\ call.want \in Int /\ call.want >= 0 /\ Len(buf) \in Nat /\ size \in Nat \ {0}
      /\ queued \in {"nil", "EOF"} /\ src \in Seq(Bytes)
  <2>1. /\ call \in [op : BufOps, want : Int, delim : delims \cup {""}, got : Seq(Bytes)]
        /\ call.want >= 0
    BY <1>1 DEF CallOK
  <2>2. call.want \in Int
    BY <2>1
  <2>3. /\ Len(buf) \in Nat /\ size \in Nat \ {0}
        /\ queued \in {"nil", "EOF"} /\ src \in Seq(Bytes)
    BY <1>1 DEF Flow
  <2> QED
    BY <2>1, <2>2, <2>3
<1>3. ASSUME NEW n, n = Min({call.want, Len(buf)}), Take(n), Returns(First(buf, n), "nil")
      PROVE  BufInv(Bytes, delims)'
  <2>1. n \in 0 .. Len(buf)
    <3>1. Min({call.want, Len(buf)}) = IF call.want <= Len(buf) THEN call.want ELSE Len(buf)
      BY <1>2, MinOfTwo
    <3> QED
      BY <1>2, <1>3, <3>1
  <2>2. Flow(Bytes)'
    BY <1>1, <1>3, <2>1, TakeFlow
  <2>3. CallOK(Bytes, delims)' /\ LastOK(Bytes)'
    <3>1. "nil" # "EOF" /\ call.op # "ReadUntil" /\ call.op # "ReadByte"
      BY <1>1
    <3> QED
      BY <1>3, <3>1, EndsWell
  <2> QED
    BY <2>2, <2>3 DEF BufInv
<1>4. CASE Starved
  BY <1>1, <1>4, StarvedInv
<1>5. CASE /\ call.want >= size /\ buf = <<>> /\ queued = "nil"
           /\ \E x \in Reads(call.want) :
                 /\ src' = Rest(src, x[1]) /\ Returns(First(src, x[1]), x[2])
                 /\ given' = given \o First(src, x[1])
           /\ UNCHANGED <<buf, lead, queued>>
  <2>1. PICK x \in Reads(call.want) :
           /\ src' = Rest(src, x[1]) /\ Returns(First(src, x[1]), x[2])
           /\ given' = given \o First(src, x[1])
    BY <1>5
  <2>2. x[1] \in 0 .. Len(src) /\ (x[2] = "EOF" => x[1] = Len(src))
    BY <1>1, <1>2, ReadsIs
  <2>3. Flow(Bytes)'
    BY <1>1, <1>5, <2>1, <2>2, DirectFlow
  <2>4. x[2] = "EOF" => buf' = <<>> /\ src' = <<>>
    <3>1. src' \in Seq(Bytes) /\ Len(src') = Len(src) - x[1] /\ Len(src) \in Nat
      BY <1>2, <2>1, <2>2, FirstRest
    <3>2. ASSUME x[2] = "EOF" PROVE src' = <<>>
      <4>1. Len(src') = 0
        BY <2>2, <3>1, <3>2
      <4> QED
        BY <3>1, <4>1, EmptySeq
    <3> QED
      BY <1>5, <3>2
  <2>5. CallOK(Bytes, delims)' /\ LastOK(Bytes)'
    <3>1. call.op # "ReadUntil" /\ call.op # "ReadByte"
      BY <1>1
    <3> QED
      BY <2>1, <2>4, <3>1, EndsWell
  <2> QED
    BY <2>3, <2>5 DEF BufInv
<1>6. CASE buf = <<>> /\ queued # "nil" /\ readErr /\ Returns(<<>>, queued)
  <2>1. Starved
    BY <1>6 DEF Starved
  <2> QED
    BY <1>4, <2>1
<1> QED
  BY <1>3, <1>4, <1>5, <1>6 DEF Read

\* The last byte of what was given is the last of what was added to it.
LEMMA LastAdded ==
    ASSUME NEW S, NEW a \in Seq(S), NEW b \in Seq(S), Len(b) = 1
    PROVE  /\ a \o b # <<>> /\ (a \o b)[Len(a \o b)] = b[1] /\ b[1] \in S
<1>1. Len(a \o b) = Len(a) + 1 /\ Len(a) \in Nat /\ a \o b \in Seq(S) /\ b[1] \in S
  <2>1. Len(a \o b) = Len(a) + Len(b) /\ a \o b \in Seq(S)
    BY ConcatProperties
  <2>2. 1 \in 1 .. Len(b) /\ Len(a) \in Nat
    OBVIOUS
  <2>3. b[1] \in S
    BY <2>2
  <2> QED
    BY <2>1, <2>2, <2>3
<1>2. (a \o b)[Len(a) + 1] = b[1]
  <2>1. \A i \in 1 .. Len(a) + Len(b) : (a \o b)[i] = IF i <= Len(a) THEN a[i] ELSE b[i - Len(a)]
    BY ConcatProperties
  <2>2. Len(a) + 1 \in 1 .. Len(a) + Len(b) /\ ~(Len(a) + 1 <= Len(a)) /\ (Len(a) + 1) - Len(a) = 1
    <3>1. Len(a) \in Nat /\ Len(b) = 1
      BY <1>1
    <3> QED
      BY <3>1
  <2> QED
    BY <2>1, <2>2
<1>3. a \o b # <<>>
  BY <1>1, EmptySeq
<1> QED
  BY <1>1, <1>2, <1>3

\* ReadByte gives the first byte that is buffered; it could be put back.
LEMMA ReadByteInv ==
    ASSUME NEW Bytes, NEW delims, BufInv(Bytes, delims), ReadByte
    PROVE  BufInv(Bytes, delims)'
<1>1. /\ Flow(Bytes) /\ CallOK(Bytes, delims) /\ call.op = "ReadByte" /\ UNCHANGED <<size, input>>
  BY DEF BufInv, ReadByte
<1>2. CASE buf # <<>> /\ Take(1) /\ Returns(First(buf, 1), "nil")
  <2>1. buf \in Seq(Bytes) /\ given \in Seq(Bytes) /\ call.got = <<>>
    BY <1>1 DEF Flow, CallOK
  <2>2. 1 \in 0 .. Len(buf)
    <3>1. Len(buf) \in Nat /\ Len(buf) # 0
      BY <1>2, <2>1, EmptySeq
    <3> QED
      BY <3>1
  <2>3. Flow(Bytes)'
    BY <1>1, <1>2, <2>2, TakeFlow
  <2>4. CallOK(Bytes, delims)'
    BY <1>2, ReturnsIs, CallEnds
  <2>5. First(buf, 1) \in Seq(Bytes) /\ Len(First(buf, 1)) = 1
    BY <2>1, <2>2, FirstRest
  <2>6. last'.op = "ReadByte" /\ last'.err = "nil" /\ last'.got = First(buf, 1)
    <3>1. last'.op = "ReadByte" /\ last'.err = "nil" /\ last'.got = <<>> \o First(buf, 1)
      BY <1>1, <1>2, <2>1, ReturnsIs
    <3>2. <<>> \o First(buf, 1) = First(buf, 1)
      BY <2>5, Joining
    <3> QED
      BY <3>1, <3>2
  <2>7. given' = given \o First(buf, 1)
    BY <1>2 DEF Take
  <2>8. given' # <<>> /\ given'[Len(given')] = last'.got[1] /\ last'.got[1] \in Bytes
    BY <2>1, <2>5, <2>6, <2>7, LastAdded
  <2>9. LastOK(Bytes)'
    BY <2>6, <2>8 DEF LastOK
  <2> QED
    BY <2>3, <2>4, <2>9 DEF BufInv
<1>3. CASE Starved
  BY <1>1, <1>3, StarvedInv
<1> QED
  BY <1>2, <1>3 DEF ReadByte

\* Bytes that are put behind others, and none of either is the delimiter.
LEMMA StillWithout ==
    ASSUME NEW S, NEW a \in Seq(S), NEW b \in Seq(S), NEW d, NEW k \in 0 .. Len(b),
           \A i \in 1 .. Len(a) : a[i] # d,
           \A i \in 1 .. k : b[i] # d
    PROVE  \A i \in 1 .. Len(a) + k : (a \o b)[i] # d
<1> TAKE i \in 1 .. Len(a) + k
<1>1. \A j \in 1 .. Len(a) + Len(b) : (a \o b)[j] = IF j <= Len(a) THEN a[j] ELSE b[j - Len(a)]
  BY ConcatProperties
<1>2. i \in 1 .. Len(a) + Len(b) /\ Len(a) \in Nat /\ i \in Int
  OBVIOUS
<1>3. CASE i <= Len(a)
  BY <1>1, <1>2, <1>3
<1>4. CASE ~(i <= Len(a))
  <2>1. i - Len(a) \in 1 .. k
    BY <1>2, <1>4
  <2> QED
    BY <1>1, <1>2, <1>4, <2>1
<1> QED
  BY <1>3, <1>4

\* A part of the buffer is searched for the delimiter.
LEMMA ReadUntilInv ==
    ASSUME NEW Bytes, NEW delims, BufInv(Bytes, delims), ReadUntil
    PROVE  BufInv(Bytes, delims)'
<1>1. /\ Flow(Bytes) /\ CallOK(Bytes, delims) /\ call.op = "ReadUntil" /\ UNCHANGED <<size, input>>
  BY DEF BufInv, ReadUntil
<1>2. CASE Starved
  BY <1>1, <1>2, StarvedInv
<1>3. CASE ~Starved
  <2> DEFINE got == call.got
             room == call.want - Len(got)
             m == Min({Len(buf), room})
             here == First(buf, m)
             place == SelectInSeq(here, LAMBDA c : c = call.delim)
             n == IF place > 0 THEN place ELSE Len(here)
  <2>1. /\ Take(n)
        /\ IF place > 0 THEN Returns(First(here, n), "nil")
           ELSE IF Len(got) + n >= call.want
           THEN Returns(here, "ErrDelimNotFound")
           ELSE Copies(here)
    BY <1>3 DEF ReadUntil
  <2>2. /\ call \in [op : BufOps, want : Int, delim : delims \cup {""}, got : Seq(Bytes)]
        /\ call.want >= 0 /\ Len(got) <= call.want /\ \A i \in 1 .. Len(got) : got[i] # call.delim
        /\ last = NoResult
    BY <1>1 DEF CallOK
  <2>12. Len(got) <= call.want
    BY <2>2
  <2>13. \A i \in 1 .. Len(got) : got[i] # call.delim
    BY <2>2
  <2>3. got \in Seq(Bytes) /\ Len(got) \in Nat /\ call.want \in Int
    <3>1. got \in Seq(Bytes) /\ call.want \in Int
      BY <2>2
    <3> HIDE DEF got
    <3> QED
      BY <3>1
  <2>4. buf \in Seq(Bytes) /\ Len(buf) \in Nat
    BY <1>1 DEF Flow
  <2>5. m \in 0 .. Len(buf) /\ m <= room /\ room \in Nat
    <3>1. room \in Nat
      <4> HIDE DEF got
      <4> QED
        BY <2>3, <2>12 DEF room
    <3> HIDE DEF room
    <3>2. m = IF Len(buf) <= room THEN Len(buf) ELSE room
      BY <2>4, <3>1, MinOfTwo
    <3> QED
      BY <2>4, <3>1, <3>2
  <2>6. here \in Seq(Bytes) /\ Len(here) = m
    <3> HIDE DEF m
    <3> QED
      BY <2>4, <2>5, FirstRest
  <2> HIDE DEF here
  <2>7. /\ place \in 0 .. Len(here)
        /\ place > 0 => here[place] = call.delim /\ \A i \in 1 .. place - 1 : here[i] # call.delim
        /\ place = 0 => \A i \in 1 .. Len(here) : here[i] # call.delim
    BY <2>6, DelimIs
  <2> HIDE DEF place, m
  <2>8. n \in 0 .. Len(here) /\ n \in 0 .. Len(buf)
    BY <2>4, <2>5, <2>6, <2>7
  <2> HIDE DEF n
  <2>9. Flow(Bytes)'
    BY <1>1, <2>1, <2>8, TakeFlow
  <2>10. CASE place > 0
    <3>1. Returns(First(here, place), "nil") /\ place \in 1 .. Len(here) /\ place \in 0 .. Len(here)
      BY <2>1, <2>7, <2>10 DEF n
    <3> DEFINE f == First(here, place)
    <3>2. f \in Seq(Bytes) /\ Len(f) = place /\ \A i \in 1 .. place : f[i] = here[i]
      BY <2>6, <3>1, FirstRest
    <3> HIDE DEF f
    <3>3. /\ call' = NoCall /\ last'.op = "ReadUntil" /\ last'.delim = call.delim
          /\ last'.got = got \o f /\ last'.err = "nil"
      BY <1>1, <3>1, ReturnsIs DEF f
    <3>4. place \in Nat /\ place - 1 \in 0 .. Len(f) /\ \A i \in 1 .. place - 1 : f[i] # call.delim
      BY <2>7, <2>10, <3>1, <3>2
    <3>5. \A i \in 1 .. Len(got) + (place - 1) : (got \o f)[i] # call.delim
      <4> DEFINE k == place - 1
      <4>1. k \in 0 .. Len(f) /\ \A i \in 1 .. k : f[i] # call.delim
        BY <3>4
      <4> HIDE DEF k, got
      <4>2. \A i \in 1 .. Len(got) + k : (got \o f)[i] # call.delim
        BY <2>3, <2>13, <3>2, <4>1, StillWithout
      <4> QED
        BY <4>2 DEF k
    <3>6. Len(got \o f) = Len(got) + place /\ (got \o f)[Len(got) + place] = call.delim
      <4>1. /\ Len(got \o f) = Len(got) + Len(f)
            /\ \A j \in 1 .. Len(got) + Len(f) :
                  (got \o f)[j] = IF j <= Len(got) THEN got[j] ELSE f[j - Len(got)]
        <5> HIDE DEF got
        <5> QED
          BY <2>3, <3>2, ConcatProperties
      <4>2. /\ Len(got) + place \in 1 .. Len(got) + Len(f) /\ ~(Len(got) + place <= Len(got))
            /\ Len(got) + place - Len(got) = place
        <5> HIDE DEF got
        <5> QED
          BY <2>3, <2>10, <3>1, <3>2, <3>4
      <4>3. f[place] = call.delim
        BY <2>7, <2>10, <3>1, <3>2
      <4> QED
        BY <3>2, <4>1, <4>2, <4>3
    <3>7. LastOK(Bytes)'
      <4> DEFINE e == Len(last'.got)
      <4>1. e = Len(got) + place /\ e - 1 = Len(got) + (place - 1) /\ e > 0
        <5> HIDE DEF got
        <5> QED
          BY <2>3, <2>10, <3>3, <3>4, <3>6
      <4>2. /\ \A i \in 1 .. e - 1 : last'.got[i] # last'.delim
            /\ last'.got[e] = last'.delim
        BY <3>3, <3>5, <3>6, <4>1
      <4> HIDE DEF e
      <4>3. /\ last'.err = "nil" <=> e > 0 /\ last'.got[e] = last'.delim
            /\ last'.err = "ErrDelimNotFound" => e = last'.want
        BY <3>3, <4>1, <4>2
      <4> QED
        BY <3>3, <4>2, <4>3 DEF LastOK, e
    <3>8. CallOK(Bytes, delims)'
      BY <3>3, CallEnds
    <3> QED
      BY <2>9, <3>7, <3>8 DEF BufInv
  <2>11. CASE place = 0
    <3>1. n = m /\ Len(here) = m /\ \A i \in 1 .. m : here[i] # call.delim
      BY <2>6, <2>7, <2>11 DEF n
    <3> DEFINE g == got \o here
    <3>2. g \in Seq(Bytes) /\ Len(g) = Len(got) + m
      <4> HIDE DEF got
      <4> QED
        BY <2>3, <2>6, Joining
    <3>3. \A i \in 1 .. Len(got) + m : g[i] # call.delim
      <4>1. m \in 0 .. Len(here)
        BY <2>5, <2>6
      <4> QED
        BY <2>3, <2>6, <2>13, <3>1, <4>1, StillWithout
    <3> HIDE DEF g
    <3>4. \A i \in 1 .. Len(g) : g[i] # call.delim
      BY <3>2, <3>3
    <3>5. CASE Len(got) + n >= call.want
      <4>1. Returns(here, "ErrDelimNotFound")
        BY <2>1, <2>11, <3>5
      <4>2. /\ call' = NoCall /\ last'.op = "ReadUntil" /\ last'.delim = call.delim
            /\ last'.got = g /\ last'.err = "ErrDelimNotFound" /\ last'.want = call.want
        BY <1>1, <4>1, ReturnsIs DEF g
      <4>3. Len(g) = call.want /\ Len(g) \in Nat
        <5> HIDE DEF got
        <5> QED
          BY <2>3, <2>5, <3>1, <3>2, <3>5 DEF room
      <4>4. LastOK(Bytes)'
        <5> DEFINE e == Len(last'.got)
        <5>1. e \in Nat /\ e = last'.want /\ \A i \in 1 .. e : last'.got[i] # last'.delim
          BY <3>4, <4>2, <4>3
        <5> HIDE DEF e
        <5>2. ~(e > 0 /\ last'.got[e] = last'.delim) /\ \A i \in 1 .. e - 1 : last'.got[i] # last'.delim
          BY <5>1
        <5> QED
          BY <4>2, <5>1, <5>2 DEF LastOK, e
      <4>5. CallOK(Bytes, delims)'
        BY <4>2, CallEnds
      <4> QED
        BY <2>9, <4>4, <4>5 DEF BufInv
    <3>6. CASE ~(Len(got) + n >= call.want)
      <4>1. call' = [call EXCEPT !.got = g] /\ last' = last
        BY <2>1, <2>11, <3>6 DEF Copies, g
      <4>2. /\ call' \in [op : BufOps, want : Int, delim : delims \cup {""}, got : Seq(Bytes)]
            /\ call'.op = "ReadUntil" /\ call'.want = call.want /\ call'.delim = call.delim
            /\ call'.got = g
        BY <1>1, <2>2, <3>2, <4>1
      <4>3. Len(g) <= call.want
        <5> HIDE DEF got
        <5> QED
          BY <2>3, <2>5, <3>2 DEF room
      <4>4. CallOK(Bytes, delims)'
        BY <2>2, <3>4, <4>1, <4>2, <4>3 DEF CallOK
      <4>5. LastOK(Bytes)'
        <5>1. last'.op = "none"
          BY <2>2, <4>1, NothingIs
        <5> QED
          BY <5>1, NothingSaid
      <4> QED
        BY <2>9, <4>4, <4>5 DEF BufInv
    <3> QED
      BY <3>5, <3>6
  <2> QED
    BY <2>7, <2>10, <2>11
<1> QED
  BY <1>2, <1>3

\* A call that only fills the buffer reads on.
LEMMA FillsOn ==
    ASSUME NEW Bytes, NEW delims, BufInv(Bytes, delims), Extend(size),
           UNCHANGED <<size, input, last>>,
           call.op \in {"FillBufferAtleast", "FillBufferUpto"},
           call' = [call EXCEPT !.got = @ \o Rest(buf', Len(buf))]
    PROVE  BufInv(Bytes, delims)'
<1>1. Flow(Bytes) /\ CallOK(Bytes, delims)
  BY DEF BufInv
<1>2. size \in Int /\ buf \in Seq(Bytes) /\ Len(buf) \in Nat
  BY <1>1 DEF Flow
<1>3. Flow(Bytes)' /\ Len(buf') \in Len(buf) .. size
  BY <1>1, <1>2, ExtendFlow
<1> DEFINE more == Rest(buf', Len(buf))
<1>4. more \in Seq(Bytes)
  <2>1. buf' \in Seq(Bytes) /\ Len(buf) \in 0 .. Len(buf')
    BY <1>2, <1>3 DEF Flow
  <2> QED
    BY <2>1, FirstRest
<1> HIDE DEF more
<1>5. /\ call \in [op : BufOps, want : Int, delim : delims \cup {""}, got : Seq(Bytes)]
      /\ call.op # "Discard" => call.want >= 0
      /\ call.op # "none" => last = NoResult
  BY <1>1 DEF CallOK
<1>6. call.got \in Seq(Bytes)
  BY <1>5
<1>7. call.got \o more \in Seq(Bytes)
  BY <1>4, <1>6, Joining
<1>8. /\ call' \in [op : BufOps, want : Int, delim : delims \cup {""}, got : Seq(Bytes)]
      /\ call'.op = call.op /\ call'.want = call.want
  <2>1. call' = [call EXCEPT !.got = call.got \o more]
    BY DEF more
  <2> QED
    BY <1>5, <1>7, <2>1
<1>9. last' = NoResult /\ last'.op = "none"
  BY <1>5, NothingIs
<1>10. CallOK(Bytes, delims)'
  BY <1>5, <1>8, <1>9 DEF CallOK
<1>11. LastOK(Bytes)'
  BY <1>9, NothingSaid
<1> QED
  BY <1>3, <1>10, <1>11 DEF BufInv

\* Such a call ends.
LEMMA FillEnds ==
    ASSUME NEW Bytes, NEW delims, BufInv(Bytes, delims), UNCHANGED <<size, input>>,
           call.op \in {"FillBufferAtleast", "FillBufferUpto"},
           \/ UNCHANGED readerVars
           \/ readErr,
           \E err : Returns(<<>>, err)
    PROVE  BufInv(Bytes, delims)'
<1>1. Flow(Bytes)'
  BY DEF BufInv, Flow, readErr, readerVars
<1>2. CallOK(Bytes, delims)' /\ LastOK(Bytes)'
  <2>1. PICK err : Returns(<<>>, err)
    OBVIOUS
  <2>2. call.op # "ReadUntil" /\ call.op \notin {"Read", "ReadByte", "Discard"}
    OBVIOUS
  <2> QED
    BY <2>1, <2>2, EndsWell
<1> QED
  BY <1>1, <1>2 DEF BufInv

\* FillBufferAtleast adds to the buffer, or ends.
LEMMA FillAtleastInv ==
    ASSUME NEW Bytes, NEW delims, BufInv(Bytes, delims), FillBufferAtleast
    PROVE  BufInv(Bytes, delims)'
<1>1. call.op \in {"FillBufferAtleast", "FillBufferUpto"} /\ UNCHANGED <<size, input>>
  BY DEF FillBufferAtleast
<1>2. CASE Extend(size) /\ UNCHANGED last /\ call' = [call EXCEPT !.got = @ \o Rest(buf', Len(buf))]
  BY <1>1, <1>2, FillsOn
<1>3. CASE readErr /\ Returns(<<>>, queued)
  BY <1>1, <1>3, FillEnds
<1>4. CASE Returns(<<>>, "nil") /\ UNCHANGED readerVars
  BY <1>1, <1>4, FillEnds
<1> QED
  BY <1>2, <1>3, <1>4 DEF FillBufferAtleast

\* FillBufferUpto adds to the buffer, or ends.
LEMMA FillUptoInv ==
    ASSUME NEW Bytes, NEW delims, BufInv(Bytes, delims), FillBufferUpto
    PROVE  BufInv(Bytes, delims)'
<1>1. call.op \in {"FillBufferAtleast", "FillBufferUpto"} /\ UNCHANGED <<size, input>>
  BY DEF FillBufferUpto
<1>2. CASE Extend(size) /\ UNCHANGED last /\ call' = [call EXCEPT !.got = @ \o Rest(buf', Len(buf))]
  BY <1>1, <1>2, FillsOn
<1>3. CASE readErr /\ Returns(<<>>, queued)
  BY <1>1, <1>3, FillEnds
<1>4. CASE Returns(<<>>, "nil") /\ UNCHANGED readerVars
  BY <1>1, <1>4, FillEnds
<1> QED
  BY <1>2, <1>3, <1>4 DEF FillBufferUpto

\* What is buffered is skipped, and the buffer filled again.
LEMMA DiscardInv ==
    ASSUME NEW Bytes, NEW delims, BufInv(Bytes, delims), Discard
    PROVE  BufInv(Bytes, delims)'
<1> DEFINE left == call.want - Len(call.got)
<1>1. /\ Flow(Bytes) /\ CallOK(Bytes, delims) /\ call.op = "Discard" /\ UNCHANGED <<size, input>>
      /\ call.op # "ReadUntil" /\ call.op # "ReadByte"
  BY DEF BufInv, Discard
<1>2. /\ call \in [op : BufOps, want : Int, delim : delims \cup {""}, got : Seq(Bytes)]
      /\ call.want >= 0 => Len(call.got) <= call.want
      /\ last = NoResult
  BY <1>1 DEF CallOK
<1>3. call.got \in Seq(Bytes) /\ call.want \in Int /\ Len(call.got) \in Nat
  <2>1. call.got \in Seq(Bytes) /\ call.want \in Int
    BY <1>2
  <2> QED
    BY <2>1
<1>4. /\ buf \in Seq(Bytes) /\ Len(buf) \in Nat /\ queued \in {"nil", "EOF"}
      /\ queued = "EOF" => src = <<>>
  BY <1>1 DEF Flow
<1>5. CASE /\ call.want >= 0 /\ Len(buf) >= left
           /\ Take(left) /\ Returns(First(buf, left), "nil")
  <2>1. left \in 0 .. Len(buf)
    <3>1. Len(call.got) <= call.want /\ Len(buf) >= left
      BY <1>2, <1>5
    <3> QED
      BY <1>3, <1>4, <3>1
  <2> HIDE DEF left
  <2>2. Flow(Bytes)'
    BY <1>1, <1>5, <2>1, TakeFlow
  <2>3. CallOK(Bytes, delims)' /\ LastOK(Bytes)'
    <3>1. "nil" # "EOF"
      OBVIOUS
    <3> QED
      BY <1>1, <1>5, <3>1, EndsWell
  <2> QED
    BY <2>2, <2>3 DEF BufInv
<1>6. CASE /\ queued # "nil"
           /\ buf' = <<>> /\ lead' = 0 /\ queued' = "nil" /\ UNCHANGED src
           /\ given' = given \o buf /\ Returns(buf, queued)
  <2>1. Flow(Bytes)'
    BY <1>1, <1>6, FlushFlow
  <2>2. buf' = <<>> /\ src' = <<>>
    BY <1>4, <1>6
  <2>3. CallOK(Bytes, delims)' /\ LastOK(Bytes)'
    BY <1>1, <1>6, <2>2, EndsWell
  <2> QED
    BY <2>1, <2>3 DEF BufInv
<1>7. CASE /\ ~(call.want >= 0 /\ Len(buf) >= left)
           /\ \E x \in Reads(size) :
                 /\ buf' = First(src, x[1]) /\ src' = Rest(src, x[1])
                 /\ lead' = 0 /\ queued' = x[2]
           /\ given' = given \o buf /\ Copies(buf)
  <2>1. Flow(Bytes)'
    BY <1>1, <1>7, FlushFlow
  <2> DEFINE g == call.got \o buf
  <2>2. g \in Seq(Bytes) /\ Len(g) = Len(call.got) + Len(buf)
    BY <1>3, <1>4, Joining
  <2> HIDE DEF g
  <2>3. call' = [call EXCEPT !.got = g] /\ last' = last
    BY <1>7 DEF Copies, g
  <2>4. /\ call' \in [op : BufOps, want : Int, delim : delims \cup {""}, got : Seq(Bytes)]
        /\ call'.op = "Discard" /\ call'.want = call.want /\ call'.got = g
    BY <1>1, <1>2, <2>2, <2>3
  <2>5. call.want >= 0 => Len(g) <= call.want
    BY <1>3, <1>4, <1>7, <2>2
  <2>6. CallOK(Bytes, delims)'
    BY <1>2, <2>3, <2>4, <2>5 DEF CallOK
  <2>7. last'.op = "none"
    BY <1>2, <2>3, NothingIs
  <2>8. LastOK(Bytes)'
    BY <2>7, NothingSaid
  <2> QED
    BY <2>1, <2>6, <2>8 DEF BufInv
<1> QED
  BY <1>5, <1>6, <1>7 DEF Discard

\* A byte goes back, or the buffer is moved to the front.
LEMMA BetweenInv ==
    ASSUME NEW Bytes, NEW delims, BufInv(Bytes, delims), Between
    PROVE  BufInv(Bytes, delims)'
<1>1. /\ Flow(Bytes) /\ LastOK(Bytes) /\ call' = NoCall /\ last' = NoResult
      /\ UNCHANGED <<size, input>>
  BY DEF BufInv, Between
<1>2. CallOK(Bytes, delims)'
  BY <1>1, CallEnds
<1>3. LastOK(Bytes)'
  BY <1>1, NothingIs, NothingSaid
<1>4. CASE last.op = "ReadByte" /\ last.err = "nil" /\ CanUnread /\ UnreadByte(last.got[1])
  <2>1. given # <<>> /\ last.got[1] = given[Len(given)] /\ last.got[1] \in Bytes
    BY <1>1, <1>4 DEF LastOK
  <2>2. Flow(Bytes)'
    BY <1>1, <1>4, <2>1, UnreadFlow
  <2> QED
    BY <1>2, <1>3, <2>2 DEF BufInv
<1>5. CASE CompactBuffer
  <2>1. Flow(Bytes)'
    BY <1>1, <1>5 DEF CompactBuffer, Flow
  <2> QED
    BY <1>2, <1>3, <2>1 DEF BufInv
<1> QED
  BY <1>4, <1>5 DEF Between

\* Whatever methods are called in whatever order, with whatever lengths and
\* delimiters, and however the bytes arrive from below: none is lost, doubled
\* or moved, the end is reported after the last byte, and ReadUntil stops at
\* the first delimiter and nowhere else (bufreader.go).
THEOREM BytesInOrder ==
    ASSUME NEW Bytes, NEW inputs \in SUBSET Seq(Bytes), NEW sizes \in SUBSET (Nat \ {0}),
           NEW wants \in SUBSET Nat, NEW delims
    PROVE  BufInit(inputs, sizes) /\ [][BufNext(wants, delims)]_bufVars => []InOrder
<1>1. ASSUME BufInit(inputs, sizes)
      PROVE  BufInv(Bytes, delims)
  <2>1. /\ size \in Nat \ {0} /\ input \in Seq(Bytes) /\ src = input /\ buf = <<>> /\ lead = 0
        /\ queued = "nil" /\ given = <<>> /\ call = NoCall /\ last = NoResult
    BY <1>1 DEF BufInit
  <2>2. <<>> \in Seq(Bytes) /\ Len(<<>>) = 0
    BY NothingRead
  <2>3. (given \o buf) \o src = input
    <3>1. <<>> \o <<>> = <<>> /\ <<>> \o input = input
      BY <2>1, <2>2, Joining
    <3> QED
      BY <2>1, <3>1
  <2>4. Flow(Bytes)
    BY <2>1, <2>2, <2>3 DEF Flow
  <2>5. /\ call \in [op : BufOps, want : Int, delim : delims \cup {""}, got : Seq(Bytes)]
        /\ call.op = "none" /\ call.want >= 0 /\ last.op = "none"
    BY <2>1, NothingIs
  <2>6. CallOK(Bytes, delims)
    BY <2>5 DEF CallOK
  <2>7. LastOK(Bytes)
    BY <2>5 DEF LastOK
  <2> QED
    BY <2>4, <2>6, <2>7 DEF BufInv
<1>2. ASSUME BufInv(Bytes, delims), [BufNext(wants, delims)]_bufVars
      PROVE  BufInv(Bytes, delims)'
  <2>1. CASE UNCHANGED bufVars
    BY <1>2, <2>1 DEF BufInv, Flow, CallOK, LastOK, bufVars, readerVars
  <2>2. CASE Start(wants, delims)
    BY <1>2, <2>2, StartInv
  <2>3. CASE Read
    BY <1>2, <2>3, ReadInv
  <2>4. CASE ReadByte
    BY <1>2, <2>4, ReadByteInv
  <2>5. CASE ReadUntil
    BY <1>2, <2>5, ReadUntilInv
  <2>6. CASE FillBufferAtleast
    BY <1>2, <2>6, FillAtleastInv
  <2>7. CASE FillBufferUpto
    BY <1>2, <2>7, FillUptoInv
  <2>8. CASE Discard
    BY <1>2, <2>8, DiscardInv
  <2>9. CASE Between
    BY <1>2, <2>9, BetweenInv
  <2> QED
    BY <1>2, <2>1, <2>2, <2>3, <2>4, <2>5, <2>6, <2>7, <2>8, <2>9 DEF BufNext
<1>3. BufInv(Bytes, delims) => InOrder
  BY DEF BufInv, Flow, LastOK, InOrder
<1> QED
  BY <1>1, <1>2, <1>3, PTL
-----------------------------------------------------------------------------
(***************************************************************************)
(* The reader of dot-encoded blocks.                                       *)
(***************************************************************************)

\* How many characters stay grows by one wherever one does.
LEMMA StayingGrows ==
    ASSUME NEW T, NEW l \in Nat, DOMAIN T = 1 .. l
    PROVE  /\ \A m \in Nat : Staying(T, m) \in Nat
           /\ Staying(T, 0) = 0
           /\ \A m \in Nat : Staying(T, m + 1) =
                 IF m + 1 \in Stays(T) THEN Staying(T, m) + 1 ELSE Staying(T, m)
           /\ \A m, n \in Nat : m <= n => Staying(T, m) <= Staying(T, n)
           /\ \A m, n \in Nat : m < n /\ n \in Stays(T) => Staying(T, m) < Staying(T, n)
<1> DEFINE S == Stays(T)  U(m) == {j \in S : j <= m}
<1>1. IsFiniteSet(S) /\ \A j \in S : j \in Nat /\ j > 0
  <2>1. IsFiniteSet(1 .. l)
    BY FS_Interval
  <2>2. S \in SUBSET (1 .. l)
    BY DEF Stays
  <2> HIDE DEF S
  <2>3. IsFiniteSet(S)
    BY <2>1, <2>2, FS_Subset
  <2>4. \A j \in 1 .. l : j \in Nat /\ j > 0
    OBVIOUS
  <2> QED
    BY <2>2, <2>3, <2>4
<1> HIDE DEF S
<1>2. \A m : Staying(T, m) = Cardinality(U(m))
  BY DEF Staying, S
<1>3. ASSUME NEW m \in Nat
      PROVE  IsFiniteSet(U(m)) /\ Cardinality(U(m)) \in Nat
  <2>1. U(m) \in SUBSET S
    OBVIOUS
  <2> HIDE DEF U
  <2> QED
    BY <1>1, <2>1, FS_Subset, FS_CardinalityType
<1>4. Cardinality(U(0)) = 0
  <2>1. U(0) = {}
    BY <1>1
  <2> QED
    BY <2>1, FS_EmptySet
<1>5. ASSUME NEW m \in Nat, NEW n \in Nat, m < n, n \in S
      PROVE  Cardinality(U(m)) < Cardinality(U(n))
  <2>1. Cardinality(U(m) \cup {n}) = Cardinality(U(m)) + 1
    <3>1. n \notin U(m)
      BY <1>5
    <3> HIDE DEF U
    <3> QED
      BY <1>3, <3>1, FS_AddElement
  <2>2. (U(m) \cup {n}) \in SUBSET U(n)
    <3>1. \A j \in S : j <= m => j <= n
      BY <1>1, <1>5
    <3>2. n <= n
      OBVIOUS
    <3> QED
      BY <1>5, <3>1, <3>2
  <2>3. Cardinality(U(m) \cup {n}) <= Cardinality(U(n))
    <3> HIDE DEF U
    <3> QED
      BY <1>3, <2>2, FS_Subset
  <2> HIDE DEF U
  <2> QED
    BY <1>3, <2>1, <2>3
<1>6. ASSUME NEW m \in Nat, NEW n \in Nat, m <= n
      PROVE  Cardinality(U(m)) <= Cardinality(U(n))
  <2>1. U(m) \in SUBSET U(n)
    BY <1>1, <1>6
  <2> HIDE DEF U
  <2> QED
    BY <1>3, <2>1, FS_Subset
<1>7. ASSUME NEW m \in Nat
      PROVE  Cardinality(U(m + 1)) = IF m + 1 \in S THEN Cardinality(U(m)) + 1 ELSE Cardinality(U(m))
  <2>1. CASE m + 1 \in S
    <3>1. U(m + 1) = U(m) \cup {m + 1}
      BY <1>1, <2>1
    <3>2. m + 1 \notin U(m)
      OBVIOUS
    <3> HIDE DEF U
    <3> QED
      BY <1>3, <2>1, <3>1, <3>2, FS_AddElement
  <2>2. CASE m + 1 \notin S
    <3>1. U(m + 1) = U(m)
      BY <1>1, <2>2
    <3> QED
      BY <2>2, <3>1
  <2> QED
    BY <2>1, <2>2
<1> HIDE DEF U
<1> QED
  BY <1>2, <1>3, <1>4, <1>5, <1>6, <1>7 DEF S

\* The first m characters of T were decoded to d.
DecodedTo(T, d, m) ==
    /\ Len(d) = Staying(T, m)
    /\ \A i \in Stays(T) : i <= m => d[Staying(T, i)] = T[i]

\* One more character, that stays or not.
LEMMA DecodesOn ==
    ASSUME NEW Bytes, NEW T \in Seq(Bytes), NEW d \in Seq(Bytes),
           NEW m \in Nat, m < Len(T), DecodedTo(T, d, m)
    PROVE  /\ m + 1 \notin Stays(T) => DecodedTo(T, d, m + 1)
           /\ m + 1 \in Stays(T) => DecodedTo(T, d \o <<T[m + 1]>>, m + 1)
<1> DEFINE k == Staying(T, m)
<1>0. Len(T) \in Nat /\ DOMAIN T = 1 .. Len(T) /\ m + 1 \in 1 .. Len(T)
  OBVIOUS
<1>1. /\ \A j \in Nat : Staying(T, j) \in Nat
      /\ Staying(T, m + 1) = IF m + 1 \in Stays(T) THEN k + 1 ELSE k
      /\ \A i, j \in Nat : i < j /\ j \in Stays(T) => Staying(T, i) < Staying(T, j)
      /\ \A i, j \in Nat : i <= j => Staying(T, i) <= Staying(T, j)
  BY <1>0, StayingGrows
<1>2. Stays(T) \subseteq 1 .. Len(T)
  BY <1>0 DEF Stays
<1>3. \A i \in Stays(T) : i <= m + 1 => i <= m \/ i = m + 1
  BY <1>0, <1>2
<1>4. Len(d) = k /\ k \in Nat /\ \A i \in Stays(T) : i <= m => d[Staying(T, i)] = T[i]
  BY <1>1 DEF DecodedTo
<1>5. ASSUME m + 1 \notin Stays(T)
      PROVE  DecodedTo(T, d, m + 1)
  BY <1>1, <1>3, <1>4, <1>5 DEF DecodedTo
<1>6. ASSUME m + 1 \in Stays(T)
      PROVE  DecodedTo(T, d \o <<T[m + 1]>>, m + 1)
  <2> DEFINE c == <<T[m + 1]>>  e == d \o c
  <2>1. c \in Seq(Bytes) /\ Len(c) = 1 /\ c[1] = T[m + 1]
    <3>1. T[m + 1] \in Bytes
      BY <1>0
    <3> QED
      BY <3>1
  <2> HIDE DEF c
  <2>2. /\ Len(e) = k + 1
        /\ \A i \in 1 .. k + 1 : e[i] = IF i <= k THEN d[i] ELSE c[i - k]
    <3>1. /\ Len(e) = Len(d) + Len(c)
          /\ \A i \in 1 .. Len(d) + Len(c) : e[i] = IF i <= Len(d) THEN d[i] ELSE c[i - Len(d)]
      BY <2>1, ConcatProperties
    <3> HIDE DEF e, k
    <3> QED
      BY <1>4, <2>1, <3>1
  <2>3. e[k + 1] = T[m + 1]
    <3>1. k + 1 \in 1 .. k + 1 /\ ~(k + 1 <= k) /\ (k + 1) - k = 1
      <4> HIDE DEF k
      <4> QED
        BY <1>4
    <3> QED
      BY <2>1, <2>2, <3>1
  <2> HIDE DEF e
  <2>4. ASSUME NEW i \in Stays(T), i <= m
        PROVE  e[Staying(T, i)] = T[i]
    <3>1. i \in Nat /\ i > 0
      BY <1>2
    <3>2. Staying(T, i) \in Nat /\ Staying(T, i) <= k
      BY <1>1, <2>4, <3>1
    <3>3. Staying(T, 0) < Staying(T, i) /\ Staying(T, 0) \in Nat
      BY <1>1, <3>1
    <3>4. Staying(T, i) \in 1 .. k + 1
      <4> HIDE DEF k
      <4> QED
        BY <1>4, <3>2, <3>3
    <3> QED
      BY <1>4, <2>2, <2>4, <3>2, <3>4
  <2>5. \A i \in Stays(T) : i <= m + 1 => e[Staying(T, i)] = T[i]
    BY <1>1, <1>3, <1>6, <2>3, <2>4
  <2> QED
    BY <1>1, <1>6, <2>2, <2>5 DEF DecodedTo, c, e
<1> QED
  BY <1>5, <1>6

\* A dot at the beginning of a line.
DotAt(T, i) == T[i] = "." /\ LineBegins(T, i)

\* The last place of the end that begins at i.
StopsAt(T, i) == i + EndLength(T, i) - 1

LEMMA EndIs ==
    ASSUME NEW Bytes, NEW T \in Seq(Bytes), NEW i \in Ends(T)
    PROVE  /\ i \in 1 .. Len(T) /\ DotAt(T, i) /\ StopsAt(T, i) <= Len(T)
           /\ \/ StopsAt(T, i) = i + 1 /\ T[i + 1] = "LF"
              \/ StopsAt(T, i) = i + 2 /\ T[i + 1] = "CR" /\ T[i + 2] = "LF"
<1>1. i \in 1 .. Len(T) /\ Len(T) \in Nat /\ T[i] = "." /\ LineBegins(T, i)
  BY DEF Ends
<1>2. \/ Len(T) > i /\ T[i + 1] = "LF"
      \/ Len(T) > i + 1 /\ T[i + 1] = "CR" /\ T[i + 2] = "LF"
  BY DEF Ends
<1>3. CASE Len(T) > i /\ T[i + 1] = "LF"
  <2>1. EndLength(T, i) = 2
    BY <1>3 DEF EndLength
  <2>2. StopsAt(T, i) = i + 1
    BY <1>1, <2>1 DEF StopsAt
  <2> QED
    BY <1>1, <1>3, <2>2 DEF DotAt
<1>4. CASE Len(T) > i + 1 /\ T[i + 1] = "CR" /\ T[i + 2] = "LF"
  <2>1. EndLength(T, i) = 3
    BY <1>4 DEF EndLength
  <2>2. StopsAt(T, i) = i + 2
    BY <1>1, <2>1 DEF StopsAt
  <2> QED
    BY <1>1, <1>4, <2>2 DEF DotAt
<1> QED
  BY <1>2, <1>3, <1>4

\* No end stops among the first q characters.
NoEnd(T, q) == \A i \in Ends(T) : StopsAt(T, i) > q

\* Nor with the next one.
LEMMA NoEndOn ==
    ASSUME NEW Bytes, NEW T \in Seq(Bytes), NEW q \in Nat, NoEnd(T, q),
           \/ T[q + 1] # "LF"
           \/ ~(q > 0 /\ DotAt(T, q)) /\ ~(q > 1 /\ T[q] = "CR" /\ DotAt(T, q - 1))
    PROVE  NoEnd(T, q + 1)
<1> SUFFICES ASSUME NEW i \in Ends(T) PROVE StopsAt(T, i) > q + 1
  BY DEF NoEnd
<1>1. StopsAt(T, i) > q
  BY DEF NoEnd
<1>2. i \in Nat /\ i > 0 /\ DotAt(T, i)
  BY EndIs
<1>3. CASE StopsAt(T, i) = i + 1 /\ T[i + 1] = "LF"
  <2>1. ASSUME i = q PROVE FALSE
    BY <1>2, <1>3, <2>1
  <2> QED
    BY <1>1, <1>2, <1>3, <2>1
<1>4. CASE StopsAt(T, i) = i + 2 /\ T[i + 1] = "CR" /\ T[i + 2] = "LF"
  <2>1. ASSUME i = q - 1 PROVE FALSE
    <3>1. i + 1 = q /\ i + 2 = q + 1 /\ q > 1
      BY <1>2, <2>1
    <3> QED
      BY <1>2, <1>4, <2>1, <3>1
  <2> QED
    BY <1>1, <1>2, <1>4, <2>1
<1> QED
  BY <1>3, <1>4, EndIs

\* An end that stops with the next character is the first.
LEMMA EndHere ==
    ASSUME NEW Bytes, NEW T \in Seq(Bytes), NEW q \in Nat, q < Len(T), NoEnd(T, q),
           T[q + 1] = "LF", NEW e,
           \/ e = q /\ q > 0 /\ DotAt(T, q)
           \/ e = q - 1 /\ q > 1 /\ T[q] = "CR" /\ DotAt(T, q - 1)
    PROVE  e \in Ends(T) /\ StopsAt(T, e) = q + 1 /\ \A i \in Ends(T) : e <= i
<1>0. Len(T) \in Nat /\ DOMAIN T = 1 .. Len(T)
  OBVIOUS
<1>1. e \in Ends(T) /\ StopsAt(T, e) = q + 1
  <2>1. CASE e = q /\ q > 0 /\ DotAt(T, q)
    <3>1. e \in DOMAIN T /\ Len(T) > e /\ T[e + 1] = "LF"
      BY <1>0, <2>1
    <3>2. e \in Ends(T)
      BY <2>1, <3>1 DEF Ends, DotAt
    <3>3. EndLength(T, e) = 2
      BY <3>1 DEF EndLength
    <3> QED
      BY <2>1, <3>2, <3>3 DEF StopsAt
  <2>2. CASE e = q - 1 /\ q > 1 /\ T[q] = "CR" /\ DotAt(T, q - 1)
    <3>1. e \in DOMAIN T /\ Len(T) > e + 1 /\ e + 1 = q /\ e + 2 = q + 1
      BY <1>0, <2>2
    <3>2. T[e + 1] = "CR" /\ T[e + 2] = "LF"
      BY <2>2, <3>1
    <3>3. e \in Ends(T)
      BY <2>2, <3>1, <3>2 DEF Ends, DotAt
    <3>4. EndLength(T, e) = 3
      BY <3>2 DEF EndLength
    <3> QED
      BY <2>2, <3>3, <3>4 DEF StopsAt
  <2> QED
    BY <2>1, <2>2
<1>2. ASSUME NEW i \in Ends(T), i < e PROVE FALSE
  <2>1. i \in Nat /\ StopsAt(T, i) > q /\ DotAt(T, i)
    BY EndIs DEF NoEnd
  <2>2. StopsAt(T, i) = i + 2 /\ T[i + 1] = "CR" /\ e = i + 1
    <3>1. e \in Nat /\ e <= q
      OBVIOUS
    <3> QED
      BY <1>2, <2>1, <3>1, EndIs
  <2>3. T[e] = "."
    BY DEF DotAt
  <2> QED
    BY <2>2, <2>3
<1>3. e \in Nat /\ \A i \in Ends(T) : i \in Nat
  BY <1>1, EndIs
<1> QED
  BY <1>1, <1>2, <1>3

\* A LF without CR among the first q characters, a CR without LF among the first m.
LoneLF(T, q) == \E i \in 1 .. q : T[i] = "LF" /\ (i = 1 \/ T[i - 1] # "CR")
LoneCR(T, m) == \E i \in 1 .. m : T[i] = "CR" /\ T[i + 1] # "LF"

LEMMA LoneOn ==
    ASSUME NEW T, NEW q \in Nat
    PROVE  /\ LoneLF(T, q + 1) <=> LoneLF(T, q) \/ (T[q + 1] = "LF" /\ (q = 0 \/ T[q] # "CR"))
           /\ LoneCR(T, q + 1) <=> LoneCR(T, q) \/ (T[q + 1] = "CR" /\ T[(q + 1) + 1] # "LF")
<1> DEFINE P(i) == T[i] = "LF" /\ (i = 1 \/ T[i - 1] # "CR")
           R(i) == T[i] = "CR" /\ T[i + 1] # "LF"
<1>1. \A i : i \in 1 .. q + 1 <=> i \in 1 .. q \/ i = q + 1
  OBVIOUS
<1>2. P(q + 1) <=> T[q + 1] = "LF" /\ (q = 0 \/ T[q] # "CR")
  <2>1. (q + 1) - 1 = q /\ (q + 1 = 1 <=> q = 0)
    OBVIOUS
  <2> QED
    BY <2>1
<1>3. LoneLF(T, q + 1) <=> LoneLF(T, q) \/ P(q + 1)
  <2>1. /\ LoneLF(T, q + 1) <=> \E i \in 1 .. q + 1 : P(i)
        /\ LoneLF(T, q) <=> \E i \in 1 .. q : P(i)
    BY DEF LoneLF
  <2> HIDE DEF P
  <2> QED
    BY <1>1, <2>1
<1>4. LoneCR(T, q + 1) <=> LoneCR(T, q) \/ R(q + 1)
  <2>1. /\ LoneCR(T, q + 1) <=> \E i \in 1 .. q + 1 : R(i)
        /\ LoneCR(T, q) <=> \E i \in 1 .. q : R(i)
    BY DEF LoneCR
  <2> HIDE DEF R
  <2> QED
    BY <1>1, <2>1
<1>5. LoneCR(T, q + 1) <=> LoneCR(T, q) \/ (T[q + 1] = "CR" /\ T[(q + 1) + 1] # "LF")
  BY <1>4, Zenon
<1> HIDE DEF P
<1>6. LoneLF(T, q + 1) <=> LoneLF(T, q) \/ (T[q + 1] = "LF" /\ (q = 0 \/ T[q] # "CR"))
  BY <1>2, <1>3, Zenon
<1> QED
  BY <1>5, <1>6, Zenon

\* The states of the reader.
DotStates == {"BeginLine", "Dot", "NonBegin", "CR", "DotCR", "EOF"}

\* A CR that was read waits for what follows it.
Waiting(st) == IF st \in {"CR", "DotCR"} THEN 1 ELSE 0

\* What the state says about the last of the q characters that were read.
StateAt(T, q, st) ==
    /\ st = "BeginLine" => q = 0 \/ T[q] = "LF"
    /\ st = "Dot" => q > 0 /\ DotAt(T, q)
    /\ st = "NonBegin" => /\ q > 0 /\ T[q] # "LF" /\ ~DotAt(T, q)
                          /\ T[q] = "CR" => T[q + 1] # "LF"
    /\ st = "CR" => q > 0 /\ T[q] = "CR" /\ ~(q > 1 /\ DotAt(T, q - 1))
    /\ st = "DotCR" => q > 1 /\ T[q] = "CR" /\ DotAt(T, q - 1)

\* The block was read to its end, which is the first.
EndedAt(T, q, d) ==
    \E e \in Ends(T) :
        q = StopsAt(T, e) /\ (\A i \in Ends(T) : e <= i) /\ DecodedTo(T, d, e - 1)

\* The first q characters of T were read and became d.
BlockOK(Bytes, T, q, st, d, bad) ==
    /\ q \in Nat /\ q <= Len(T) /\ st \in DotStates /\ d \in Seq(Bytes) /\ bad \in BOOLEAN
    /\ StateAt(T, q, st)
    /\ st # "EOF" => DecodedTo(T, d, q - Waiting(st)) /\ NoEnd(T, q)
    /\ st = "EOF" => EndedAt(T, q, d)
    /\ bad <=> (LoneLF(T, q) \/ LoneCR(T, q - Waiting(st)))

\* Which characters stay.
LEMMA StaysIs ==
    ASSUME NEW Bytes, NEW T \in Seq(Bytes), NEW i \in 1 .. Len(T)
    PROVE  i \in Stays(T) <=>
              ~DotAt(T, i) /\ ~(T[i] = "CR" /\ i < Len(T) /\ T[i + 1] = "LF")
  BY DEF Stays, DotAt

\* A line begins behind a LF.
LEMMA BeginsIs ==
    ASSUME NEW T, NEW q \in Nat
    PROVE  DotAt(T, q + 1) <=> T[q + 1] = "." /\ (q = 0 \/ T[q] = "LF")
<1>1. (q + 1) - 1 = q /\ (q + 1 = 1 <=> q = 0)
  OBVIOUS
<1> QED
  BY <1>1 DEF DotAt, LineBegins

\* A CR comes, behind a dot that may be the end or not.
LEMMA CRComes ==
    ASSUME NEW Bytes, NEW T \in Seq(Bytes), NEW q, NEW st, NEW d, NEW bad,
           BlockOK(Bytes, T, q, st, d, bad), q < Len(T), T[q + 1] = "CR", NEW next,
           \/ st \in {"BeginLine", "NonBegin"} /\ next = "CR"
           \/ st = "Dot" /\ next = "DotCR"
    PROVE  BlockOK(Bytes, T, q + 1, next, d, bad)
<1>1. /\ q \in Nat /\ Len(T) \in Nat /\ (q + 1) - 1 = q /\ d \in Seq(Bytes) /\ bad \in BOOLEAN
      /\ StateAt(T, q, st)
  BY DEF BlockOK
<1>2. Waiting(st) = 0 /\ Waiting(next) = 1 /\ next \in DotStates /\ next # "EOF" /\ st # "EOF"
  BY DEF Waiting, DotStates
<1>3. DecodedTo(T, d, q) /\ NoEnd(T, q) /\ (bad <=> (LoneLF(T, q) \/ LoneCR(T, q)))
  BY <1>1, <1>2 DEF BlockOK
<1>4. NoEnd(T, q + 1)
  BY <1>1, <1>3, NoEndOn
<1>5. bad <=> (LoneLF(T, q + 1) \/ LoneCR(T, q))
  <2>1. LoneLF(T, q + 1) <=> LoneLF(T, q)
    BY <1>1, LoneOn
  <2> QED
    BY <1>3, <2>1
<1>6. StateAt(T, q + 1, next)
  <2>1. CASE st \in {"BeginLine", "NonBegin"} /\ next = "CR"
    <3>1. ~(q > 0 /\ DotAt(T, q))
      BY <1>1, <2>1 DEF StateAt, DotAt
    <3>2. q + 1 > 0 /\ ~(q + 1 > 1 /\ DotAt(T, (q + 1) - 1))
      BY <1>1, <3>1
    <3> QED
      BY <2>1, <3>2 DEF StateAt
  <2>2. CASE st = "Dot" /\ next = "DotCR"
    <3>1. q > 0 /\ DotAt(T, q)
      BY <1>1, <2>2 DEF StateAt
    <3>2. q + 1 > 1 /\ DotAt(T, (q + 1) - 1)
      BY <1>1, <3>1
    <3> QED
      BY <2>2, <3>2 DEF StateAt
  <2> QED
    BY <2>1, <2>2
<1>7. q + 1 \in Nat /\ q + 1 <= Len(T)
  BY <1>1
<1>8. DecodedTo(T, d, (q + 1) - Waiting(next)) /\ (bad <=> (LoneLF(T, q + 1) \/ LoneCR(T, (q + 1) - Waiting(next))))
  BY <1>1, <1>2, <1>3, <1>5
<1> QED
  BY <1>1, <1>2, <1>4, <1>6, <1>7, <1>8 DEF BlockOK

\* The first dot of a line is left out.
LEMMA DotComes ==
    ASSUME NEW Bytes, NEW T \in Seq(Bytes), NEW q, NEW d, NEW bad,
           BlockOK(Bytes, T, q, "BeginLine", d, bad), q < Len(T), T[q + 1] = "."
    PROVE  BlockOK(Bytes, T, q + 1, "Dot", d, bad)
<1>1. /\ q \in Nat /\ Len(T) \in Nat /\ q + 1 \in 1 .. Len(T)
      /\ d \in Seq(Bytes) /\ bad \in BOOLEAN /\ (q = 0 \/ T[q] = "LF")
  BY DEF BlockOK, StateAt
<1>2. /\ Waiting("BeginLine") = 0 /\ Waiting("Dot") = 0 /\ "Dot" \in DotStates
      /\ q - 0 = q /\ (q + 1) - 0 = q + 1
  BY <1>1 DEF Waiting, DotStates
<1>3. DecodedTo(T, d, q) /\ NoEnd(T, q) /\ (bad <=> (LoneLF(T, q) \/ LoneCR(T, q)))
  BY <1>2 DEF BlockOK
<1>4. DotAt(T, q + 1)
  BY <1>1, BeginsIs
<1>5. DecodedTo(T, d, q + 1)
  BY <1>1, <1>3, <1>4, StaysIs, DecodesOn
<1>6. NoEnd(T, q + 1)
  BY <1>1, <1>3, NoEndOn
<1>7. bad <=> (LoneLF(T, q + 1) \/ LoneCR(T, q + 1))
  <2>1. LoneLF(T, q + 1) <=> LoneLF(T, q)
    BY <1>1, LoneOn
  <2>2. LoneCR(T, q + 1) <=> LoneCR(T, q)
    BY <1>1, LoneOn
  <2> QED
    BY <1>3, <2>1, <2>2
<1>8. StateAt(T, q + 1, "Dot")
  BY <1>1, <1>4 DEF StateAt
<1>9. q + 1 \in Nat /\ q + 1 <= Len(T)
  BY <1>1
<1> QED
  BY <1>1, <1>2, <1>5, <1>6, <1>7, <1>8, <1>9 DEF BlockOK

\* A character comes that is what it is.
LEMMA CharComes ==
    ASSUME NEW Bytes, NEW T \in Seq(Bytes), NEW q, NEW st, NEW d, NEW bad,
           BlockOK(Bytes, T, q, st, d, bad), q < Len(T), T[q + 1] # "CR",
           st \in {"BeginLine", "NonBegin", "Dot"},
           st = "BeginLine" => T[q + 1] # ".", st = "Dot" => T[q + 1] # "LF"
    PROVE  BlockOK(Bytes, T, q + 1, IF T[q + 1] = "LF" THEN "BeginLine" ELSE "NonBegin",
                   d \o <<T[q + 1]>>, bad \/ T[q + 1] = "LF")
<1> DEFINE next == IF T[q + 1] = "LF" THEN "BeginLine" ELSE "NonBegin"  e == d \o <<T[q + 1]>>
<1>1. /\ q \in Nat /\ Len(T) \in Nat /\ q + 1 \in 1 .. Len(T)
      /\ d \in Seq(Bytes) /\ bad \in BOOLEAN /\ StateAt(T, q, st)
  BY DEF BlockOK
<1>2. /\ Waiting(st) = 0 /\ Waiting(next) = 0 /\ next \in DotStates /\ next # "EOF" /\ st # "EOF"
      /\ q - 0 = q /\ (q + 1) - 0 = q + 1
  BY <1>1 DEF Waiting, DotStates
<1>3. DecodedTo(T, d, q) /\ NoEnd(T, q) /\ (bad <=> (LoneLF(T, q) \/ LoneCR(T, q)))
  BY <1>1, <1>2 DEF BlockOK
<1>4. ~DotAt(T, q + 1)
  <2>1. ASSUME st # "BeginLine" PROVE q # 0 /\ T[q] # "LF"
    BY <1>1, <2>1 DEF StateAt, DotAt
  <2> QED
    BY <1>1, <2>1, BeginsIs
<1>5. DecodedTo(T, e, q + 1)
  BY <1>1, <1>3, <1>4, StaysIs, DecodesOn
<1>6. e \in Seq(Bytes)
  <2>1. T[q + 1] \in Bytes
    BY <1>1
  <2>2. <<T[q + 1]>> \in Seq(Bytes)
    BY <2>1
  <2> QED
    BY <1>1, <2>2, Joining
<1>7. NoEnd(T, q + 1)
  <2>1. ASSUME T[q + 1] = "LF"
        PROVE  ~(q > 0 /\ DotAt(T, q)) /\ ~(q > 1 /\ T[q] = "CR" /\ DotAt(T, q - 1))
    BY <1>1, <2>1 DEF StateAt, DotAt
  <2> QED
    BY <1>1, <1>3, <2>1, NoEndOn
<1>8. (bad \/ T[q + 1] = "LF") <=> (LoneLF(T, q + 1) \/ LoneCR(T, q + 1))
  <2>1. LoneLF(T, q + 1) <=> LoneLF(T, q) \/ (T[q + 1] = "LF" /\ (q = 0 \/ T[q] # "CR"))
    BY <1>1, LoneOn
  <2>2. LoneCR(T, q + 1) <=> LoneCR(T, q)
    BY <1>1, LoneOn
  <2>3. T[q + 1] = "LF" => q = 0 \/ T[q] # "CR"
    BY <1>1 DEF StateAt, DotAt
  <2> QED
    BY <1>3, <2>1, <2>2, <2>3
<1>9. StateAt(T, q + 1, next)
  BY <1>1, <1>4 DEF StateAt
<1>10. q + 1 \in Nat /\ q + 1 <= Len(T) /\ (bad \/ T[q + 1] = "LF") \in BOOLEAN
  BY <1>1
<1> HIDE DEF next, e
<1>11. BlockOK(Bytes, T, q + 1, next, e, bad \/ T[q + 1] = "LF")
  BY <1>1, <1>2, <1>5, <1>6, <1>7, <1>8, <1>9, <1>10 DEF BlockOK
<1> QED
  BY <1>11 DEF next, e

\* CR LF ends a line.
LEMMA LineEnds ==
    ASSUME NEW Bytes, NEW T \in Seq(Bytes), NEW q, NEW d, NEW bad,
           BlockOK(Bytes, T, q, "CR", d, bad), q < Len(T), T[q + 1] = "LF"
    PROVE  BlockOK(Bytes, T, q + 1, "BeginLine", d \o <<T[q + 1]>>, bad)
<1> DEFINE m == q - 1  e == d \o <<T[q + 1]>>
<1>1. /\ q \in Nat /\ q > 0 /\ Len(T) \in Nat /\ q + 1 \in 1 .. Len(T) /\ q \in 1 .. Len(T)
      /\ d \in Seq(Bytes) /\ bad \in BOOLEAN /\ T[q] = "CR" /\ ~(q > 1 /\ DotAt(T, q - 1))
  BY DEF BlockOK, StateAt
<1>2. m \in Nat /\ m + 1 = q /\ m < Len(T) /\ q < Len(T)
  BY <1>1
<1>3. /\ Waiting("CR") = 1 /\ Waiting("BeginLine") = 0 /\ "BeginLine" \in DotStates
      /\ (q + 1) - 0 = q + 1
  BY <1>1 DEF Waiting, DotStates
<1>4. DecodedTo(T, d, m) /\ NoEnd(T, q) /\ (bad <=> (LoneLF(T, q) \/ LoneCR(T, m)))
  BY <1>3 DEF BlockOK
<1> HIDE DEF m
<1>5. DecodedTo(T, d, q)
  <2>1. q \notin Stays(T)
    BY <1>1, StaysIs
  <2> QED
    BY <1>1, <1>2, <1>4, <2>1, DecodesOn
<1>6. DecodedTo(T, e, q + 1)
  <2>1. q + 1 \in Stays(T)
    BY <1>1, BeginsIs, StaysIs
  <2> QED
    BY <1>1, <1>5, <2>1, DecodesOn
<1>7. e \in Seq(Bytes)
  <2>1. T[q + 1] \in Bytes
    BY <1>1
  <2>2. <<T[q + 1]>> \in Seq(Bytes)
    BY <2>1
  <2> QED
    BY <1>1, <2>2, Joining
<1>8. NoEnd(T, q + 1)
  <2>1. ~DotAt(T, q)
    BY <1>1 DEF DotAt
  <2> QED
    BY <1>1, <1>4, <2>1, NoEndOn
<1>9. bad <=> (LoneLF(T, q + 1) \/ LoneCR(T, q + 1))
  <2>1. LoneLF(T, q + 1) <=> LoneLF(T, q)
    <3>1. q \in Nat /\ q # 0 /\ T[q] = "CR"
      BY <1>1
    <3> QED
      BY <3>1, LoneOn
  <2>2. LoneCR(T, m + 1) <=> LoneCR(T, m)
    BY <1>1, <1>2, LoneOn
  <2>3. LoneCR(T, q + 1) <=> LoneCR(T, q)
    BY <1>1, LoneOn
  <2> QED
    BY <1>2, <1>4, <2>1, <2>2, <2>3
<1>10. StateAt(T, q + 1, "BeginLine")
  BY DEF StateAt
<1>11. q + 1 \in Nat /\ q + 1 <= Len(T)
  BY <1>1
<1> HIDE DEF e
<1>12. BlockOK(Bytes, T, q + 1, "BeginLine", e, bad)
  BY <1>1, <1>3, <1>6, <1>7, <1>8, <1>9, <1>10, <1>11 DEF BlockOK
<1> QED
  BY <1>12 DEF e

\* A CR without LF stays, and what follows it is given back.
LEMMA CRStays ==
    ASSUME NEW Bytes, NEW T \in Seq(Bytes), NEW q, NEW st, NEW d, NEW bad,
           BlockOK(Bytes, T, q, st, d, bad), q < Len(T), T[q + 1] # "LF", st \in {"CR", "DotCR"}
    PROVE  BlockOK(Bytes, T, q, "NonBegin", d \o <<"CR">>, TRUE)
<1> DEFINE m == q - 1  e == d \o <<"CR">>
<1>1. /\ q \in Nat /\ q > 0 /\ Len(T) \in Nat /\ q \in 1 .. Len(T) /\ d \in Seq(Bytes)
      /\ T[q] = "CR"
  BY DEF BlockOK, StateAt
<1>2. m \in Nat /\ m + 1 = q /\ m < Len(T)
  BY <1>1
<1>3. Waiting(st) = 1 /\ Waiting("NonBegin") = 0 /\ "NonBegin" \in DotStates /\ q - 0 = q /\ st # "EOF"
  BY <1>1 DEF Waiting, DotStates
<1>4. DecodedTo(T, d, m) /\ NoEnd(T, q)
  BY <1>3 DEF BlockOK
<1> HIDE DEF m
<1>5. ~DotAt(T, q)
  BY <1>1 DEF DotAt
<1>6. DecodedTo(T, e, q)
  <2>1. m + 1 \in Stays(T) /\ T[m + 1] = "CR"
    BY <1>1, <1>2, <1>5, StaysIs
  <2>2. DecodedTo(T, d \o <<T[m + 1]>>, m + 1)
    BY <1>1, <1>2, <1>4, <2>1, DecodesOn
  <2> QED
    BY <1>2, <2>1, <2>2
<1>7. e \in Seq(Bytes)
  <2>1. "CR" \in Bytes
    <3>1. T[q] \in Bytes
      BY <1>1
    <3> QED
      BY <1>1, <3>1
  <2>2. <<"CR">> \in Seq(Bytes)
    BY <2>1
  <2> QED
    BY <1>1, <2>2, Joining
<1>8. LoneCR(T, q)
  <2>1. T[m + 1] = "CR" /\ T[(m + 1) + 1] # "LF"
    BY <1>1, <1>2
  <2>2. LoneCR(T, m + 1)
    BY <1>1, <1>2, <2>1, LoneOn
  <2> QED
    BY <1>2, <2>2
<1>9. StateAt(T, q, "NonBegin")
  BY <1>1, <1>5 DEF StateAt
<1>10. q <= Len(T) /\ TRUE \in BOOLEAN
  BY <1>1
<1> HIDE DEF e
<1>11. BlockOK(Bytes, T, q, "NonBegin", e, TRUE)
  BY <1>1, <1>3, <1>4, <1>6, <1>7, <1>8, <1>9, <1>10 DEF BlockOK
<1> QED
  BY <1>11 DEF e

\* What was decoded to a character that does not stay was decoded to the one before.
LEMMA DecodedBefore ==
    ASSUME NEW Bytes, NEW T \in Seq(Bytes), NEW d, NEW m \in Nat, DecodedTo(T, d, m + 1),
           m + 1 \notin Stays(T)
    PROVE  DecodedTo(T, d, m)
<1>0. Len(T) \in Nat /\ DOMAIN T = 1 .. Len(T) /\ Stays(T) \subseteq 1 .. Len(T)
  BY DEF Stays
<1>1. Staying(T, m + 1) = Staying(T, m)
  BY <1>0, StayingGrows
<1>2. \A i \in Stays(T) : i <= m => i <= m + 1
  BY <1>0
<1> QED
  BY <1>1, <1>2 DEF DecodedTo

\* The end of the block.
LEMMA BlockEnds ==
    ASSUME NEW Bytes, NEW T \in Seq(Bytes), NEW q, NEW st, NEW d, NEW bad,
           BlockOK(Bytes, T, q, st, d, bad), q < Len(T), T[q + 1] = "LF", st \in {"Dot", "DotCR"}
    PROVE  BlockOK(Bytes, T, q + 1, "EOF", d, bad \/ st = "Dot")
<1>1. /\ q \in Nat /\ Len(T) \in Nat /\ q + 1 \in 1 .. Len(T) /\ q \in 1 .. Len(T)
      /\ d \in Seq(Bytes) /\ bad \in BOOLEAN /\ q > 0
      /\ st = "Dot" => DotAt(T, q)
      /\ st = "DotCR" => q > 1 /\ T[q] = "CR" /\ DotAt(T, q - 1)
  BY DEF BlockOK, StateAt
<1>2. /\ Waiting("EOF") = 0 /\ "EOF" \in DotStates /\ (q + 1) - 0 = q + 1
      /\ q + 1 \in Nat /\ q + 1 <= Len(T) /\ (bad \/ st = "Dot") \in BOOLEAN
  BY <1>1 DEF Waiting, DotStates
<1>3. NoEnd(T, q) /\ DecodedTo(T, d, q - Waiting(st)) /\ (bad <=> (LoneLF(T, q) \/ LoneCR(T, q - Waiting(st))))
  BY DEF BlockOK
<1>4. StateAt(T, q + 1, "EOF")
  BY DEF StateAt
<1>5. CASE st = "Dot"
  <2>1. Waiting(st) = 0 /\ q - 0 = q
    BY <1>1, <1>5 DEF Waiting
  <2> DEFINE m == q - 1
  <2>2. m \in Nat /\ m + 1 = q
    BY <1>1
  <2>3. q \notin Stays(T)
    BY <1>1, <1>5, StaysIs
  <2>4. DecodedTo(T, d, m)
    <3> HIDE DEF m
    <3> QED
      BY <1>3, <2>1, <2>2, <2>3, DecodedBefore
  <2>5. q \in Ends(T) /\ StopsAt(T, q) = q + 1 /\ \A i \in Ends(T) : q <= i
    BY <1>1, <1>3, <1>5, EndHere
  <2>6. EndedAt(T, q + 1, d)
    BY <2>4, <2>5 DEF EndedAt
  <2>7. (bad \/ st = "Dot") <=> (LoneLF(T, q + 1) \/ LoneCR(T, q + 1))
    <3>1. T[q] # "CR"
      BY <1>1, <1>5 DEF DotAt
    <3>2. LoneLF(T, q + 1)
      BY <1>1, <3>1, LoneOn
    <3> QED
      BY <1>5, <3>2
  <2> QED
    BY <1>1, <1>2, <1>4, <2>6, <2>7 DEF BlockOK
<1>6. CASE st = "DotCR"
  <2> DEFINE m == q - 2  k == q - 1
  <2>0. Waiting(st) = 1 /\ st # "Dot"
    BY <1>6 DEF Waiting
  <2>1. m \in Nat /\ k \in Nat /\ m + 1 = k /\ k + 1 = q /\ k \in 1 .. Len(T) /\ k - 1 = m
    BY <1>1, <1>6
  <2>2. DecodedTo(T, d, k) /\ DotAt(T, k) /\ (bad <=> (LoneLF(T, q) \/ LoneCR(T, k)))
    BY <1>1, <1>3, <1>6, <2>0
  <2>3. k \in Ends(T) /\ StopsAt(T, k) = q + 1 /\ \A i \in Ends(T) : k <= i
    BY <1>1, <1>3, <1>6, EndHere
  <2> HIDE DEF m, k
  <2>4. k \notin Stays(T)
    BY <2>1, <2>2, StaysIs
  <2>5. DecodedTo(T, d, m)
    BY <2>1, <2>2, <2>4, DecodedBefore
  <2>6. EndedAt(T, q + 1, d)
    BY <2>1, <2>3, <2>5 DEF EndedAt
  <2>7. (bad \/ st = "Dot") <=> (LoneLF(T, q + 1) \/ LoneCR(T, q + 1))
    <3>1. LoneLF(T, q + 1) <=> LoneLF(T, q)
      <4>1. q # 0 /\ T[q] = "CR"
        BY <1>1, <1>6
      <4> QED
        BY <1>1, <4>1, LoneOn
    <3>2. LoneCR(T, k + 1) <=> LoneCR(T, k)
      BY <1>1, <1>6, <2>1, LoneOn
    <3>3. LoneCR(T, q + 1) <=> LoneCR(T, q)
      BY <1>1, LoneOn
    <3> QED
      BY <2>0, <2>1, <2>2, <3>1, <3>2, <3>3
  <2> QED
    BY <1>1, <1>2, <1>4, <2>6, <2>7 DEF BlockOK
<1> QED
  BY <1>5, <1>6

\* Which case of process the next character takes.
LEMMA ProcessIs ==
    ASSUME NEW c
    PROVE  /\ ds \in {"BeginLine", "NonBegin"} /\ c = "CR" =>
                 process(c) = Dotted("CR", <<>>, FALSE, FALSE)
           /\ ds = "Dot" /\ c = "CR" => process(c) = Dotted("DotCR", <<>>, FALSE, FALSE)
           /\ ds \in {"BeginLine", "NonBegin"} /\ c = "LF" =>
                 process(c) = Dotted("BeginLine", <<c>>, TRUE, FALSE)
           /\ ds = "Dot" /\ c = "LF" => process(c) = Dotted("EOF", <<>>, TRUE, FALSE)
           /\ ds = "BeginLine" /\ c = "." => process(c) = Dotted("Dot", <<>>, FALSE, FALSE)
           /\ ds = "DotCR" /\ c = "LF" => process(c) = Dotted("EOF", <<>>, FALSE, FALSE)
           /\ ds = "CR" /\ c = "LF" => process(c) = Dotted("BeginLine", <<c>>, FALSE, FALSE)
           /\ ds \in {"CR", "DotCR"} /\ c # "LF" =>
                 process(c) = Dotted("NonBegin", <<"CR">>, TRUE, TRUE)
           /\ ds \in {"BeginLine", "NonBegin", "Dot"} /\ c # "CR" /\ c # "LF"
                 /\ (ds = "BeginLine" => c # ".") =>
                 process(c) = Dotted("NonBegin", <<c>>, FALSE, FALSE)
  BY DEF process

\* What process does with the next character is right, whatever the state.
LEMMA ProcessOK ==
    ASSUME NEW Bytes, NEW T \in Seq(Bytes), NEW q, NEW d, NEW bad,
           BlockOK(Bytes, T, q, ds, d, bad), q < Len(T), ds # "EOF",
           NEW x, x = process(T[q + 1])
    PROVE  /\ x.back \in BOOLEAN
           /\ x.back => BlockOK(Bytes, T, q, x.s, d \o x.out, bad \/ x.bad)
           /\ ~x.back => BlockOK(Bytes, T, q + 1, x.s, d \o x.out, bad \/ x.bad)
<1> DEFINE c == T[q + 1]
<1>1. d \in Seq(Bytes) /\ d \o <<>> = d /\ bad \in BOOLEAN /\ ds \in DotStates
  <2>1. d \in Seq(Bytes) /\ bad \in BOOLEAN /\ ds \in DotStates
    BY DEF BlockOK
  <2> QED
    BY <2>1, Joining
<1>2. /\ (bad \/ FALSE) = bad /\ (bad \/ TRUE) = TRUE
  BY <1>1
<1> HIDE DEF c
<1>3. CASE (ds \in {"BeginLine", "NonBegin"} /\ c = "CR") \/ (ds = "Dot" /\ c = "CR")
  <2> DEFINE next == IF ds = "Dot" THEN "DotCR" ELSE "CR"
  <2>1. x = Dotted(next, <<>>, FALSE, FALSE)
    BY <1>3, ProcessIs DEF c
  <2>2. x.s = next /\ x.out = <<>> /\ x.bad = FALSE /\ x.back = FALSE
    BY <2>1 DEF Dotted
  <2>3. BlockOK(Bytes, T, q + 1, next, d, bad)
    BY <1>3, CRComes DEF c
  <2> QED
    BY <1>1, <1>2, <2>2, <2>3
<1>4. CASE ds = "BeginLine" /\ c = "."
  <2>1. x = Dotted("Dot", <<>>, FALSE, FALSE)
    BY <1>4, ProcessIs DEF c
  <2>2. x.s = "Dot" /\ x.out = <<>> /\ x.bad = FALSE /\ x.back = FALSE
    BY <2>1 DEF Dotted
  <2>3. BlockOK(Bytes, T, q + 1, "Dot", d, bad)
    BY <1>4, DotComes DEF c
  <2> QED
    BY <1>1, <1>2, <2>2, <2>3
<1>5. CASE /\ ds \in {"BeginLine", "NonBegin", "Dot"} /\ c # "CR"
           /\ ds = "BeginLine" => c # "."
           /\ ds = "Dot" => c # "LF"
  <2> DEFINE next == IF c = "LF" THEN "BeginLine" ELSE "NonBegin"
  <2>1. x = Dotted(next, <<c>>, c = "LF", FALSE)
    <3>1. CASE c = "LF"
      <4>1. x = Dotted("BeginLine", <<c>>, TRUE, FALSE)
        BY <1>5, <3>1, ProcessIs DEF c
      <4> QED
        BY <3>1, <4>1
    <3>2. CASE c # "LF"
      <4>1. x = Dotted("NonBegin", <<c>>, FALSE, FALSE)
        BY <1>5, <3>2, ProcessIs DEF c
      <4>2. (c = "LF") = FALSE
        BY <3>2
      <4> QED
        BY <3>2, <4>1, <4>2
    <3> QED
      BY <3>1, <3>2
  <2>2. x.s = next /\ x.out = <<c>> /\ x.bad = (c = "LF") /\ x.back = FALSE
    BY <2>1 DEF Dotted
  <2>3. BlockOK(Bytes, T, q + 1, next, d \o <<c>>, bad \/ c = "LF")
    BY <1>5, CharComes DEF c
  <2> QED
    BY <2>2, <2>3
<1>6. CASE ds = "CR" /\ c = "LF"
  <2>1. x = Dotted("BeginLine", <<c>>, FALSE, FALSE)
    BY <1>6, ProcessIs DEF c
  <2>2. x.s = "BeginLine" /\ x.out = <<c>> /\ x.bad = FALSE /\ x.back = FALSE
    BY <2>1 DEF Dotted
  <2>3. BlockOK(Bytes, T, q + 1, "BeginLine", d \o <<c>>, bad)
    BY <1>6, LineEnds DEF c
  <2> QED
    BY <1>2, <2>2, <2>3
<1>7. CASE ds \in {"CR", "DotCR"} /\ c # "LF"
  <2>1. x = Dotted("NonBegin", <<"CR">>, TRUE, TRUE)
    BY <1>7, ProcessIs DEF c
  <2>2. x.s = "NonBegin" /\ x.out = <<"CR">> /\ x.bad = TRUE /\ x.back = TRUE
    BY <2>1 DEF Dotted
  <2>3. BlockOK(Bytes, T, q, "NonBegin", d \o <<"CR">>, TRUE)
    BY <1>7, CRStays DEF c
  <2> QED
    BY <1>2, <2>2, <2>3
<1>8. CASE ds \in {"Dot", "DotCR"} /\ c = "LF"
  <2>1. x = Dotted("EOF", <<>>, ds = "Dot", FALSE)
    <3>1. CASE ds = "Dot"
      <4>1. x = Dotted("EOF", <<>>, TRUE, FALSE)
        BY <1>8, <3>1, ProcessIs DEF c
      <4> QED
        BY <3>1, <4>1
    <3>2. CASE ds = "DotCR"
      <4>1. x = Dotted("EOF", <<>>, FALSE, FALSE)
        BY <1>8, <3>2, ProcessIs DEF c
      <4>2. (ds = "Dot") = FALSE
        BY <3>2
      <4> QED
        BY <4>1, <4>2
    <3> QED
      BY <1>8, <3>1, <3>2
  <2>2. x.s = "EOF" /\ x.out = <<>> /\ x.bad = (ds = "Dot") /\ x.back = FALSE
    BY <2>1 DEF Dotted
  <2>3. BlockOK(Bytes, T, q + 1, "EOF", d, bad \/ ds = "Dot")
    BY <1>8, BlockEnds DEF c
  <2> QED
    BY <1>1, <2>2, <2>3
<1> QED
  BY <1>1, <1>3, <1>4, <1>5, <1>6, <1>7, <1>8 DEF DotStates

\* Where the reader is in what came after the blocks before this one.
LEMMA WhereIs ==
    ASSUME NEW Bytes, Flow(Bytes), begin \in 0 .. Len(given),
           NEW T, T = Rest(input, begin), NEW q, q = Len(given) - begin
    PROVE  /\ T \in Seq(Bytes) /\ q \in Nat /\ q <= Len(T)
           /\ Len(T) - q = Len(buf) + Len(src) /\ Rest(T, q) = buf \o src
           /\ buf # <<>> => q < Len(T) /\ T[q + 1] = Head(buf)
<1> DEFINE r == buf \o src
<1>1. /\ src \in Seq(Bytes) /\ buf \in Seq(Bytes) /\ given \in Seq(Bytes) /\ input \in Seq(Bytes)
      /\ (given \o buf) \o src = input
  BY DEF Flow
<1>2. Len(src) \in Nat /\ Len(buf) \in Nat /\ Len(given) \in Nat /\ Len(input) \in Nat /\ begin \in Nat
  BY <1>1
<1>3. r \in Seq(Bytes) /\ Len(r) = Len(buf) + Len(src) /\ given \o r = input
  <2>1. /\ \A a, b \in Seq(Bytes) : a \o b \in Seq(Bytes) /\ Len(a \o b) = Len(a) + Len(b)
        /\ \A a, b, c \in Seq(Bytes) : (a \o b) \o c = a \o (b \o c)
    BY Joining
  <2> QED
    BY <1>1, <2>1
<1>4. \A i \in 1 .. Len(buf) : r[i] = buf[i]
  <2>1. \A i \in 1 .. Len(buf) + Len(src) : r[i] = IF i <= Len(buf) THEN buf[i] ELSE src[i - Len(buf)]
    BY <1>1, ConcatProperties
  <2> HIDE DEF r
  <2> QED
    BY <1>2, <2>1
<1> HIDE DEF r
<1>5. /\ Len(input) = Len(given) + Len(r)
      /\ \A i \in 1 .. Len(r) : input[Len(given) + i] = r[i]
  <2>1. /\ Len(input) = Len(given) + Len(r)
        /\ \A i \in 1 .. Len(given) + Len(r) :
              input[i] = IF i <= Len(given) THEN given[i] ELSE r[i - Len(given)]
    <3>1. /\ Len(given \o r) = Len(given) + Len(r)
          /\ \A i \in 1 .. Len(given) + Len(r) :
                (given \o r)[i] = IF i <= Len(given) THEN given[i] ELSE r[i - Len(given)]
      <4>1. given \in Seq(Bytes) /\ r \in Seq(Bytes)
        BY <1>1, <1>3
      <4> QED
        BY <4>1, ConcatProperties
    <3> QED
      BY <1>3, <3>1
  <2>2. ASSUME NEW i \in 1 .. Len(r)
        PROVE  input[Len(given) + i] = r[i]
    <3>1. /\ Len(given) + i \in 1 .. Len(given) + Len(r) /\ ~(Len(given) + i <= Len(given))
          /\ (Len(given) + i) - Len(given) = i
      BY <1>2, <1>3
    <3> QED
      BY <2>1, <3>1
  <2> QED
    BY <2>1, <2>2
<1>6. /\ T \in Seq(Bytes) /\ Len(T) = Len(input) - begin
      /\ \A i \in 1 .. Len(input) - begin : T[i] = input[begin + i]
  <2>1. begin \in 0 .. Len(input)
    BY <1>2, <1>3, <1>5
  <2> QED
    BY <1>1, <2>1, FirstRest
<1>7. q \in Nat /\ q <= Len(T) /\ Len(T) - q = Len(r) /\ begin + q = Len(given)
  BY <1>2, <1>3, <1>5, <1>6
<1>8. \A i \in 1 .. Len(r) : T[q + i] = r[i]
  <2> SUFFICES ASSUME NEW i \in 1 .. Len(r) PROVE T[q + i] = r[i]
    OBVIOUS
  <2>1. q + i \in 1 .. Len(input) - begin /\ begin + (q + i) = Len(given) + i
    BY <1>2, <1>3, <1>5, <1>6, <1>7
  <2>2. T[q + i] = input[begin + (q + i)]
    BY <1>6, <2>1
  <2> QED
    BY <1>5, <2>1, <2>2
<1>9. Rest(T, q) = r
  <2> DEFINE w == Rest(T, q)
  <2>1. /\ w \in Seq(Bytes) /\ Len(w) = Len(T) - q
        /\ \A i \in 1 .. Len(T) - q : w[i] = T[q + i]
    <3>1. q \in 0 .. Len(T)
      BY <1>6, <1>7
    <3> QED
      BY <1>6, <3>1, FirstRest
  <2> HIDE DEF w
  <2>2. Len(w) = Len(r) /\ \A i \in 1 .. Len(w) : w[i] = r[i]
    BY <1>7, <1>8, <2>1
  <2>3. w = r
    BY <1>3, <2>1, <2>2, SeqEqual
  <2> QED
    BY <2>3 DEF w
<1>10. ASSUME buf # <<>>
       PROVE  q < Len(T) /\ T[q + 1] = Head(buf)
  <2>1. Len(buf) > 0 /\ Head(buf) = buf[1]
    BY <1>1, <1>10, EmptySeq
  <2>2. 1 \in 1 .. Len(r) /\ 1 \in 1 .. Len(buf)
    BY <1>2, <1>3, <2>1
  <2>3. T[q + 1] = r[1] /\ r[1] = buf[1]
    BY <1>4, <1>8, <2>2
  <2>4. q < Len(T)
    BY <1>2, <1>3, <1>6, <1>7, <2>1
  <2> QED
    BY <2>1, <2>3, <2>4
<1> QED
  BY <1>3, <1>6, <1>7, <1>9, <1>10 DEF r

\* The block that is being read, and what the calls have said of it.
DotInv(Bytes) ==
    /\ Flow(Bytes) /\ begin \in 0 .. Len(given)
    /\ BlockOK(Bytes, Rest(input, begin), Len(given) - begin, ds, decoded, badnl)
    /\ ended \in {"nil", "EOF", "ErrUnexpectedEOF"}
    /\ ended # "nil" => dcall = -2
    /\ ended = "EOF" => ds = "EOF"
    /\ ended = "ErrUnexpectedEOF" => ds # "EOF" /\ buf = <<>> /\ src = <<>>

\* Before a block.
LEMMA NewBlock ==
    ASSUME NEW Bytes, NEW T \in Seq(Bytes)
    PROVE  BlockOK(Bytes, T, 0, "BeginLine", <<>>, FALSE)
<1>1. Len(T) \in Nat /\ DOMAIN T = 1 .. Len(T) /\ <<>> \in Seq(Bytes) /\ Len(<<>>) = 0
  BY NothingRead
<1>2. Waiting("BeginLine") = 0 /\ "BeginLine" \in DotStates /\ 0 - 0 = 0
  BY DEF Waiting, DotStates
<1>3. DecodedTo(T, <<>>, 0)
  <2>1. Staying(T, 0) = 0
    BY <1>1, StayingGrows
  <2>2. \A i \in Stays(T) : ~(i <= 0)
    BY <1>1 DEF Stays
  <2> QED
    BY <1>1, <2>1, <2>2 DEF DecodedTo
<1>4. NoEnd(T, 0)
  <2> SUFFICES ASSUME NEW i \in Ends(T) PROVE StopsAt(T, i) > 0
    BY DEF NoEnd
  <2>1. i \in Nat /\ (StopsAt(T, i) = i + 1 \/ StopsAt(T, i) = i + 2)
    BY EndIs
  <2> QED
    BY <2>1
<1>5. ~LoneLF(T, 0) /\ ~LoneCR(T, 0)
  <2>1. \A i \in 1 .. 0 : FALSE
    OBVIOUS
  <2> QED
    BY <2>1 DEF LoneLF, LoneCR
<1>6. StateAt(T, 0, "BeginLine")
  BY DEF StateAt
<1> QED
  BY <1>1, <1>2, <1>3, <1>4, <1>5, <1>6 DEF BlockOK

\* A byte is taken from the buffer and decoded, or left there.
LEMMA DotByteInv ==
    ASSUME NEW Bytes, DotInv(Bytes), DotByte
    PROVE  DotInv(Bytes)'
<1> DEFINE T == Rest(input, begin)  q == Len(given) - begin  c == Head(buf)
<1>1. /\ Flow(Bytes) /\ begin \in 0 .. Len(given) /\ BlockOK(Bytes, T, q, ds, decoded, badnl)
      /\ ended \in {"nil", "EOF", "ErrUnexpectedEOF"} /\ (ended # "nil" => dcall = -2)
  BY DEF DotInv
<1>2. /\ dcall # -2 /\ ds # "EOF" /\ buf # <<>>
      /\ UNCHANGED <<size, input, call, last, begin, ended>>
  BY DEF DotByte
<1>3. T \in Seq(Bytes) /\ q < Len(T) /\ T[q + 1] = c /\ q \in Nat
  BY <1>1, <1>2, WhereIs
<1> HIDE DEF T, q, c
<1>4. PICK x : /\ x = process(c)
               /\ IF x.back THEN UNCHANGED readerVars ELSE Take(1)
               /\ ds' = x.s /\ decoded' = decoded \o x.out
               /\ badnl' = (badnl \/ x.bad)
  BY DEF DotByte, c
<1>5. /\ x.back \in BOOLEAN
      /\ x.back => BlockOK(Bytes, T, q, ds', decoded', badnl')
      /\ ~x.back => BlockOK(Bytes, T, q + 1, ds', decoded', badnl')
  BY <1>1, <1>2, <1>3, <1>4, ProcessOK
<1>6. CASE x.back
  <2>1. UNCHANGED <<src, buf, lead, queued, given>>
    BY <1>4, <1>6 DEF readerVars
  <2>2. Flow(Bytes)' /\ begin' \in 0 .. Len(given')
    BY <1>1, <1>2, <2>1 DEF Flow
  <2>3. Rest(input', begin') = T /\ Len(given') - begin' = q
    BY <1>2, <2>1 DEF T, q
  <2> QED
    BY <1>1, <1>2, <1>5, <1>6, <2>2, <2>3 DEF DotInv
<1>7. CASE ~x.back
  <2>1. Take(1)
    BY <1>4, <1>7
  <2>2. buf \in Seq(Bytes) /\ given \in Seq(Bytes) /\ begin \in Nat
    BY <1>1 DEF Flow
  <2>3. 1 \in 0 .. Len(buf)
    <3>1. Len(buf) \in Nat /\ Len(buf) # 0
      BY <1>2, <2>2, EmptySeq
    <3> QED
      BY <3>1
  <2>4. Flow(Bytes)'
    BY <1>1, <1>2, <2>1, <2>3, TakeFlow
  <2>5. Len(given') = Len(given) + 1
    <3> DEFINE f == First(buf, 1)
    <3>1. given' = given \o f
      BY <2>1 DEF Take
    <3>2. f \in Seq(Bytes) /\ Len(f) = 1
      BY <2>2, <2>3, FirstRest
    <3> HIDE DEF f
    <3>3. \A a, b \in Seq(Bytes) : Len(a \o b) = Len(a) + Len(b)
      BY Joining
    <3>4. Len(given \o f) = Len(given) + Len(f)
      BY <2>2, <3>2, <3>3
    <3> QED
      BY <3>1, <3>2, <3>4
  <2>6. Rest(input', begin') = T /\ Len(given') - begin' = q + 1 /\ begin' \in 0 .. Len(given')
    <3>1. Len(given) \in Nat /\ begin' = begin /\ input' = input
      BY <1>2, <2>2
    <3>2. Rest(input', begin') = T
      BY <3>1 DEF T
    <3> QED
      BY <1>1, <2>2, <2>5, <3>1, <3>2 DEF q
  <2> QED
    BY <1>1, <1>2, <1>5, <1>7, <2>4, <2>6 DEF DotInv
<1> QED
  BY <1>5, <1>6, <1>7

\* The buffer is filled, or there is nothing more.
LEMMA DotRefillInv ==
    ASSUME NEW Bytes, DotInv(Bytes), DotRefill
    PROVE  DotInv(Bytes)'
<1>1. /\ Flow(Bytes) /\ begin \in 0 .. Len(given)
      /\ BlockOK(Bytes, Rest(input, begin), Len(given) - begin, ds, decoded, badnl)
      /\ ended \in {"nil", "EOF", "ErrUnexpectedEOF"} /\ (ended # "nil" => dcall = -2)
  BY DEF DotInv
<1>2. /\ dcall # -2 /\ ds # "EOF" /\ buf = <<>>
      /\ UNCHANGED <<size, input, call, last, ds, badnl, begin, decoded>>
  BY DEF DotRefill
<1>3. CASE queued = "nil" /\ Refill /\ UNCHANGED <<dcall, ended>>
  <2>1. Flow(Bytes)'
    BY <1>1, <1>2, <1>3, RefillFlow
  <2>2. given' = given
    BY <1>3 DEF Refill
  <2> QED
    BY <1>1, <1>2, <1>3, <2>1, <2>2 DEF DotInv
<1>4. CASE queued # "nil" /\ readErr /\ DotReturns("ErrUnexpectedEOF")
  <2>1. /\ UNCHANGED <<src, buf, lead, given>> /\ queued' = "nil"
        /\ dcall' = -2 /\ ended' = "ErrUnexpectedEOF"
    BY <1>4 DEF readErr, DotReturns
  <2>2. src = <<>>
    BY <1>1, <1>4 DEF Flow
  <2>3. Flow(Bytes)'
    BY <1>1, <1>2, <2>1 DEF Flow
  <2> QED
    BY <1>1, <1>2, <2>1, <2>2, <2>3 DEF DotInv
<1> QED
  BY <1>3, <1>4 DEF DotRefill

\* The next block begins.
LEMMA DotResetInv ==
    ASSUME NEW Bytes, DotInv(Bytes), DotReset
    PROVE  DotInv(Bytes)'
<1>1. Flow(Bytes)
  BY DEF DotInv
<1>2. /\ ds' = "BeginLine" /\ badnl' = FALSE /\ begin' = Len(given) /\ decoded' = <<>>
      /\ ended' = "nil" /\ UNCHANGED <<size, input, src, buf, lead, queued, given>>
  BY DEF DotReset, bufVars, readerVars
<1>3. Flow(Bytes)'
  BY <1>1, <1>2 DEF Flow
<1>4. Len(given) \in Nat /\ Len(given) - Len(given) = 0 /\ Len(given) \in 0 .. Len(given)
  <2>1. given \in Seq(Bytes)
    BY <1>1 DEF Flow
  <2>2. Len(given) \in Nat
    BY <2>1
  <2> QED
    BY <2>2
<1>5. Rest(input, Len(given)) \in Seq(Bytes)
  <2>1. Len(given) \in 0 .. Len(given)
    BY <1>4
  <2>2. input \in Seq(Bytes) /\ Len(given) \in 0 .. Len(input)
    <3>1. /\ src \in Seq(Bytes) /\ buf \in Seq(Bytes) /\ given \in Seq(Bytes) /\ input \in Seq(Bytes)
          /\ (given \o buf) \o src = input
      BY <1>1 DEF Flow
    <3>2. \A a, b \in Seq(Bytes) : a \o b \in Seq(Bytes) /\ Len(a \o b) = Len(a) + Len(b)
      BY Joining
    <3>3. Len(input) = (Len(given) + Len(buf)) + Len(src)
      BY <3>1, <3>2
    <3>4. Len(buf) \in Nat /\ Len(src) \in Nat /\ Len(given) \in Nat
      BY <3>1
    <3> QED
      BY <3>1, <3>3, <3>4
  <2> QED
    BY <2>2, FirstRest
<1>6. BlockOK(Bytes, Rest(input', begin'), Len(given') - begin', ds', decoded', badnl')
  BY <1>2, <1>4, <1>5, NewBlock
<1> QED
  BY <1>2, <1>3, <1>4, <1>6 DEF DotInv

\* Calls begin and end.
LEMMA DotCallInv ==
    ASSUME NEW Bytes, NEW wants, DotInv(Bytes), DotCall(wants) \/ DotReturn
    PROVE  DotInv(Bytes)'
<1>1. UNCHANGED <<size, input, src, buf, lead, queued, given, ds, badnl, begin, decoded>>
  BY DEF DotCall, DotReturn, bufVars, readerVars
<1>2. /\ Flow(Bytes)' /\ begin' \in 0 .. Len(given')
      /\ BlockOK(Bytes, Rest(input', begin'), Len(given') - begin', ds', decoded', badnl')
  BY <1>1 DEF DotInv, Flow
<1>3. CASE DotCall(wants)
  <2>1. ended' = "nil"
    BY <1>3 DEF DotCall
  <2> QED
    BY <1>2, <2>1 DEF DotInv
<1>4. CASE DotReturn
  <2>1. dcall' = -2 /\ ended' = IF ds' = "EOF" THEN "EOF" ELSE "nil"
    BY <1>1, <1>4 DEF DotReturn, DotReturns
  <2>2. /\ ended' \in {"nil", "EOF", "ErrUnexpectedEOF"} /\ (ended' = "EOF" => ds' = "EOF")
        /\ ended' # "ErrUnexpectedEOF"
    BY <2>1
  <2> QED
    BY <1>2, <2>1, <2>2 DEF DotInv
<1> QED
  BY <1>3, <1>4

\* What the first characters were decoded to is the beginning of what all decode to.
LEMMA PrefixDecodes ==
    ASSUME NEW Bytes, NEW T \in Seq(Bytes), NEW d, NEW m \in Nat, m <= Len(T), DecodedTo(T, d, m)
    PROVE  DecodesFrom(T, d) /\ (m = Len(T) => Decodes(T, d))
<1>0. Len(T) \in Nat /\ DOMAIN T = 1 .. Len(T) /\ \A i \in Stays(T) : i \in Nat
  BY DEF Stays
<1>1. /\ \A j \in Nat : Staying(T, j) \in Nat
      /\ \A i, j \in Nat : i <= j => Staying(T, i) <= Staying(T, j)
      /\ \A i, j \in Nat : i < j /\ j \in Stays(T) => Staying(T, i) < Staying(T, j)
  BY <1>0, StayingGrows
<1>2. Len(d) = Staying(T, m) /\ \A i \in Stays(T) : i <= m => d[Staying(T, i)] = T[i]
  BY DEF DecodedTo
<1>3. Len(d) <= Staying(T, Len(T))
  BY <1>0, <1>1, <1>2
<1>4. ASSUME NEW i \in Stays(T), Staying(T, i) <= Len(d)
      PROVE  d[Staying(T, i)] = T[i]
  <2>1. i \in Nat /\ Staying(T, i) \in Nat /\ Staying(T, m) \in Nat
    BY <1>0, <1>1
  <2>2. ~(m < i)
    BY <1>1, <1>2, <1>4, <2>1
  <2> QED
    BY <1>2, <2>1, <2>2
<1>5. DecodesFrom(T, d)
  BY <1>3, <1>4 DEF DecodesFrom
<1> QED
  BY <1>2, <1>5 DEF Decodes

\* What comes before an end decodes by itself to what it decodes to in the whole.
LEMMA BlockDecodes ==
    ASSUME NEW Bytes, NEW T \in Seq(Bytes), NEW d, NEW e \in Ends(T), NEW m \in Nat, m <= e - 1,
           DecodedTo(T, d, m)
    PROVE  /\ DecodesFrom(First(T, e - 1), d)
           /\ m = e - 1 => Decodes(First(T, e - 1), d)
<1> DEFINE k == e - 1  B == First(T, k)
<1>1. e \in 1 .. Len(T) /\ Len(T) \in Nat /\ T[e] = "." /\ k \in Nat /\ k <= Len(T) /\ k + 1 = e
  BY EndIs DEF DotAt
<1> HIDE DEF k
<1>2. B \in Seq(Bytes) /\ Len(B) = k /\ \A i \in 1 .. k : B[i] = T[i]
  BY <1>1, FirstRest
<1> HIDE DEF B
<1>3. ASSUME NEW i \in 1 .. k
      PROVE  i \in Stays(B) <=> i \in Stays(T)
  <2>1. i \in Nat /\ i \in 1 .. Len(T) /\ i \in 1 .. Len(B) /\ B[i] = T[i]
    BY <1>1, <1>2
  <2>2. DotAt(B, i) <=> DotAt(T, i)
    <3>1. i = 1 \/ i - 1 \in 1 .. k
      BY <1>1, <2>1
    <3>2. i = 1 \/ B[i - 1] = T[i - 1]
      BY <1>2, <3>1
    <3> QED
      BY <2>1, <3>2 DEF DotAt, LineBegins
  <2>3. (i < k /\ B[i + 1] = "LF") <=> (i < Len(T) /\ T[i + 1] = "LF")
    <3>1. CASE i < k
      <4>1. i + 1 \in 1 .. k /\ i < Len(T)
        BY <1>1, <2>1, <3>1
      <4> QED
        BY <1>2, <3>1, <4>1
    <3>2. CASE i = k
      <4>1. T[i + 1] # "LF" /\ ~(i < k)
        BY <1>1, <3>2
      <4> QED
        BY <4>1
    <3>3. i < k \/ i = k
      BY <1>1
    <3> QED
      BY <3>1, <3>2, <3>3
  <2>4. i \in Stays(B) <=> ~DotAt(B, i) /\ ~(B[i] = "CR" /\ i < k /\ B[i + 1] = "LF")
    BY <1>2, <2>1, StaysIs
  <2>5. i \in Stays(T) <=> ~DotAt(T, i) /\ ~(T[i] = "CR" /\ i < Len(T) /\ T[i + 1] = "LF")
    BY <2>1, StaysIs
  <2> QED
    BY <2>1, <2>2, <2>3, <2>4, <2>5
<1>4. Stays(B) \subseteq 1 .. k /\ Stays(T) \subseteq 1 .. Len(T)
  BY <1>2 DEF Stays
<1>5. ASSUME NEW i \in Nat, i <= k
      PROVE  Staying(B, i) = Staying(T, i)
  <2>1. \A j \in 1 .. k : j \in Stays(B) <=> j \in Stays(T)
    BY <1>3
  <2>2. \A j \in 1 .. Len(T) : j <= i => j \in 1 .. k
    BY <1>1, <1>5
  <2>3. {j \in Stays(B) : j <= i} = {j \in Stays(T) : j <= i}
    BY <1>4, <2>1, <2>2
  <2> QED
    BY <2>3 DEF Staying
<1>6. m \in Nat /\ m <= k
  BY DEF k
<1>7. DecodedTo(B, d, m)
  <2>1. Len(d) = Staying(T, m) /\ \A i \in Stays(T) : i <= m => d[Staying(T, i)] = T[i]
    BY DEF DecodedTo
  <2>2. Len(d) = Staying(B, m)
    BY <1>5, <1>6, <2>1
  <2>3. ASSUME NEW i \in Stays(B), i <= m
        PROVE  d[Staying(B, i)] = B[i]
    <3>1. i \in 1 .. k /\ i \in Nat /\ i <= k
      BY <1>1, <1>4
    <3>2. i \in Stays(T) /\ Staying(B, i) = Staying(T, i) /\ B[i] = T[i]
      BY <1>2, <1>3, <1>5, <3>1
    <3> QED
      BY <2>1, <2>3, <3>2
  <2> QED
    BY <2>2, <2>3 DEF DecodedTo
<1>8. DecodesFrom(B, d) /\ (m = k => Decodes(B, d))
  BY <1>2, <1>6, <1>7, PrefixDecodes
<1> QED
  BY <1>8 DEF k, B

\* As long as the end has not been read, nothing of it was decoded.
LEMMA BeforeEnd ==
    ASSUME NEW Bytes, NEW T \in Seq(Bytes), NEW d, NEW e \in Ends(T), NEW m \in Nat,
           m < StopsAt(T, e), DecodedTo(T, d, m)
    PROVE  \E k \in Nat : k <= e - 1 /\ DecodedTo(T, d, k)
<1> DEFINE k == e - 1
<1>1. /\ e \in 1 .. Len(T) /\ Len(T) \in Nat /\ DotAt(T, e) /\ k \in Nat /\ k + 1 = e
      /\ StopsAt(T, e) <= Len(T)
  BY EndIs
<1>2. ASSUME DecodedTo(T, d, e)
      PROVE  DecodedTo(T, d, k)
  <2>1. e \notin Stays(T)
    BY <1>1, StaysIs
  <2> HIDE DEF k
  <2> QED
    BY <1>1, <1>2, <2>1, DecodedBefore
<1>3. CASE m <= k
  BY <1>3
<1>4. CASE m = e
  BY <1>1, <1>2, <1>4
<1>5. CASE m = e + 1
  <2>1. StopsAt(T, e) = e + 2 /\ T[e + 1] = "CR" /\ T[e + 2] = "LF"
    BY <1>1, <1>5, EndIs
  <2>2. /\ e \in Nat /\ e + 1 \in 1 .. Len(T) /\ e + 1 < Len(T) /\ (e + 1) + 1 = e + 2
    BY <1>1, <2>1
  <2>3. e + 1 \notin Stays(T)
    BY <2>1, <2>2, StaysIs
  <2>4. DecodedTo(T, d, e)
    BY <1>5, <2>2, <2>3, DecodedBefore
  <2> QED
    BY <1>1, <1>2, <2>4
<1>6. m <= k \/ m = e \/ m = e + 1
  <2>1. StopsAt(T, e) = e + 1 \/ StopsAt(T, e) = e + 2
    BY EndIs
  <2> QED
    BY <1>1, <2>1
<1> QED
  BY <1>3, <1>4, <1>5, <1>6

\* What InvalidNL says of a block that ends with a LF.
LEMMA UnmatchedIs ==
    ASSUME NEW Bytes, NEW T \in Seq(Bytes), NEW q \in 1 .. Len(T), T[q] = "LF"
    PROVE  Unmatched(First(T, q)) <=> LoneLF(T, q) \/ LoneCR(T, q)
<1> DEFINE W == First(T, q)
<1>1. q \in Nat /\ Len(T) \in Nat
  OBVIOUS
<1>2. W \in Seq(Bytes) /\ Len(W) = q /\ \A i \in 1 .. q : W[i] = T[i]
  BY <1>1, FirstRest
<1> HIDE DEF W
<1>3. DOMAIN W = 1 .. q
  BY <1>2
<1>4. ASSUME NEW i \in 1 .. q
      PROVE  /\ (W[i] = "LF" /\ (i = 1 \/ W[i - 1] # "CR")) <=>
                   (T[i] = "LF" /\ (i = 1 \/ T[i - 1] # "CR"))
             /\ (W[i] = "CR" /\ (i = Len(W) \/ W[i + 1] # "LF")) <=>
                   (T[i] = "CR" /\ T[i + 1] # "LF")
  <2>1. i \in Nat /\ W[i] = T[i] /\ (i = 1 \/ i - 1 \in 1 .. q) /\ (i = q \/ i + 1 \in 1 .. q)
    BY <1>1, <1>2
  <2>2. i = 1 \/ W[i - 1] = T[i - 1]
    BY <1>2, <2>1
  <2>3. i = q \/ W[i + 1] = T[i + 1]
    BY <1>2, <2>1
  <2>4. CASE i = q
    BY <1>2, <2>1, <2>2, <2>4
  <2>5. CASE i # q
    BY <1>2, <2>1, <2>2, <2>3, <2>5
  <2> QED
    BY <2>4, <2>5
<1>5. Unmatched(W) <=> LoneLF(T, q) \/ LoneCR(T, q)
  BY <1>3, <1>4 DEF Unmatched, LoneLF, LoneCR
<1> QED
  BY <1>5 DEF W

\* What the invariant says of the block is what was to be shown.
LEMMA DotTruth ==
    ASSUME NEW Bytes, DotInv(Bytes)
    PROVE  DotTrue
<1> DEFINE T == Rest(input, begin)  q == Len(given) - begin  m == q - Waiting(ds)
<1>1. /\ Flow(Bytes) /\ begin \in 0 .. Len(given) /\ BlockOK(Bytes, T, q, ds, decoded, badnl)
      /\ ended = "EOF" => ds = "EOF"
      /\ ended = "ErrUnexpectedEOF" => ds # "EOF" /\ buf = <<>> /\ src = <<>>
  BY DEF DotInv
<1>2. /\ T \in Seq(Bytes) /\ q \in Nat /\ q <= Len(T) /\ Rest(T, q) = buf \o src
      /\ Len(T) - q = Len(buf) + Len(src)
  <2>1. Flow(Bytes) /\ begin \in 0 .. Len(given)
    BY <1>1
  <2>2. T \in Seq(Bytes) /\ q \in Nat /\ q <= Len(T)
    BY <2>1, WhereIs
  <2>3. Len(T) - q = Len(buf) + Len(src)
    BY <2>1, WhereIs
  <2>4. Rest(T, q) = buf \o src
    BY <2>1, WhereIs
  <2> QED
    BY <2>2, <2>3, <2>4
<1> HIDE DEF T, q
<1>3. ASSUME ds # "EOF"
      PROVE  m \in Nat /\ m <= q /\ DecodedTo(T, decoded, m) /\ NoEnd(T, q)
  <2>1. DecodedTo(T, decoded, m) /\ NoEnd(T, q) /\ StateAt(T, q, ds)
    BY <1>1, <1>3 DEF BlockOK
  <2>2. Waiting(ds) = 0 \/ (Waiting(ds) = 1 /\ q > 0)
    BY <1>2, <2>1 DEF Waiting, StateAt
  <2> QED
    BY <1>2, <2>1, <2>2
<1>4. ASSUME ds = "EOF"
      PROVE  EndedAt(T, q, decoded) /\ (badnl <=> LoneLF(T, q) \/ LoneCR(T, q))
  <2>1. Waiting(ds) = 0 /\ q - 0 = q
    BY <1>2, <1>4 DEF Waiting
  <2> QED
    BY <1>1, <1>4, <2>1 DEF BlockOK
<1>5. CASE Ends(T) = {}
  <2>1. ds # "EOF"
    BY <1>4, <1>5 DEF EndedAt
  <2>2. m \in Nat /\ m <= Len(T) /\ DecodedTo(T, decoded, m)
    BY <1>2, <1>3, <2>1
  <2>3. DecodesFrom(T, decoded)
    <3> HIDE DEF m
    <3> QED
      BY <1>2, <2>2, PrefixDecodes
  <2>4. ended # "EOF"
    BY <1>1, <2>1
  <2> QED
    BY <1>5, <2>3, <2>4 DEF DotTrue, T
<1>6. CASE Ends(T) # {}
  <2> DEFINE e == Min(Ends(T))  block == First(T, e - 1)
             whole == First(T, e + EndLength(T, e) - 1)
  <2>1. Ends(T) \subseteq Nat /\ \A i \in Ends(T) : i \in Nat
    BY <1>2, EndIs
  <2>2. e \in Ends(T) /\ \A i \in Ends(T) : e <= i
    <3>1. \E x \in Ends(T) : \A y \in Ends(T) : x <= y
      BY <1>6, <2>1, HasLeast
    <3> QED
      BY <3>1 DEF Min
  <2> HIDE DEF e, m
  <2>3. ended # "ErrUnexpectedEOF"
    <3> SUFFICES ASSUME ended = "ErrUnexpectedEOF" PROVE FALSE
      OBVIOUS
    <3>1. NoEnd(T, q) /\ Len(buf) = 0 /\ Len(src) = 0
      BY <1>1, <1>3
    <3>2. StopsAt(T, e) > q /\ StopsAt(T, e) <= Len(T) /\ q = Len(T)
      <4>1. Len(T) - q = 0 /\ Len(T) \in Nat
        BY <1>2, <3>1
      <4>2. q = Len(T)
        BY <1>2, <4>1
      <4> QED
        BY <1>2, <2>2, <3>1, <4>2, EndIs DEF NoEnd
    <3>3. StopsAt(T, e) \in Nat
      <4>1. e \in Nat /\ (StopsAt(T, e) = e + 1 \/ StopsAt(T, e) = e + 2)
        BY <1>2, <2>1, <2>2, EndIs
      <4> QED
        BY <4>1
    <3> QED
      BY <1>2, <3>2, <3>3
  <2>4. ASSUME ds = "EOF"
        PROVE  q = StopsAt(T, e) /\ DecodedTo(T, decoded, e - 1)
    <3>1. PICK f \in Ends(T) : /\ q = StopsAt(T, f) /\ (\A i \in Ends(T) : f <= i)
                               /\ DecodedTo(T, decoded, f - 1)
      BY <1>4, <2>4 DEF EndedAt
    <3>2. f = e
      <4>1. f <= e /\ e <= f /\ f \in Nat /\ e \in Nat
        BY <2>1, <2>2, <3>1
      <4> QED
        BY <4>1
    <3> QED
      BY <3>1, <3>2
  <2>5. e - 1 \in Nat /\ e \in 1 .. Len(T)
    BY <1>2, <2>2, EndIs
  <2>6. DecodesFrom(block, decoded)
    <3>1. \E k \in Nat : k <= e - 1 /\ DecodedTo(T, decoded, k)
      <4>1. CASE ds = "EOF"
        BY <2>4, <2>5, <4>1
      <4>2. CASE ds # "EOF"
        <5>1. m \in Nat /\ m <= q /\ DecodedTo(T, decoded, m) /\ q < StopsAt(T, e)
          BY <1>3, <2>2, <4>2 DEF NoEnd
        <5>2. m < StopsAt(T, e)
          <6>1. StopsAt(T, e) \in Int
            <7>1. e \in Nat /\ (StopsAt(T, e) = e + 1 \/ StopsAt(T, e) = e + 2)
              BY <1>2, <2>1, <2>2, EndIs
            <7> QED
              BY <7>1
          <6> QED
            BY <1>2, <5>1, <6>1
        <5> QED
          BY <1>2, <2>2, <5>1, <5>2, BeforeEnd
      <4> QED
        BY <4>1, <4>2
    <3> QED
      BY <1>2, <2>2, <3>1, BlockDecodes
  <2>7. ASSUME ended = "EOF"
        PROVE  /\ Decodes(block, decoded)
               /\ buf \o src = Rest(T, Len(whole))
               /\ badnl <=> Unmatched(whole)
    <3>1. ds = "EOF" /\ q = StopsAt(T, e) /\ DecodedTo(T, decoded, e - 1)
      BY <1>1, <2>4, <2>7
    <3>2. Decodes(block, decoded)
      <4> DEFINE k == e - 1
      <4>1. k \in Nat /\ k <= e - 1 /\ DecodedTo(T, decoded, k)
        BY <2>5, <3>1
      <4>2. k = e - 1
        OBVIOUS
      <4> HIDE DEF k
      <4> QED
        BY <1>2, <2>2, <4>1, <4>2, BlockDecodes
    <3>3. whole = First(T, q)
      BY <3>1 DEF StopsAt
    <3>4. Len(First(T, q)) = q
      <4>1. q \in 0 .. Len(T)
        BY <1>2
      <4> QED
        BY <1>2, <4>1, FirstRest
    <3>5. q \in 1 .. Len(T) /\ T[q] = "LF"
      <4>1. /\ e \in Nat /\ StopsAt(T, e) <= Len(T)
            /\ \/ StopsAt(T, e) = e + 1 /\ T[e + 1] = "LF"
               \/ StopsAt(T, e) = e + 2 /\ T[e + 1] = "CR" /\ T[e + 2] = "LF"
        BY <1>2, <2>1, <2>2, EndIs
      <4> QED
        BY <1>2, <3>1, <4>1
    <3>6. badnl <=> Unmatched(First(T, q))
      BY <1>2, <1>4, <3>1, <3>5, UnmatchedIs
    <3> QED
      BY <1>2, <3>2, <3>3, <3>4, <3>6
  <2> QED
    BY <1>6, <2>3, <2>6, <2>7 DEF DotTrue, T, e
<1> QED
  BY <1>5, <1>6

\* However the bytes arrive, whatever the calls want and however many blocks
\* follow one another: a block decodes to what its lines say, its end is found
\* where it is and nowhere else, the bytes after it are left for the next reader
\* of the connection, and InvalidNL is right (dotreader.go).
THEOREM BlocksDecoded ==
    ASSUME NEW Bytes, NEW inputs \in SUBSET Seq(Bytes), NEW sizes \in SUBSET (Nat \ {0}),
           NEW wants
    PROVE  BufInit(inputs, sizes) /\ DotInit /\ [][DotNext(wants)]_<<bufVars, dotVars>>
              => []DotTrue
<1>1. ASSUME BufInit(inputs, sizes), DotInit
      PROVE  DotInv(Bytes)
  <2>1. Flow(Bytes) /\ given = <<>>
    <3>1. /\ size \in Nat \ {0} /\ input \in Seq(Bytes) /\ src = input /\ buf = <<>> /\ lead = 0
          /\ queued = "nil" /\ given = <<>>
      BY <1>1 DEF BufInit
    <3>2. <<>> \in Seq(Bytes) /\ Len(<<>>) = 0
      BY NothingRead
    <3>3. (given \o buf) \o src = input
      <4>1. <<>> \o <<>> = <<>> /\ <<>> \o input = input
        BY <3>1, <3>2, Joining
      <4> QED
        BY <3>1, <4>1
    <3> QED
      BY <3>1, <3>2, <3>3 DEF Flow
  <2>2. /\ ds = "BeginLine" /\ badnl = FALSE /\ dcall = -2 /\ begin = 0 /\ decoded = <<>>
        /\ ended = "nil"
    BY <1>1 DEF DotInit
  <2>3. Len(given) = 0 /\ Len(given) - begin = 0 /\ begin \in 0 .. Len(given)
    <3>1. Len(given) = 0
      BY <2>1, NothingRead
    <3> QED
      BY <2>2, <3>1
  <2>4. Rest(input, begin) \in Seq(Bytes)
    BY <2>1, <2>3, WhereIs
  <2>5. BlockOK(Bytes, Rest(input, begin), Len(given) - begin, ds, decoded, badnl)
    BY <2>2, <2>3, <2>4, NewBlock
  <2> QED
    BY <2>1, <2>2, <2>3, <2>5 DEF DotInv
<1>2. ASSUME DotInv(Bytes), [DotNext(wants)]_<<bufVars, dotVars>>
      PROVE  DotInv(Bytes)'
  <2>1. CASE UNCHANGED <<bufVars, dotVars>>
    BY <1>2, <2>1 DEF DotInv, Flow, bufVars, readerVars, dotVars
  <2>2. CASE DotCall(wants) \/ DotReturn
    BY <1>2, <2>2, DotCallInv
  <2>3. CASE DotByte
    BY <1>2, <2>3, DotByteInv
  <2>4. CASE DotRefill
    BY <1>2, <2>4, DotRefillInv
  <2>5. CASE DotReset
    BY <1>2, <2>5, DotResetInv
  <2> QED
    BY <1>2, <2>1, <2>2, <2>3, <2>4, <2>5 DEF DotNext
<1>3. DotInv(Bytes) => DotTrue
  BY DotTruth
<1> QED
  BY <1>1, <1>2, <1>3, PTL
=============================================================================
