----------------------------- MODULE CacheCopy -----------------------------
(***************************************************************************)
(* The data of one ObtainItem of the file cache: the goroutine writes the  *)
(* article through a CachePub (cachepub.go) into a temporary file, closes  *)
(* that file under the hands of its readers and reopens the stable one;    *)
(* the reader follows it, is interrupted by the close, and resumes from    *)
(* the stable file at the offset its copier reported (cacheengine.go       *)
(* 349-401).  The copiers are the NNTP ones (nntpcopyer.go).               *)
(*                                                                         *)
(* A byte of the article is a position; out is the sequence of positions   *)
(* the client was sent.  Readers share nothing that they write, so one     *)
(* reader is enough.  That the file a reader resumes from holds what the   *)
(* goroutine wrote is a property of CacheEngine (ResumesSameContent).      *)
(***************************************************************************)
EXTENDS Naturals, Sequences

CONSTANTS Articles,  \* the articles considered, as sequences of "text" and "nl"
          Kinds,     \* the copiers considered: "full", "head", "body"
          BufLen     \* the size of a copier's buffer (32*1024 in the code)

\* A position where a line ends that has nothing in it.
EmptyLine(a, i) == a[i] = "nl" /\ (i = 1 \/ a[i-1] = "nl")

\* Every article has an empty line between its head and its body.
CopyAssumption ==
    /\ \A a \in Articles :
          /\ a \in Seq({"text", "nl"})
          /\ \E i \in 1 .. Len(a) : EmptyLine(a, i)
    /\ Kinds \subseteq {"full", "head", "body"}
    /\ BufLen \in Nat \ {0}

ASSUME CopyAssumption

VARIABLES
    art,      \* the article
    kind,     \* the copier
    size,     \* how much of it is in the temporary file
    pn,       \* CachePub.n: "how much bytes we wrote"
    perr,     \* CachePub.err
    handle,   \* the temporary file's handle: "open" or "closed"
    wpc,      \* where the goroutine is
    of, oe,   \* CacheObj.f and CacheObj.e are set
    src,      \* what the copier reads: the CachePub or the stable file
    rn,       \* the n of that reader: how much it has read
    wn, we,   \* what Reader.Read saw of pn and perr
    nr, er,   \* what the last Read returned
    rpc,      \* where the ObtainItem is
    dw,       \* whether the copier has started its answer (dw # nil)
    st,       \* the copier's scanner: "nl", "text" or "end" (of the head)
    written,  \* what CopyFrom is going to return
    out,      \* the positions the client was sent
    outcome   \* how the command ends

article == <<art, kind>>
writer  == <<size, pn, perr, handle, wpc, of, oe>>
copier  == <<dw, st, written, out, outcome>>
reading == <<src, rn, wn, we, nr, er>>
vars    == <<article, writer, reading, rpc, copier>>

LeastOf(S)  == CHOOSE x \in S : \A y \in S : x <= y
Lesser(a, b) == IF a < b THEN a ELSE b

\* The positions from .. to, in order.
Piece(from, to) == [i \in 1 .. (IF to < from THEN 0 ELSE to + 1 - from) |-> from + i - 1]

\* Where the head of the article ends.
Blank == LeastOf({i \in 1 .. Len(art) : EmptyLine(art, i)})

-----------------------------------------------------------------------------
(***************************************************************************)
(* The generating goroutine.                                               *)
(***************************************************************************)

\* CachePub.Write: the write to the file, whole or short ...
WriteFile ==
    /\ wpc = "write" /\ size < Len(art)
    /\ \/ /\ \E k \in 1 .. Len(art) - size : size' = size + k
          /\ wpc' = "count"
       \/ /\ \E k \in 0 .. Len(art) - size - 1 : size' = size + k
          /\ wpc' = "countShort"
    /\ UNCHANGED <<article, pn, perr, handle, of, oe, reading, rpc, copier>>

\* ... and the new count, and the error, for the readers.
CountWritten ==
    /\ wpc \in {"count", "countShort"}
    /\ pn' = size
    /\ perr' = IF wpc = "countShort" THEN "failed" ELSE perr
    /\ wpc' = IF wpc = "countShort" THEN "cancel" ELSE "write"
    /\ UNCHANGED <<article, size, handle, of, oe, reading, rpc, copier>>

FinishPub ==
    /\ wpc = "write" /\ size = Len(art)
    /\ perr' = "eof"
    /\ wpc' = "close"
    /\ UNCHANGED <<article, size, pn, handle, of, oe, reading, rpc, copier>>

\* Generate fails, by itself or because Write did.
CancelPub ==
    /\ wpc \in {"write", "cancel"}
    /\ perr' = "failed"
    /\ wpc' = "close"
    /\ UNCHANGED <<article, size, pn, handle, of, oe, reading, rpc, copier>>

CloseFile ==
    /\ wpc = "close"
    /\ handle' = "closed"
    /\ wpc' = "settle"
    /\ UNCHANGED <<article, size, pn, perr, of, oe, reading, rpc, copier>>

\* The stable file is open for reading, or something on the way to it failed.
Settle ==
    /\ wpc = "settle"
    /\ \/ perr = "eof" /\ of' = TRUE /\ UNCHANGED oe
       \/ oe' = TRUE /\ UNCHANGED of
    /\ wpc' = "done"
    /\ UNCHANGED <<article, size, pn, perr, handle, reading, rpc, copier>>

-----------------------------------------------------------------------------
(***************************************************************************)
(* Reader.Read of the CachePub, and sharedReader.Read.                     *)
(***************************************************************************)

\* Wait until there is something to read or to say, and take note of it.
Look ==
    /\ rpc = "read" /\ src = "pub"
    /\ rn < pn \/ perr # "nil"
    /\ wn' = pn
    /\ we' = perr
    /\ rpc' = "readAt"
    /\ UNCHANGED <<article, writer, src, rn, nr, er, copier>>

\* (Wrong variant: at the end of the data the error is not handed on.)
ReadPubEndless ==
    /\ rpc = "readAt"
    /\ \/ /\ rn < wn /\ handle = "open"
          /\ nr' = Lesser(BufLen, wn - rn)
          /\ er' = "nil"
       \/ /\ rn < wn /\ handle = "closed"
          /\ nr' \in 0 .. Lesser(BufLen, wn - rn) - 1
          /\ er' = "closed"
       \/ /\ rn >= wn
          /\ nr' = 0
          /\ er' = "nil"
    /\ rn' = rn + nr'
    /\ rpc' = "deliver"
    /\ UNCHANGED <<article, writer, src, wn, we, copier>>

\* ReadAt the temporary file, which may have been closed on the way.
ReadPub ==
    /\ rpc = "readAt"
    /\ \/ /\ rn < wn /\ handle = "open"
          /\ nr' = Lesser(BufLen, wn - rn)
          /\ er' = IF rn + nr' >= wn THEN we ELSE "nil"
       \/ /\ rn < wn /\ handle = "closed"
          /\ nr' \in 0 .. Lesser(BufLen, wn - rn) - 1
          /\ er' = "closed"
       \/ /\ rn >= wn
          /\ nr' = 0
          /\ er' = we
    /\ rn' = rn + nr'
    /\ rpc' = "deliver"
    /\ UNCHANGED <<article, writer, src, wn, we, copier>>

\* ReadAt the stable file: fewer bytes than asked for come with io.EOF.
ReadShared ==
    /\ rpc = "read" /\ src = "file"
    /\ nr' = Lesser(BufLen, Len(art) - rn)
    /\ er' = IF nr' < BufLen THEN "eof" ELSE "nil"
    /\ rn' = rn + nr'
    /\ rpc' = "deliver"
    /\ UNCHANGED <<article, writer, src, wn, we, copier>>

-----------------------------------------------------------------------------
(***************************************************************************)
(* The copiers.                                                            *)
(***************************************************************************)

First == rn - nr + 1     \* the first position of the chunk, rn is the last

\* Where in the chunk the scanner meets the end of the head.
Ends ==
    {i \in First .. rn :
        art[i] = "nl" /\ (IF i = First THEN st = "nl" ELSE art[i-1] = "nl")}

\* The scanner after the chunk.
ScannedTo ==
    IF kind = "full" \/ st = "end" THEN st
    ELSE IF Ends # {} THEN "end"
    ELSE IF nr = 0 THEN st ELSE art[rn]

\* What of the chunk goes to the client.
Chosen ==
    IF kind = "full" \/ (kind = "body" /\ st = "end") THEN Piece(First, rn)
    ELSE IF kind = "body"
         THEN IF Ends = {} THEN <<>> ELSE Piece(LeastOf(Ends) + 1, rn)
         ELSE Piece(First, IF Ends = {} THEN rn ELSE LeastOf(Ends) - 1)

\* How the copier takes the error that came with the chunk.
CopyEnd ==
    IF kind = "head" /\ ScannedTo = "end" THEN "eof"
    ELSE IF er = "eof" /\ kind # "full" /\ ScannedTo # "end" THEN "failed"
    ELSE er

\* ObtainItem after CopyFrom has returned err.
Return(err) ==
    /\ rpc' = IF err = "nil" THEN "read"
              ELSE IF err = "closed" THEN "interrupted" ELSE "done"
    /\ outcome' = IF err \in {"nil", "closed"} THEN outcome
                  ELSE IF err = "eof" THEN "ok" ELSE "failed"

\* An error before anything was read: no answer is started, and EOF is an
\* error too.
GiveUp ==
    /\ rpc = "deliver"
    /\ ~dw /\ nr = 0 /\ er # "nil"
    /\ Return(IF er = "eof" THEN "failed" ELSE er)
    /\ UNCHANGED <<article, writer, reading, dw, st, written, out>>

\* The chosen part of the chunk is written to the client.
Forward ==
    /\ rpc = "deliver"
    /\ dw \/ nr > 0 \/ er = "nil"
    /\ dw' = TRUE
    /\ st' = ScannedTo
    /\ out' = out \o Chosen
    /\ written' = written + Len(Chosen)
    /\ Return(CopyEnd)
    /\ UNCHANGED <<article, writer, reading>>

\* The client is gone; some of the chunk may have reached it.
ClientFails ==
    /\ rpc = "deliver"
    /\ dw \/ nr > 0 \/ er = "nil"
    /\ dw' = TRUE
    /\ st' = ScannedTo
    /\ \E k \in 0 .. Len(Chosen) :
          /\ out' = out \o SubSeq(Chosen, 1, k)
          /\ written' = written + k
    /\ Return("failed")
    /\ UNCHANGED <<article, writer, reading>>

\* "file already closed": was it written properly? (lines 370-379)
Interrupted ==
    /\ rpc = "interrupted"
    /\ \/ perr = "eof" /\ rpc' = "await" /\ UNCHANGED outcome
       \/ perr # "eof" /\ rpc' = "done" /\ outcome' = "failed"
    /\ UNCHANGED <<article, writer, reading, dw, st, written, out>>

\* (Wrong variant: starts the stable file from its beginning.)
ResumeAnew ==
    /\ rpc = "await"
    /\ of
    /\ src' = "file"
    /\ rn' = 0
    /\ nr' = 0
    /\ rpc' = "read"
    /\ UNCHANGED <<article, writer, wn, we, er, copier>>

\* Lines 381-395: sharedReader{f: fx, n: done}.
Resume ==
    /\ rpc = "await"
    /\ of
    /\ src' = "file"
    /\ rn' = written
    /\ nr' = 0
    /\ rpc' = "read"
    /\ UNCHANGED <<article, writer, wn, we, er, copier>>

ReopenFailed ==
    /\ rpc = "await"
    /\ oe
    /\ rpc' = "done"
    /\ outcome' = "failed"
    /\ UNCHANGED <<article, writer, reading, dw, st, written, out>>

-----------------------------------------------------------------------------

\* Nothing has been written, read or sent.
Untouched ==
    /\ size = 0 /\ pn = 0 /\ perr = "nil" /\ handle = "open"
    /\ of = FALSE /\ oe = FALSE
    /\ src = "pub" /\ rn = 0 /\ wn = 0 /\ we = "nil" /\ nr = 0 /\ er = "nil"
    /\ dw = FALSE /\ st = "nl" /\ written = 0 /\ out = <<>>
    /\ outcome = "running"

Init == art \in Articles /\ kind \in Kinds /\ wpc = "write" /\ rpc = "read" /\ Untouched

Write ==
    \/ WriteFile \/ CountWritten \/ FinishPub \/ CancelPub
    \/ CloseFile \/ Settle

Read ==
    \/ Look \/ ReadPub \/ ReadShared
    \/ GiveUp \/ Forward \/ ClientFails
    \/ Interrupted \/ Resume \/ ReopenFailed

Done == wpc = "done" /\ rpc = "done" /\ UNCHANGED vars

Next == Write \/ Read \/ Done

Spec == Init /\ [][Next]_vars

\* The goroutine and the ObtainItem run; the client reads or goes away.
FairSpec == Spec /\ WF_vars(Write) /\ WF_vars(Read)

-----------------------------------------------------------------------------
(***************************************************************************)
(* Properties.                                                             *)
(***************************************************************************)

\* Every variable keeps its type; nobody reads past what is in the file.
TypeOK ==
    /\ art \in Articles /\ kind \in Kinds
    /\ size \in 0 .. Len(art) /\ pn \in 0 .. size
    /\ perr \in {"nil", "eof", "failed"}
    /\ handle \in {"open", "closed"}
    /\ wpc \in {"write", "count", "countShort", "cancel", "close", "settle", "done"}
    /\ of \in BOOLEAN /\ oe \in BOOLEAN
    /\ src \in {"pub", "file"}
    /\ rn \in 0 .. Len(art) /\ nr \in 0 .. rn
    /\ wn \in 0 .. pn /\ we \in {"nil", "eof", "failed"}
    /\ er \in {"nil", "eof", "failed", "closed"}
    /\ rpc \in {"read", "readAt", "deliver", "interrupted", "await", "done"}
    /\ dw \in BOOLEAN
    /\ st \in {"nl", "text", "end"}
    /\ written \in Nat
    /\ out \in Seq(1 .. Len(art))
    /\ outcome \in {"running", "ok", "failed"}

\* What the client asked for.
Wanted ==
    IF kind = "full" THEN Piece(1, Len(art))
    ELSE IF kind = "head" THEN Piece(1, Blank - 1)
    ELSE Piece(Blank + 1, Len(art))

\* The client gets the very bytes it asked for, in order and without a gap or
\* a repetition, across the close of the temporary file, and is told that they
\* are complete only if they are (lines 22-27 of cacheengine.go).
Promise == INSTANCE Delivery WITH wanted <- Wanted, sent <- out
Delivers == Promise!Spec
=============================================================================
