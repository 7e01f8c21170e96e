------------------------------- MODULE Intake -------------------------------
(***************************************************************************)
(* How an article is taken in.  One that another server sends is first     *)
(* copied to a file (pipostnntp/nntppost.go); the body is eaten            *)
(* (mailib/articleprocessing.go): the first text goes into the post,       *)
(* whatever else there is into temporary files, which thumbnails are made  *)
(* of; a body that is itself a message is read by two goroutines, one that *)
(* takes it apart and one, behind a pipe, that keeps it as it is.  Then    *)
(* netnewsSubmitArticle inserts the post, moves its files to the store and *)
(* commits (pipostnntp/nntpprocessing.go).                                 *)
(*                                                                         *)
(* What a file holds stands for the name it gets in the store, which is    *)
(* made of its hash.                                                       *)
(***************************************************************************)
EXTENDS Integers, FiniteSets, SequencesExt

CONSTANTS Bodies,      \* the articles there are
          Names,       \* names of temporary files, numbers
          MaxFaults    \* how many calls of the operating system or database fail

\* What a part can turn out to be.
PartKinds == {"text", "coded", "long", "file", "movie", "bad"}

ASSUME IntakeAssumption ==
    /\ Names \subseteq Nat \ {0}
    /\ Bodies \subseteq [parts : Seq(PartKinds), multi : BOOLEAN, tail : BOOLEAN, cut : BOOLEAN,
                        inner : BOOLEAN, face : BOOLEAN, sent : BOOLEAN]

VARIABLES
    body,      \* the article
    files,     \* the temporary files, by their names: what they hold
    stuck,     \* files that nobody knows any more
    got,       \* the file of an article that was sent by a server
    iat,       \* where the goroutine is that takes the article in
    part,      \* the part that is eaten
    text,      \* the part whose text became the message, 0: none yet
    textAt,    \* pi.E.TextAttachment
    fi,        \* pi.FI: what each file is said to hold
    tmpfns,    \* ctx.tmpfilenames
    thumbs,    \* ctx.thumbinfos
    layout,    \* pi.L: for each part the number of its file, 0: the message
    job,       \* the file that takeInFile makes
    pipe,      \* the pipe: "empty", "full", closed: "eof", "err"
    wat,       \* where the worker behind the pipe is
    wfn, wgot, werr,   \* its file, how much it has read, whether it failed
    moved,     \* how many files were moved
    store,     \* the store of files
    row,       \* the post is committed
    faults

eatVars == <<part, text, textAt, fi, tmpfns, thumbs, layout, job>>
workVars == <<pipe, wat, wfn, wgot, werr>>
postVars == <<moved, store, row>>
intakeVars == <<body, files, stuck, got, iat, eatVars, workVars, postVars, faults>>

NoName == 0
Unwritten == <<"nothing", 0>>

\* A body that is read through the pipe comes in so many pieces: its head, its
\* parts, what follows its last boundary.
Pieces == 1 + Len(body.parts) + (IF body.tail THEN 1 ELSE 0)

\* NewFile: a name that no file has.
Fresh == Min(Names \ DOMAIN files)
With(n, holds) == [x \in DOMAIN files \cup {n} |-> IF x = n THEN holds ELSE files[x]]
Without(S) == [x \in DOMAIN files \ S |-> files[x]]
Named(s) == {s[i] : i \in DOMAIN s}

Fault == faults < MaxFaults /\ faults' = faults + 1

NoJob == [at |-> "none", name |-> NoName, nothumb |-> FALSE, of |-> "", thumb |-> NoName]

GoOn(l) == iat' = l

\* The writer of the pipe waits until the worker has read.
Unblocked == pipe # "full"
Hand == pipe' = IF body.inner THEN "full" ELSE pipe

\* devourMessageBody fails: a worker has to be stopped first.
EatFails == GoOn(IF body.inner THEN "cancel" ELSE "cleanup")
-----------------------------------------------------------------------------
(* An article that is sent goes to a file of its own, and is read again. *)

\* netnewsCopyArticleToFile, NewFile
CopyOpen ==
    /\ iat = "sent"
    /\ \/ /\ files' = With(Fresh, <<"article", 0>>) /\ got' = Fresh
          /\ GoOn("copy") /\ UNCHANGED faults
       \/ Fault /\ GoOn("refused") /\ UNCHANGED <<files, got>>
    /\ UNCHANGED <<body, stuck, eatVars, workVars, postVars>>

\* The article is written; too long, or the write fails: the file is removed.
CopyArticle ==
    /\ iat = "copy"
    /\ \/ GoOn("rename") /\ UNCHANGED <<files, got>>
       \/ files' = Without({got}) /\ got' = NoName /\ GoOn("refused")
    /\ UNCHANGED <<body, stuck, eatVars, workVars, postVars, faults>>

\* handleIncoming: the file is closed and moved among the articles that have
\* come in.  If that fails, it stays where it is.
MoveIn ==
    /\ iat = "rename"
    /\ \/ GoOn("eat") /\ UNCHANGED <<faults, stuck, got>>
       \/ Fault /\ stuck' = stuck \cup {got} /\ got' = NoName /\ GoOn("refused")
    /\ UNCHANGED <<body, files, eatVars, workVars, postVars>>
-----------------------------------------------------------------------------
(* The body is eaten. *)

\* The transfer encoding is looked at; the worker is started.
EatBody ==
    /\ iat = "eat"
    /\ \/ IF body.inner
          THEN GoOn("head") /\ wat' = "open"
          ELSE GoOn("parts") /\ UNCHANGED wat
       \/ body.inner /\ GoOn("cleanup") /\ UNCHANGED wat
    /\ UNCHANGED <<body, files, stuck, got, eatVars, pipe, wfn, wgot, werr, postVars, faults>>

\* The head of the message inside.
InnerHead ==
    /\ iat = "head" /\ Unblocked
    /\ Hand /\ (GoOn("parts") \/ EatFails)
    /\ UNCHANGED <<body, files, stuck, got, eatVars, wat, wfn, wgot, werr, postVars, faults>>

\* The part can be the message of the post.
IsText(kind) == kind \in {"text", "coded", "long"}
Textual == IsText(body.parts[part]) /\ text = 0

\* guttleBody without a file: text that fits and needs no conversion.
EatText ==
    /\ iat = "parts" /\ Unblocked /\ part <= Len(body.parts)
    /\ Textual /\ body.parts[part] = "text"
    /\ Hand
    /\ text' = part /\ layout' = Append(layout, 0) /\ part' = part + 1
    /\ UNCHANGED <<body, files, stuck, got, iat, textAt, fi, tmpfns, thumbs, job,
                   wat, wfn, wgot, werr, postVars, faults>>

\* guttleBody with a file: text that was converted is kept as it was without a
\* thumbnail, text that is too long is told by the number its file will have.
EatFile ==
    /\ iat = "parts" /\ Unblocked /\ part <= Len(body.parts)
    /\ body.parts[part] # "bad" /\ ~(Textual /\ body.parts[part] = "text")
    /\ Hand /\ GoOn("take")
    /\ job' = [NoJob EXCEPT !.at = "open", !.of = "part",
                            !.nothumb = Textual /\ body.parts[part] = "coded"]
    /\ text' = IF Textual THEN part ELSE text
    /\ textAt' = IF Textual /\ body.parts[part] = "long" THEN Len(fi) + 1 ELSE textAt
    /\ UNCHANGED <<body, files, stuck, got, part, fi, tmpfns, thumbs, layout,
                   wat, wfn, wgot, werr, postVars, faults>>

\* A part in an unknown encoding, a part or its head that cannot be read, a
\* last boundary that is missing.
EatNot ==
    /\ iat = "parts" /\ Unblocked
    /\ \/ part <= Len(body.parts) /\ body.parts[part] = "bad"
       \/ body.multi /\ body.cut /\ part > Len(body.parts)
    /\ EatFails
    /\ UNCHANGED <<body, files, stuck, got, eatVars, workVars, postVars, faults>>

\* extractMessageFace, after the parts.
EatFace ==
    /\ iat = "parts" /\ Unblocked /\ part > Len(body.parts)
    /\ ~(body.multi /\ body.cut)
    /\ IF body.face
       THEN GoOn("take") /\ job' = [NoJob EXCEPT !.at = "open", !.of = "face", !.nothumb = TRUE]
       ELSE GoOn("rest") /\ UNCHANGED job
    /\ UNCHANGED <<body, files, stuck, got, part, text, textAt, fi, tmpfns, thumbs,
                   layout, workVars, postVars, faults>>

Holds == IF job.of = "face" THEN <<"face", 0>> ELSE <<"part", part>>

\* takeInFile fails: its file is removed, by the thumbnailer its own.  Only
\* ffmpeg's is left when ffmpeg ends in a way nobody expects.
Ffmpeg == job.of = "part" /\ body.parts[part] = "movie" /\ job.at = "draw"
TakeFails ==
    /\ Fault
    /\ files' = Without({job.name} \cup (IF Ffmpeg THEN {} ELSE {job.thumb}))
    /\ stuck' = stuck \cup (IF Ffmpeg THEN {job.thumb} ELSE {})
    /\ job' = NoJob /\ EatFails
    /\ UNCHANGED <<part, text, textAt, fi, tmpfns, thumbs, layout>>

\* The file goes on the lists; a thumbnail that was not made is removed.
TakeDone(made) ==
    /\ files' = IF made THEN files ELSE Without({job.thumb})
    /\ tmpfns' = Append(tmpfns, job.name) /\ fi' = Append(fi, Holds)
    /\ thumbs' = IF made THEN Append(thumbs, job.thumb) ELSE thumbs
    /\ layout' = IF job.of = "part" THEN Append(layout, Len(fi) + 1) ELSE layout
    /\ part' = IF job.of = "part" THEN part + 1 ELSE part
    /\ GoOn(IF job.of = "part" THEN "parts" ELSE "rest")
    /\ job' = NoJob /\ UNCHANGED <<stuck, text, textAt, faults>>

TakeStep(l, n) == job' = [job EXCEPT !.at = l, !.name = n]

TakeGoesOn == UNCHANGED <<stuck, iat, part, text, textAt, fi, tmpfns, thumbs, layout, faults>>

\* NewFile, for the file.
TakeOpen ==
    /\ job.at = "open"
    /\ files' = With(Fresh, Unwritten) /\ TakeStep("fill", Fresh) /\ TakeGoesOn

\* It is written and hashed; the message behind a pipe is also handed on.
TakeFill ==
    /\ job.at = "fill"
    /\ files' = With(job.name, Holds) /\ TakeGoesOn
    /\ TakeStep(IF job.of = "part" /\ body.parts[part] = "movie" THEN "probe" ELSE "picture",
                job.name)

\* ffprobe tells what is in a film or a song.
Probe ==
    /\ job.at = "probe"
    /\ \/ TakeDone(FALSE)
       \/ TakeStep("picture", job.name) /\ TakeGoesOn /\ UNCHANGED files

\* No thumbnail is wanted, or none can be made of this.
NoPicture == job.at = "picture" /\ TakeDone(FALSE)

\* NewFile, for the thumbnail.
ParkThumb ==
    /\ job.at = "picture" /\ ~job.nothumb
    /\ files' = With(Fresh, Unwritten)
    /\ job' = [job EXCEPT !.at = "draw", !.thumb = Fresh] /\ TakeGoesOn

\* The thumbnail is drawn, or the picture turns out to be no good.
DrawThumb ==
    /\ job.at = "draw"
    /\ \/ /\ files' = With(job.thumb, <<"thumb", part>>)
          /\ TakeStep("drawn", job.name) /\ TakeGoesOn
       \/ TakeDone(FALSE)

\* processMessageAttachment: the thumbnail goes on its list.
Drawn == job.at = "drawn" /\ TakeDone(TRUE)

takeInFile ==
    /\ iat = "take" /\ Unblocked
    /\ \/ TakeFails \/ TakeOpen \/ TakeFill \/ Probe \/ NoPicture
       \/ ParkThumb \/ DrawThumb \/ Drawn
    /\ UNCHANGED <<body, got, workVars, postVars>>

\* Wrong: the pipe is closed when the last part was read.
EatRestNot ==
    /\ iat = "rest" /\ Unblocked
    /\ IF body.inner THEN pipe' = "eof" /\ GoOn("wait") ELSE GoOn("eaten") /\ UNCHANGED pipe
    /\ UNCHANGED <<body, files, stuck, got, eatVars, wat, wfn, wgot, werr, postVars, faults>>

\* What is left of the message is read for the worker's sake; then the pipe is
\* closed.
EatRest ==
    /\ iat = "rest" /\ Unblocked
    /\ CASE ~body.inner -> GoOn("eaten") /\ UNCHANGED pipe
         [] body.inner /\ body.tail -> Hand /\ GoOn("close")
         [] OTHER -> pipe' = "eof" /\ GoOn("wait")
    /\ UNCHANGED <<body, files, stuck, got, eatVars, wat, wfn, wgot, werr, postVars, faults>>

ClosePipe ==
    /\ iat = "close" /\ Unblocked
    /\ pipe' = "eof" /\ GoOn("wait")
    /\ UNCHANGED <<body, files, stuck, got, eatVars, wat, wfn, wgot, werr, postVars, faults>>

\* The worker's file is the last one, and the post's only part.
Joined ==
    /\ iat = "wait" /\ wat = "done"
    /\ IF werr
       THEN GoOn("cleanup") /\ UNCHANGED <<tmpfns, fi, layout>>
       ELSE /\ tmpfns' = Append(tmpfns, wfn)
            /\ fi' = Append(fi, <<"whole", wgot>>)
            /\ layout' = <<Len(fi) + 1>>
            /\ GoOn("eaten")
    /\ UNCHANGED <<body, files, stuck, got, part, text, textAt, thumbs, job, workVars,
                   postVars, faults>>

\* cancelWorker: CloseWithError, Wait, Remove.
Cancel ==
    /\ iat = "cancel" /\ Unblocked
    /\ pipe' = "err" /\ GoOn("cancelled")
    /\ UNCHANGED <<body, files, stuck, got, eatVars, wat, wfn, wgot, werr, postVars, faults>>

Cancelled ==
    /\ iat = "cancelled" /\ wat = "done"
    /\ files' = Without({wfn}) /\ GoOn("cleanup")
    /\ UNCHANGED <<body, stuck, got, eatVars, workVars, postVars, faults>>

\* Wrong: the thumbnails are forgotten.
CleanupFilesOnly ==
    /\ iat = "cleanup"
    /\ files' = Without(Named(tmpfns) \cup {got})
    /\ tmpfns' = <<>> /\ thumbs' = <<>> /\ got' = NoName
    /\ GoOn("refused")
    /\ UNCHANGED <<body, stuck, part, text, textAt, fi, layout, job, workVars, postVars, faults>>

\* The deferred function of devourMessageBody; and of the callers.
Cleanup ==
    /\ iat = "cleanup"
    /\ files' = Without(Named(tmpfns) \cup Named(thumbs) \cup {got})
    /\ tmpfns' = <<>> /\ thumbs' = <<>> /\ got' = NoName
    /\ GoOn("refused")
    /\ UNCHANGED <<body, stuck, part, text, textAt, fi, layout, job, workVars, postVars, faults>>
-----------------------------------------------------------------------------
(* The worker behind the pipe: takeInFile without a thumbnail. *)

WorkerAt(l) == wat' = l /\ UNCHANGED <<body, stuck, got, iat, eatVars, postVars>>

\* Its file is removed, but it reads on so that nobody waits for it.
WorkerFails ==
    /\ WorkerAt("drain") /\ werr' = TRUE
    /\ files' = Without({wfn}) /\ UNCHANGED <<wfn, wgot, pipe>>

WorkerOpen ==
    /\ wat = "open"
    /\ \/ /\ files' = With(Fresh, Unwritten) /\ wfn' = Fresh /\ WorkerAt("copy")
          /\ UNCHANGED <<pipe, wgot, werr, faults>>
       \/ Fault /\ WorkerFails

WorkerCopy ==
    /\ wat = "copy"
    /\ \/ /\ pipe = "full" /\ pipe' = "empty" /\ wgot' = wgot + 1 /\ WorkerAt("copy")
          /\ UNCHANGED <<files, wfn, werr, faults>>
       \/ /\ pipe = "eof" /\ files' = With(wfn, <<"whole", wgot>>) /\ WorkerAt("close")
          /\ UNCHANGED <<pipe, wfn, wgot, werr, faults>>
       \/ pipe = "err" /\ WorkerFails /\ UNCHANGED faults
       \/ Fault /\ WorkerFails

\* The hash, the copy for the signature, Close.
WorkerClose ==
    /\ wat = "close"
    /\ \/ WorkerAt("done") /\ UNCHANGED <<files, pipe, wfn, wgot, werr, faults>>
       \/ Fault /\ WorkerFails

WorkerDrain ==
    /\ wat = "drain"
    /\ \/ pipe = "full" /\ pipe' = "empty" /\ WorkerAt("drain")
       \/ pipe \in {"eof", "err"} /\ WorkerAt("done") /\ UNCHANGED pipe
    /\ UNCHANGED <<files, wfn, wgot, werr, faults>>

Worker == WorkerOpen \/ WorkerCopy \/ WorkerClose \/ WorkerDrain
-----------------------------------------------------------------------------
(* netnewsSubmitArticle *)

PostGoesOn == UNCHANGED <<body, stuck, part, text, textAt, fi, layout, job, workVars, row>>

\* The statement, the transaction, the insertion; it may be a duplicate.
InsertPost ==
    /\ iat = "eaten"
    /\ GoOn("move") \/ GoOn("undo")
    /\ UNCHANGED <<files, got, tmpfns, thumbs, moved, store, faults>> /\ PostGoesOn

ToMove == tmpfns \o thumbs

\* RenameNoClobber: what the store has already is not replaced.
MoveFile ==
    /\ iat = "move" /\ moved < Len(ToMove)
    /\ LET from == ToMove[moved + 1]
       IN  \/ /\ files' = Without({from}) /\ store' = store \cup {files[from]}
              /\ moved' = moved + 1 /\ UNCHANGED <<iat, faults>>
           \/ Fault /\ GoOn("undo") /\ UNCHANGED <<files, store, moved>>
    /\ UNCHANGED <<got, tmpfns, thumbs>> /\ PostGoesOn

CommitPost ==
    /\ iat = "move" /\ moved = Len(ToMove)
    /\ \/ GoOn("accepted") /\ row' = TRUE /\ files' = Without({got}) /\ got' = NoName
          /\ UNCHANGED faults
       \/ Fault /\ GoOn("undo") /\ UNCHANGED <<row, files, got>>
    /\ UNCHANGED <<body, stuck, eatVars, workVars, moved, store>>

\* Rollback, pn_cleanup_on_err, and the article's own file.
UndoPost ==
    /\ iat = "undo" /\ GoOn("refused")
    /\ files' = Without(Named(ToMove) \cup {got}) /\ got' = NoName
    /\ UNCHANGED <<tmpfns, thumbs, moved, store, faults>> /\ PostGoesOn

IntakeOver == iat \in {"refused", "accepted"}
IntakeEnded == IntakeOver /\ wat \in {"off", "done"}
-----------------------------------------------------------------------------
Taking ==
    \/ CopyOpen \/ CopyArticle \/ MoveIn
    \/ EatBody \/ InnerHead \/ EatText \/ EatFile \/ EatNot \/ EatFace \/ takeInFile
    \/ EatRest \/ ClosePipe \/ Joined \/ Cancel \/ Cancelled \/ Cleanup
    \/ InsertPost \/ MoveFile \/ CommitPost \/ UndoPost

IntakeNext == Taking \/ Worker \/ (IntakeOver /\ UNCHANGED intakeVars)

\* Nothing has been eaten, and there is no file.
Untaken ==
    /\ files = [n \in {} |-> Unwritten] /\ stuck = {} /\ got = NoName
    /\ part = 1 /\ text = 0 /\ textAt = 0
    /\ fi = <<>> /\ tmpfns = <<>> /\ thumbs = <<>> /\ layout = <<>> /\ job = NoJob
    /\ pipe = "empty" /\ wat = "off" /\ wfn = NoName /\ wgot = 0 /\ werr = FALSE
    /\ moved = 0 /\ store = {} /\ row = FALSE /\ faults = 0

IntakeInit == body \in Bodies /\ iat = (IF body.sent THEN "sent" ELSE "eat") /\ Untaken

\* Both goroutines run until they have to wait for each other.
IntakeFairness == WF_intakeVars(Taking) /\ WF_intakeVars(Worker)

IntakeSpec == IntakeInit /\ [][IntakeNext]_intakeVars /\ IntakeFairness
-----------------------------------------------------------------------------
(* Properties. *)

\* When an article has been taken in or refused, wherever it failed and
\* whichever goroutine failed, no temporary file is left, no thumbnail and no
\* article; but for an article whose own file could not be closed or renamed,
\* and a thumbnail of a film that ffmpeg has given up.
NoTempLeft == IntakeOver => DOMAIN files \subseteq stuck

\* What was eaten is described by what is returned: file i is the one that
\* entry i tells of (pn_eatbody panics if there are more of one than of the
\* other), each part is where the layout says, text that was too long is where
\* TextAttachment says; a message inside was kept whole, though its parts may
\* end before it does; and a post that was committed has all its files.
Described ==
    /\ iat = "eaten" =>
           /\ Len(fi) = Len(tmpfns)
           /\ \A i \in DOMAIN fi : files[tmpfns[i]] = fi[i]
           /\ \A i \in DOMAIN thumbs : files[thumbs[i]][1] = "thumb"
           /\ textAt # 0 => fi[textAt] = <<"part", text>> /\ body.parts[text] = "long"
           /\ IF body.inner
              THEN fi[layout[1]] = <<"whole", Pieces>>
              ELSE /\ Len(layout) = Len(body.parts)
                   /\ \A p \in DOMAIN layout :
                          IF layout[p] = 0 THEN text = p ELSE fi[layout[p]] = <<"part", p>>
    /\ row => Range(fi) \subseteq store
=============================================================================
