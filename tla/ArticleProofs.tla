---------------------------- MODULE ArticleProofs ----------------------------
(***************************************************************************)
(* Proofs about an article that comes in (Intake) and one that goes out of *)
(* the cache (CacheCopy).                                                  *)
(*                                                                         *)
(* Coming in, every file that is there is accounted for, so that somebody  *)
(* is going to move or to remove it (HeldOK), and as long as nothing has   *)
(* failed the lists of files are what they say (ListsOK, WorkOK), the      *)
(* parts that were eaten are on them (PartOK, LayoutOK, TextOK), and the   *)
(* pipe to the second goroutine holds what it has not read (PipeOK).       *)
(*                                                                         *)
(* Going out, the goroutine tells its readers only of what is in the file  *)
(* (PublishedOK), and the client has the first positions of what it wants, *)
(* with the reader and the scanner where those end (SentOK).               *)
(***************************************************************************)
EXTENDS Intake, CacheCopy, Integers, FiniteSetTheorems, SequenceTheorems, WellFoundedInduction, TLAPS

\* What a file can be said to hold.
Told == {"part", "face", "whole"} \X Nat

\* The numbers that are kept of an article.
Numbers ==
    /\ got \in Nat /\ part \in Nat \ {0} /\ text \in Nat /\ textAt \in Nat
    /\ wfn \in Nat /\ wgot \in Nat /\ moved \in Nat

FilesType == IsFiniteSet(DOMAIN files) /\ DOMAIN files \subseteq Names

ListTypes == fi \in Seq(Told) /\ tmpfns \in Seq(Nat) /\ thumbs \in Seq(Nat) /\ layout \in Seq(Nat)

JobType ==
    job \in [at : {"none", "open", "fill", "probe", "picture", "draw", "drawn"},
            name : Nat, nothumb : BOOLEAN, of : {"", "part", "face"}, thumb : Nat]

PlaceTypes ==
    /\ pipe \in {"empty", "full", "eof", "err"}
    /\ wat \in {"off", "open", "copy", "close", "drain", "done"}
    /\ werr \in BOOLEAN /\ row \in BOOLEAN

IntakeTypeOK ==
    body \in Bodies /\ FilesType /\ Numbers /\ ListTypes /\ JobType /\ PlaceTypes

Early == {"sent", "copy", "rename", "eat"}
Open == {"head", "parts", "take", "rest", "close", "cancel"}
Ended == {"cleanup", "eaten", "move", "undo", "refused", "accepted"}

\* Where the goroutines are at the same time, and where the job is.
PhaseOK ==
    /\ iat \in Early \cup Open \cup {"wait", "cancelled"} \cup Ended
    /\ iat \in Early => wat = "off" /\ pipe = "empty"
    /\ iat \in Open => IF body.inner THEN wat \in {"open", "copy", "drain"} /\ pipe \in {"empty", "full"}
                                     ELSE wat = "off" /\ pipe = "empty"
    /\ iat = "wait" => wat # "off" /\ pipe = "eof"
    /\ iat = "cancelled" => wat \in {"open", "copy", "drain", "done"} /\ pipe = "err"
    /\ iat \in Ended => wat \in {"off", "done"}
    /\ iat \in {"head", "close", "wait", "cancel", "cancelled"} => body.inner
    /\ wat = "close" => pipe = "eof"
    /\ wat = "done" /\ ~werr => pipe = "eof"
    /\ wat \in {"off", "open", "copy", "close"} => ~werr
    /\ wat = "drain" => werr
    /\ iat # "take" => job = NoJob
    /\ iat = "take" => job.at # "none" /\ job.of \in {"part", "face"}
    /\ job.at \in {"none", "open"} => job.name = NoName
    /\ job.at \in {"none", "open", "fill", "probe", "picture"} => job.thumb = NoName
    /\ iat \in Early \cup Open \cup {"wait", "cancelled", "cleanup", "eaten"} => moved = 0
    /\ wat \in {"off", "open"} => wfn = NoName /\ wgot = 0
    /\ row => iat = "accepted"

\* The file of the worker, until it is on the list.
WorkName ==
    IF wat \in {"copy", "close"} \/ (wat = "done" /\ ~werr /\ iat = "wait") THEN {wfn} ELSE {}

\* The files that are to be moved.
ToGo == {ToMove[i] : i \in {k \in DOMAIN ToMove : k > moved}}

\* Whoever knows of a file is going to remove it or to move it.
Accounted == stuck \cup Named(tmpfns) \cup Named(thumbs) \cup {got, job.name, job.thumb} \cup WorkName

HeldOK ==
    /\ IntakeOver => DOMAIN files \subseteq stuck
    /\ iat = "move" => DOMAIN files \subseteq stuck \cup ToGo \cup {got}
    /\ ~IntakeOver => DOMAIN files \subseteq Accounted
    /\ iat \in Early => tmpfns = <<>> /\ thumbs = <<>>
    /\ iat = "sent" => got = NoName

\* Nothing has failed.
Good == Early \cup (Open \ {"cancel"}) \cup {"wait", "eaten", "move"}

\* The files on the lists are there, and are what they are said to be.
ListsOK ==
    /\ Len(fi) = Len(tmpfns)
    /\ \A i \in DOMAIN tmpfns :
          i > moved => tmpfns[i] \in DOMAIN files /\ files[tmpfns[i]] = fi[i]
    /\ \A i \in DOMAIN thumbs :
          Len(tmpfns) + i > moved => thumbs[i] \in DOMAIN files /\ files[thumbs[i]][1] = "thumb"
    /\ \A i, j \in DOMAIN tmpfns : tmpfns[i] = tmpfns[j] => i = j
    /\ \A i, j \in DOMAIN thumbs : thumbs[i] = thumbs[j] => i = j
    /\ \A i \in DOMAIN tmpfns, j \in DOMAIN thumbs : tmpfns[i] # thumbs[j]
    /\ \A i \in DOMAIN fi : i <= moved => fi[i] \in store

Listed == Named(tmpfns) \cup Named(thumbs)

\* So are those of the job and of the worker, which are not on the lists.
WorkOK ==
    /\ job.at \notin {"none", "open"} => job.name \in DOMAIN files \ Listed
    /\ job.at \notin {"none", "open", "fill"} => files[job.name] = Holds
    /\ job.at \in {"draw", "drawn"} =>
          job.thumb \in DOMAIN files \ Listed /\ job.thumb # job.name
    /\ job.at = "drawn" => files[job.thumb][1] = "thumb"
    /\ WorkName \subseteq DOMAIN files \ (Listed \cup {job.name, job.thumb})
    /\ wat = "close" \/ (wat = "done" /\ ~werr /\ iat = "wait") => files[wfn] = <<"whole", wgot>>

\* How much of a message inside has been handed to the worker.
Handed ==
    IF iat = "head" THEN 0
    ELSE IF iat = "close" \/ (iat = "take" /\ job.of = "part") THEN part + 1
    ELSE part

PipeOK ==
    /\ body.inner /\ ~werr /\ iat \in Open \ {"cancel"} =>
          Handed = IF pipe = "full" THEN wgot + 1 ELSE wgot
    /\ iat = "wait" /\ ~werr => wgot = Pieces

\* How far the parts are.
PartOK ==
    /\ part <= Len(body.parts) + 1
    /\ iat \in Early \cup {"head"} => part = 1
    /\ iat \in {"rest", "close", "wait", "eaten"} => part = Len(body.parts) + 1
    /\ iat = "take" =>
          IF job.of = "part" THEN part <= Len(body.parts) ELSE part = Len(body.parts) + 1
    /\ iat = "close" => body.tail
    /\ iat = "eaten" => wat = IF body.inner THEN "done" ELSE "off"

\* The layout and the place of a text that is too long.
LayoutOK ==
    IF iat = "eaten" /\ body.inner
    THEN Len(layout) = 1 /\ layout[1] \in DOMAIN fi /\ fi[layout[1]] = <<"whole", Pieces>>
    ELSE /\ Len(layout) = part - 1
         /\ \A p \in DOMAIN layout :
               IF layout[p] = 0 THEN text = p
               ELSE layout[p] \in DOMAIN fi /\ fi[layout[p]] = <<"part", p>>

TextOK ==
    /\ text < part \/ (iat = "take" /\ job.of = "part" /\ text = part)
    /\ textAt # 0 =>
          /\ text # 0 /\ body.parts[text] = "long"
          /\ \/ textAt \in DOMAIN fi /\ fi[textAt] = <<"part", text>>
             \/ iat = "take" /\ job.of = "part" /\ text = part /\ textAt = Len(fi) + 1

IntakeInv ==
    /\ IntakeTypeOK /\ PhaseOK /\ HeldOK
    /\ iat \in Good => ListsOK /\ WorkOK
    /\ iat \in Good \ {"move"} => PipeOK /\ PartOK /\ LayoutOK /\ TextOK
    /\ row => Range(fi) \subseteq store
-----------------------------------------------------------------------------
(***************************************************************************)
(* Names and files.                                                        *)
(***************************************************************************)

\* A set of natural numbers that is not empty has a least one.
LEMMA HasLeast ==
    ASSUME NEW S, S \subseteq Nat, S # {}
    PROVE  \E x \in S : \A y \in S : x <= y
<1>1. IsWellFoundedOn(OpToRel(<, Nat), Nat)
  BY NatLessThanWellFounded
<1>2. PICK x \in S : \A y \in S : <<y, x>> \notin OpToRel(<, Nat)
  BY <1>1, WFMin
<1>3. \A y \in S : ~(y < x)
  BY <1>2 DEF OpToRel
<1> QED
  BY <1>3

\* A name is always left for a new file.
LEMMA FreshIs ==
    ASSUME ~IsFiniteSet(Names), FilesType
    PROVE  Fresh \in Names \ DOMAIN files /\ Fresh \in Nat /\ Fresh # NoName
<1>1. Names \ DOMAIN files # {}
  <2>1. SUFFICES ASSUME Names \ DOMAIN files = {} PROVE FALSE
    OBVIOUS
  <2>2. Names = DOMAIN files
    BY <2>1 DEF FilesType
  <2> QED
    BY <2>2 DEF FilesType
<1>2. Names \ DOMAIN files \subseteq Nat
  BY IntakeAssumption
<1>3. \E x \in Names \ DOMAIN files : \A y \in Names \ DOMAIN files : x <= y
  BY <1>1, <1>2, HasLeast
<1>4. Fresh \in Names \ DOMAIN files
  BY <1>3 DEF Fresh, Min
<1> QED
  BY <1>4, IntakeAssumption DEF NoName

\* What With and Without are.
LEMMA WithIs ==
    ASSUME NEW n, NEW h
    PROVE  /\ DOMAIN With(n, h) = DOMAIN files \cup {n}
           /\ With(n, h)[n] = h
           /\ \A x \in DOMAIN files : x # n => With(n, h)[x] = files[x]
  BY DEF With

\* A step that writes a file.
LEMMA WithStep ==
    ASSUME NEW n, NEW h, files' = With(n, h)
    PROVE  /\ DOMAIN files' = DOMAIN files \cup {n} /\ n \in DOMAIN files' /\ files'[n] = h
           /\ \A x \in DOMAIN files : x # n => x \in DOMAIN files' /\ files'[x] = files[x]
  BY DEF With

LEMMA WithoutIs ==
    ASSUME NEW S
    PROVE  /\ DOMAIN Without(S) = DOMAIN files \ S
           /\ \A x \in DOMAIN files \ S : Without(S)[x] = files[x]
  BY DEF Without

\* The sequences of the lists grow at their end.
LEMMA AppendIs ==
    ASSUME NEW T, NEW s \in Seq(T), NEW x
    PROVE  /\ Len(Append(s, x)) = Len(s) + 1 /\ Len(s) \in Nat
           /\ DOMAIN Append(s, x) = 1 .. Len(s) + 1 /\ DOMAIN s = 1 .. Len(s)
           /\ Append(s, x)[Len(s) + 1] = x
           /\ \A i \in 1 .. Len(s) : Append(s, x)[i] = s[i]
           /\ x \in T => Append(s, x) \in Seq(T)
  OBVIOUS

LEMMA NamedAppend ==
    ASSUME NEW T, NEW s \in Seq(T), NEW x
    PROVE  Named(Append(s, x)) = Named(s) \cup {x}
<1> DEFINE t == Append(s, x)
<1>1. /\ DOMAIN t = 1 .. Len(s) + 1 /\ DOMAIN s = 1 .. Len(s) /\ Len(s) \in Nat
      /\ t[Len(s) + 1] = x /\ \A i \in 1 .. Len(s) : t[i] = s[i]
  BY AppendIs
<1> HIDE DEF t
<1>2. Named(t) = Named(s) \cup {x}
  BY <1>1 DEF Named
<1> QED
  BY <1>2 DEF t

LEMMA NamedEmpty == Named(<<>>) = {}
  BY DEF Named

\* The list of all the files that are to be moved.
LEMMA ToMoveIs ==
    ASSUME tmpfns \in Seq(Nat), thumbs \in Seq(Nat)
    PROVE  /\ ToMove \in Seq(Nat) /\ Len(ToMove) = Len(tmpfns) + Len(thumbs)
           /\ DOMAIN ToMove = 1 .. Len(tmpfns) + Len(thumbs)
           /\ DOMAIN tmpfns = 1 .. Len(tmpfns) /\ DOMAIN thumbs = 1 .. Len(thumbs)
           /\ Len(tmpfns) \in Nat /\ Len(thumbs) \in Nat
           /\ \A i \in 1 .. Len(tmpfns) : ToMove[i] = tmpfns[i]
           /\ \A i \in 1 .. Len(thumbs) : ToMove[Len(tmpfns) + i] = thumbs[i]
  BY DEF ToMove

LEMMA NamedToMove ==
    ASSUME tmpfns \in Seq(Nat), thumbs \in Seq(Nat)
    PROVE  Named(ToMove) = Named(tmpfns) \cup Named(thumbs)
<1>1. \A i \in DOMAIN ToMove : \/ i \in DOMAIN tmpfns /\ ToMove[i] = tmpfns[i]
                               \/ /\ i - Len(tmpfns) \in DOMAIN thumbs
                                  /\ ToMove[i] = thumbs[i - Len(tmpfns)]
  <2> SUFFICES ASSUME NEW i \in DOMAIN ToMove
               PROVE  \/ i \in DOMAIN tmpfns /\ ToMove[i] = tmpfns[i]
                      \/ /\ i - Len(tmpfns) \in DOMAIN thumbs
                         /\ ToMove[i] = thumbs[i - Len(tmpfns)]
    OBVIOUS
  <2>1. CASE i <= Len(tmpfns)
    BY <2>1, ToMoveIs
  <2>2. CASE i > Len(tmpfns)
    <3>1. i - Len(tmpfns) \in 1 .. Len(thumbs) /\ Len(tmpfns) + (i - Len(tmpfns)) = i
      BY <2>2, ToMoveIs
    <3> QED
      BY <3>1, ToMoveIs
  <2> QED
    BY <2>1, <2>2, ToMoveIs
<1>2. \A i \in DOMAIN tmpfns : i \in DOMAIN ToMove /\ ToMove[i] = tmpfns[i]
  BY ToMoveIs
<1>3. \A i \in DOMAIN thumbs : Len(tmpfns) + i \in DOMAIN ToMove /\ ToMove[Len(tmpfns) + i] = thumbs[i]
  BY ToMoveIs
<1> QED
  BY <1>1, <1>2, <1>3 DEF Named

-----------------------------------------------------------------------------
(***************************************************************************)
(* The steps.                                                              *)
(***************************************************************************)

\* A step, or none.
IntakeStep == Taking \/ Worker \/ UNCHANGED intakeVars

\* How a job goes on: the file was probed; the thumbnail is drawn; it ends
\* without a thumbnail.
ProbedOn == job.at = "probe" /\ TakeStep("picture", job.name) /\ TakeGoesOn /\ UNCHANGED files
ThumbMade ==
    /\ job.at = "draw" /\ files' = With(job.thumb, <<"thumb", part>>)
    /\ TakeStep("drawn", job.name) /\ TakeGoesOn
NoThumb == job.at \in {"probe", "picture", "draw"} /\ TakeDone(FALSE)

TakeFrame == iat = "take" /\ Unblocked /\ UNCHANGED <<body, got, workVars, postVars>>

LEMMA TakeCases ==
    ASSUME takeInFile
    PROVE  /\ TakeFrame
           /\ \/ TakeFails \/ TakeOpen \/ TakeFill \/ ProbedOn \/ ParkThumb
              \/ ThumbMade \/ NoThumb \/ Drawn
  BY DEF takeInFile, TakeFrame, Probe, NoPicture, DrawThumb, ProbedOn, ThumbMade, NoThumb

\* What a body is.
LEMMA BodyIs ==
    ASSUME body \in Bodies
    PROVE  /\ body.parts \in Seq(PartKinds) /\ Len(body.parts) \in Nat
           /\ DOMAIN body.parts = 1 .. Len(body.parts)
           /\ body.tail \in BOOLEAN /\ body.inner \in BOOLEAN /\ body.face \in BOOLEAN
           /\ body.multi \in BOOLEAN /\ body.cut \in BOOLEAN
  BY IntakeAssumption

\* What a job is.
LEMMA JobIs ==
    ASSUME JobType
    PROVE  /\ job.at \in {"none", "open", "fill", "probe", "picture", "draw", "drawn"}
           /\ job.name \in Nat /\ job.thumb \in Nat /\ job.nothumb \in BOOLEAN
           /\ job.of \in {"", "part", "face"}
           /\ job = [at |-> job.at, name |-> job.name, nothumb |-> job.nothumb, of |-> job.of,
                     thumb |-> job.thumb]
  BY DEF JobType

-----------------------------------------------------------------------------
(***************************************************************************)
(* Types.                                                                  *)
(***************************************************************************)

\* A job that has come so far has its files.
LEMMA JobFiles ==
    ASSUME IntakeInv, iat = "take"
    PROVE  /\ job.at \notin {"none", "open"} => job.name \in DOMAIN files
           /\ job.at \in {"draw", "drawn"} => job.thumb \in DOMAIN files
  BY DEF IntakeInv, WorkOK, Good, Open

\* While the worker has the file that it writes, nothing has failed.
LEMMA WorkerFile ==
    ASSUME IntakeInv, wat \in {"copy", "close"}, pipe = "eof"
    PROVE  iat = "wait" /\ WorkName = {wfn} /\ wfn \in DOMAIN files
<1>1. iat = "wait"
  BY DEF IntakeInv, PhaseOK, Early, Open, Ended
<1> QED
  BY <1>1 DEF IntakeInv, WorkOK, WorkName, Good

\* What a step does to the files.
LEMMA FilesChange ==
    ASSUME IntakeInv, IntakeStep
    PROVE  \/ UNCHANGED files
           \/ \E h : files' = With(Fresh, h)
           \/ \E n \in DOMAIN files : \E h : files' = With(n, h)
           \/ \E S : files' = Without(S)
<1> DEFINE Goal == \/ UNCHANGED files
                   \/ \E h : files' = With(Fresh, h)
                   \/ \E n \in DOMAIN files : \E h : files' = With(n, h)
                   \/ \E S : files' = Without(S)
<1>1. CASE CopyOpen \/ CopyArticle \/ MoveIn
  BY <1>1 DEF CopyOpen, CopyArticle, MoveIn
<1>2. CASE EatBody \/ InnerHead \/ EatText \/ EatFile \/ EatNot \/ EatFace \/ EatRest \/ ClosePipe
           \/ Joined \/ Cancel \/ InsertPost
  BY <1>2 DEF EatBody, InnerHead, EatText, EatFile, EatNot, EatFace, EatRest, ClosePipe, Joined,
              Cancel, InsertPost
<1>3. CASE Cancelled \/ Cleanup \/ MoveFile \/ CommitPost \/ UndoPost
  BY <1>3 DEF Cancelled, Cleanup, MoveFile, CommitPost, UndoPost
<1>4. CASE Worker
  <2>1. CASE WorkerOpen
    BY <2>1 DEF WorkerOpen, WorkerFails
  <2>2. CASE WorkerCopy
    <3>1. CASE UNCHANGED files
      BY <3>1
    <3>2. CASE pipe = "eof" /\ files' = With(wfn, <<"whole", wgot>>)
      <4>1. wfn \in DOMAIN files
        BY <2>2, <3>2, WorkerFile DEF WorkerCopy
      <4> QED
        BY <3>2, <4>1
    <3>3. CASE WorkerFails
      BY <3>3 DEF WorkerFails
    <3> QED
      BY <2>2, <3>1, <3>2, <3>3 DEF WorkerCopy
  <2>3. CASE WorkerClose \/ WorkerDrain
    BY <2>3 DEF WorkerClose, WorkerDrain, WorkerFails
  <2> QED
    BY <1>4, <2>1, <2>2, <2>3 DEF Worker
<1>5. CASE takeInFile
  <2>1. CASE TakeFails \/ TakeOpen \/ ProbedOn \/ ParkThumb
    BY <2>1 DEF TakeFails, TakeOpen, ProbedOn, ParkThumb
  <2>2. CASE NoThumb \/ Drawn
    BY <2>2 DEF NoThumb, Drawn, TakeDone
  <2>3. CASE TakeFill \/ ThumbMade
    BY <1>5, <2>3, TakeCases, JobFiles DEF TakeFrame, TakeFill, ThumbMade
  <2> QED
    BY <1>5, <2>1, <2>2, <2>3, TakeCases
<1>6. CASE UNCHANGED intakeVars
  BY <1>6 DEF intakeVars
<1> QED
  BY <1>1, <1>2, <1>3, <1>4, <1>5, <1>6 DEF IntakeStep, Taking

LEMMA FilesTypeStep ==
    ASSUME ~IsFiniteSet(Names), IntakeInv, IntakeStep
    PROVE  FilesType'
<1>1. FilesType
  BY DEF IntakeInv, IntakeTypeOK
<1>2. CASE UNCHANGED files
  BY <1>1, <1>2 DEF FilesType
<1>3. ASSUME NEW n \in Names, NEW h, files' = With(n, h) PROVE FilesType'
  <2>1. DOMAIN files' = DOMAIN files \cup {n}
    BY <1>3, WithIs
  <2>2. IsFiniteSet(DOMAIN files \cup {n})
    BY <1>1, FS_AddElement DEF FilesType
  <2> QED
    BY <1>1, <2>1, <2>2 DEF FilesType
<1>4. ASSUME NEW S, files' = Without(S) PROVE FilesType'
  <2>1. DOMAIN files' = DOMAIN files \ S
    BY <1>4, WithoutIs
  <2>2. IsFiniteSet(DOMAIN files \ S)
    BY <1>1, FS_Difference DEF FilesType
  <2> QED
    BY <1>1, <2>1, <2>2 DEF FilesType
<1>5. Fresh \in Names /\ DOMAIN files \subseteq Names
  BY <1>1, FreshIs DEF FilesType
<1> QED
  BY <1>2, <1>3, <1>4, <1>5, FilesChange

\* The worker's steps leave the lists and the job alone.
LEMMA WorkerFrame ==
    ASSUME Worker
    PROVE  UNCHANGED <<body, stuck, got, iat, eatVars, postVars>>
  BY DEF Worker, WorkerOpen, WorkerCopy, WorkerClose, WorkerDrain, WorkerFails, WorkerAt

\* What a step does to the lists.
LEMMA ListsChange ==
    ASSUME IntakeStep
    PROVE  \/ UNCHANGED <<fi, tmpfns, thumbs, layout>>
           \/ EatText \/ Joined \/ Cleanup \/ \E made \in BOOLEAN : TakeDone(made)
<1>1. CASE CopyOpen \/ CopyArticle \/ MoveIn \/ EatBody \/ InnerHead \/ EatFile \/ EatNot \/ EatFace
           \/ EatRest \/ ClosePipe \/ Cancel \/ Cancelled
  BY <1>1
  DEF CopyOpen, CopyArticle, MoveIn, EatBody, InnerHead, EatFile, EatNot, EatFace, EatRest,
      ClosePipe, Cancel, Cancelled, eatVars
<1>2. CASE InsertPost \/ MoveFile \/ CommitPost \/ UndoPost
  BY <1>2 DEF InsertPost, MoveFile, CommitPost, UndoPost, PostGoesOn, eatVars
<1>3. CASE takeInFile
  <2>1. CASE TakeFails \/ TakeOpen \/ TakeFill \/ ProbedOn \/ ParkThumb \/ ThumbMade
    BY <2>1 DEF TakeFails, TakeOpen, TakeFill, ProbedOn, ParkThumb, ThumbMade, TakeGoesOn
  <2>2. CASE NoThumb \/ Drawn
    BY <2>2 DEF NoThumb, Drawn
  <2> QED
    BY <1>3, <2>1, <2>2, TakeCases
<1>4. CASE Worker
  BY <1>4, WorkerFrame DEF eatVars
<1>5. CASE UNCHANGED intakeVars
  BY <1>5 DEF intakeVars, eatVars
<1> QED
  BY <1>1, <1>2, <1>3, <1>4, <1>5 DEF IntakeStep, Taking

LEMMA NumbersStep ==
    ASSUME ~IsFiniteSet(Names), IntakeInv, IntakeStep
    PROVE  Numbers'
<1>1. Numbers /\ FilesType /\ ListTypes
  BY DEF IntakeInv, IntakeTypeOK
<1>2. Fresh \in Nat
  BY <1>1, FreshIs
<1>3. Len(fi) + 1 \in Nat /\ part + 1 \in Nat \ {0} /\ wgot + 1 \in Nat /\ moved + 1 \in Nat
  BY <1>1 DEF Numbers, ListTypes
<1>4. CASE CopyOpen \/ CopyArticle \/ MoveIn
  BY <1>1, <1>2, <1>4 DEF CopyOpen, CopyArticle, MoveIn, Numbers, eatVars, workVars, postVars, NoName
<1>5. CASE EatBody \/ InnerHead \/ EatNot \/ EatFace \/ EatRest \/ ClosePipe \/ Joined \/ Cancel
           \/ Cancelled \/ Cleanup
  BY <1>1, <1>5
  DEF EatBody, InnerHead, EatNot, EatFace, EatRest, ClosePipe, Joined, Cancel, Cancelled, Cleanup,
      Numbers, eatVars, workVars, postVars, NoName
<1>6. CASE EatText \/ EatFile
  BY <1>1, <1>3, <1>6 DEF EatText, EatFile, Numbers, postVars
<1>7. CASE takeInFile
  <2>1. /\ UNCHANGED <<got, text, textAt, wfn, wgot, moved>>
        /\ part' = part \/ part' = part + 1
    BY <1>7, TakeCases
    DEF TakeFrame, TakeFails, TakeOpen, TakeFill, ProbedOn, ParkThumb, ThumbMade, NoThumb, Drawn,
        TakeDone, TakeGoesOn, workVars, postVars
  <2> QED
    BY <1>1, <1>3, <2>1 DEF Numbers
<1>8. CASE Worker
  <2>1. UNCHANGED <<got, part, text, textAt, moved>>
    BY <1>8, WorkerFrame DEF eatVars, postVars
  <2>2. (wfn' = wfn \/ wfn' = Fresh) /\ (wgot' = wgot \/ wgot' = wgot + 1)
    BY <1>8
    DEF Worker, WorkerOpen, WorkerCopy, WorkerClose, WorkerDrain, WorkerFails, WorkerAt
  <2> QED
    BY <1>1, <1>2, <1>3, <2>1, <2>2 DEF Numbers
<1>9. CASE InsertPost \/ MoveFile \/ CommitPost \/ UndoPost
  BY <1>1, <1>3, <1>9
  DEF InsertPost, MoveFile, CommitPost, UndoPost, PostGoesOn, Numbers, eatVars, workVars, NoName
<1>10. CASE UNCHANGED intakeVars
  BY <1>1, <1>10 DEF intakeVars, eatVars, workVars, postVars, Numbers
<1> QED
  BY <1>4, <1>5, <1>6, <1>7, <1>8, <1>9, <1>10 DEF IntakeStep, Taking

\* What is said of a file that was eaten.
LEMMA HoldsTold == ASSUME Numbers PROVE Holds \in Told
  BY DEF Holds, Told, Numbers

LEMMA ListTypesStep ==
    ASSUME IntakeInv, IntakeStep
    PROVE  ListTypes'
<1>1. Numbers /\ ListTypes /\ JobType
  BY DEF IntakeInv, IntakeTypeOK
<1>2. CASE UNCHANGED <<fi, tmpfns, thumbs, layout>>
  BY <1>1, <1>2 DEF ListTypes
<1>3. CASE EatText
  <2>1. Append(layout, 0) \in Seq(Nat)
    BY <1>1 DEF ListTypes
  <2> QED
    BY <1>1, <1>3, <2>1 DEF EatText, ListTypes
<1>4. CASE \E made \in BOOLEAN : TakeDone(made)
  <2>0. job.name \in Nat /\ job.thumb \in Nat
    BY <1>1, JobIs
  <2>1. Len(fi) + 1 \in Nat /\ job.name \in Nat /\ job.thumb \in Nat
    BY <1>1, <2>0 DEF ListTypes
  <2>2. /\ Append(tmpfns, job.name) \in Seq(Nat) /\ Append(fi, Holds) \in Seq(Told)
        /\ Append(thumbs, job.thumb) \in Seq(Nat) /\ Append(layout, Len(fi) + 1) \in Seq(Nat)
    BY <1>1, <2>1, HoldsTold DEF ListTypes
  <2> QED
    BY <1>1, <1>4, <2>2 DEF TakeDone, ListTypes
<1>5. CASE Joined
  <2>1. <<"whole", wgot>> \in Told /\ Len(fi) + 1 \in Nat /\ wfn \in Nat
    BY <1>1 DEF Told, Numbers, ListTypes
  <2>2. /\ Append(tmpfns, wfn) \in Seq(Nat) /\ Append(fi, <<"whole", wgot>>) \in Seq(Told)
        /\ <<Len(fi) + 1>> \in Seq(Nat)
    BY <1>1, <2>1 DEF ListTypes
  <2> QED
    BY <1>1, <1>5, <2>2 DEF Joined, ListTypes
<1>6. CASE Cleanup
  BY <1>1, <1>6 DEF Cleanup, ListTypes
<1>7. UNCHANGED <<fi, tmpfns, thumbs, layout>> \/ EatText \/ Joined \/ Cleanup
         \/ \E made \in BOOLEAN : TakeDone(made)
  BY ListsChange
<1> QED
  BY <1>2, <1>3, <1>4, <1>5, <1>6, <1>7

LEMMA JobTypeStep ==
    ASSUME ~IsFiniteSet(Names), IntakeInv, IntakeStep
    PROVE  JobType'
<1>1. JobType /\ FilesType
  BY DEF IntakeInv, IntakeTypeOK
<1>2. Fresh \in Nat
  BY <1>1, FreshIs
<1>3. CASE UNCHANGED job
  BY <1>1, <1>3 DEF JobType
<1>4. CASE job' = NoJob
  BY <1>4 DEF NoJob, NoName, JobType
<1>5. CASE EatFile
  <2> DEFINE b == Textual /\ body.parts[part] = "coded"
  <2>1. b \in BOOLEAN
    OBVIOUS
  <2>2. job' = [NoJob EXCEPT !.at = "open", !.of = "part", !.nothumb = b]
    BY <1>5, Zenon DEF EatFile
  <2> HIDE DEF b
  <2>3. job' = [at |-> "open", name |-> 0, nothumb |-> b, of |-> "part", thumb |-> 0]
    BY <2>2 DEF NoJob, NoName
  <2>4. 0 \in Nat
    OBVIOUS
  <2>5. CASE b = TRUE
    BY <2>3, <2>4, <2>5 DEF JobType
  <2>6. CASE b = FALSE
    BY <2>3, <2>4, <2>6 DEF JobType
  <2> QED
    BY <2>1, <2>5, <2>6, Zenon
<1>6. CASE EatFace
  <2>1. CASE body.face
    <3>1. job' = [at |-> "open", name |-> 0, nothumb |-> TRUE, of |-> "face", thumb |-> 0]
      BY <1>6, <2>1 DEF EatFace, NoJob, NoName
    <3> QED
      BY <3>1 DEF JobType
  <2>2. CASE ~body.face
    BY <1>3, <1>6, <2>2 DEF EatFace
  <2> QED
    BY <2>1, <2>2
<1>7. CASE TakeOpen \/ TakeFill \/ ProbedOn \/ ParkThumb \/ ThumbMade
  <2>1. CASE TakeOpen
    BY <1>1, <1>2, <2>1 DEF TakeOpen, TakeStep, JobType
  <2>2. CASE ParkThumb
    BY <1>1, <1>2, <2>2 DEF ParkThumb, JobType
  <2>3. CASE TakeFill \/ ProbedOn \/ ThumbMade
    <3>1. job.name \in Nat
      BY <1>1, JobIs
    <3>2. \E l \in {"probe", "picture", "drawn"} : job' = [job EXCEPT !.at = l, !.name = job.name]
      BY <2>3 DEF TakeFill, ProbedOn, ThumbMade, TakeStep
    <3> QED
      BY <1>1, <3>1, <3>2 DEF JobType
  <2> QED
    BY <1>7, <2>1, <2>2, <2>3
<1>8. CASE takeInFile
  BY <1>4, <1>7, <1>8, TakeCases DEF TakeFails, NoThumb, Drawn, TakeDone
<1>9. CASE EatBody \/ InnerHead \/ EatText \/ EatNot \/ CopyOpen \/ CopyArticle \/ MoveIn
  BY <1>3, <1>9
  DEF EatBody, InnerHead, EatText, EatNot, CopyOpen, CopyArticle, MoveIn, eatVars
<1>10. CASE EatRest \/ ClosePipe \/ Joined \/ Cancel \/ Cancelled \/ Cleanup
            \/ InsertPost \/ MoveFile \/ CommitPost \/ UndoPost
  BY <1>3, <1>10
  DEF EatRest, ClosePipe, Joined, Cancel, Cancelled, Cleanup, InsertPost, MoveFile, CommitPost,
      UndoPost, PostGoesOn, eatVars
<1>11. CASE Worker
  BY <1>3, <1>11, WorkerFrame DEF eatVars
<1>12. CASE UNCHANGED intakeVars
  BY <1>3, <1>12 DEF intakeVars, eatVars
<1> QED
  BY <1>5, <1>6, <1>8, <1>9, <1>10, <1>11, <1>12 DEF IntakeStep, Taking

LEMMA PlaceTypesStep ==
    ASSUME IntakeInv, IntakeStep
    PROVE  PlaceTypes'
<1>1. PlaceTypes
  BY DEF IntakeInv, IntakeTypeOK
<1>2. row' \in BOOLEAN
  <2>1. row' = row \/ row' = TRUE
    BY TakeCases, WorkerFrame
    DEF IntakeStep, Taking, CopyOpen, CopyArticle, MoveIn, EatBody, InnerHead, EatText, EatFile,
        EatNot, EatFace, TakeFrame, EatRest, ClosePipe, Joined, Cancel, Cancelled, Cleanup,
        InsertPost, MoveFile, CommitPost, UndoPost, PostGoesOn, intakeVars, postVars
  <2> QED
    BY <1>1, <2>1 DEF PlaceTypes
<1>3. CASE Worker
  BY <1>1, <1>2, <1>3
  DEF Worker, WorkerOpen, WorkerCopy, WorkerClose, WorkerDrain, WorkerFails, WorkerAt, PlaceTypes
<1>4. CASE Taking
  <2>1. werr' = werr /\ (wat' = wat \/ wat' = "open")
    BY <1>4, TakeCases
    DEF Taking, CopyOpen, CopyArticle, MoveIn, EatBody, InnerHead, EatText, EatFile,
        EatNot, EatFace, TakeFrame, EatRest, ClosePipe, Joined, Cancel, Cancelled, Cleanup,
        InsertPost, MoveFile, CommitPost, UndoPost, PostGoesOn, workVars
  <2>2. pipe' \in {pipe, "full", "eof", "err"}
    BY <1>4, TakeCases
    DEF Taking, CopyOpen, CopyArticle, MoveIn, EatBody, InnerHead, EatText, EatFile,
        EatNot, EatFace, TakeFrame, EatRest, ClosePipe, Joined, Cancel, Cancelled, Cleanup,
        InsertPost, MoveFile, CommitPost, UndoPost, PostGoesOn, workVars, Hand
  <2> QED
    BY <1>1, <1>2, <2>1, <2>2 DEF PlaceTypes
<1>5. CASE UNCHANGED intakeVars
  BY <1>1, <1>2, <1>5 DEF intakeVars, workVars, PlaceTypes
<1> QED
  BY <1>3, <1>4, <1>5 DEF IntakeStep

LEMMA TypeStep ==
    ASSUME ~IsFiniteSet(Names), IntakeInv, IntakeStep
    PROVE  IntakeTypeOK'
<1>1. body' = body
  BY TakeCases, WorkerFrame
  DEF IntakeStep, Taking, CopyOpen, CopyArticle, MoveIn, EatBody, InnerHead, EatText, EatFile,
      EatNot, EatFace, TakeFrame, EatRest, ClosePipe, Joined, Cancel, Cancelled, Cleanup,
      InsertPost, MoveFile, CommitPost, UndoPost, PostGoesOn, intakeVars
<1>2. body' \in Bodies
  BY <1>1 DEF IntakeInv, IntakeTypeOK
<1> QED
  BY <1>2, FilesTypeStep, NumbersStep, ListTypesStep, JobTypeStep, PlaceTypesStep DEF IntakeTypeOK

-----------------------------------------------------------------------------
(***************************************************************************)
(* Where the goroutines are.                                               *)
(***************************************************************************)

LEMMA PhaseStep ==
    ASSUME IntakeInv, IntakeStep
    PROVE  PhaseOK'
<1>1. PhaseOK /\ PlaceTypes /\ JobType /\ body \in Bodies
  BY DEF IntakeInv, IntakeTypeOK
<1>2. body.inner \in BOOLEAN /\ body.face \in BOOLEAN /\ body.tail \in BOOLEAN
  BY <1>1, BodyIs
<1> USE DEF PhaseOK, Early, Open, Ended, GoOn
<1>3. CASE CopyOpen \/ CopyArticle \/ MoveIn
  BY <1>1, <1>3 DEF CopyOpen, CopyArticle, MoveIn, eatVars, workVars, postVars
<1>4. CASE EatBody
  BY <1>1, <1>4 DEF EatBody, eatVars, postVars
<1>5. CASE InnerHead
  BY <1>1, <1>5 DEF InnerHead, Hand, EatFails, Unblocked, eatVars, postVars
<1>6. CASE EatText
  BY <1>1, <1>6 DEF EatText, Hand, Unblocked, postVars
<1>7. CASE EatFile
  BY <1>1, <1>7 DEF EatFile, Hand, Unblocked, postVars, NoJob, NoName
<1>8. CASE EatNot
  BY <1>1, <1>8 DEF EatNot, EatFails, Unblocked, eatVars, workVars, postVars
<1>9. CASE EatFace
  BY <1>1, <1>9 DEF EatFace, Unblocked, workVars, postVars, NoJob, NoName
<1>10. CASE takeInFile
  <2>1. TakeFrame
    BY <1>10, TakeCases
  <2>2. CASE TakeFails
    BY <1>1, <2>1, <2>2 DEF TakeFrame, TakeFails, EatFails, Unblocked, workVars, postVars, NoJob, NoName
  <2>3. CASE TakeOpen \/ TakeFill \/ ProbedOn \/ ThumbMade \/ ParkThumb
    <3>1. iat' = iat
      BY <2>3 DEF TakeOpen, TakeFill, ProbedOn, ThumbMade, ParkThumb, TakeGoesOn
    <3>2. /\ job'.at \notin {"none", "open"} /\ job'.of = job.of
          /\ job'.at \in {"fill", "probe", "picture"} => job'.thumb = NoName
      BY <1>1, <2>1, <2>3, JobIs
      DEF TakeFrame, TakeOpen, TakeFill, ProbedOn, ThumbMade, ParkThumb, TakeStep
    <3> QED
      BY <1>1, <2>1, <3>1, <3>2 DEF TakeFrame, workVars, postVars
  <2>4. CASE NoThumb \/ Drawn
    <3>1. iat' \in {"parts", "rest"} /\ job' = NoJob
      BY <2>4 DEF NoThumb, Drawn, TakeDone
    <3> QED
      BY <1>1, <2>1, <3>1 DEF TakeFrame, workVars, postVars, NoJob, NoName
  <2> QED
    BY <1>10, <2>2, <2>3, <2>4, TakeCases
<1>11. CASE EatRest
  BY <1>1, <1>2, <1>11 DEF EatRest, Hand, Unblocked, eatVars, postVars
<1>12. CASE ClosePipe \/ Cancel
  BY <1>1, <1>12 DEF ClosePipe, Cancel, Unblocked, eatVars, postVars
<1>13. CASE Joined
  BY <1>1, <1>13 DEF Joined, workVars, postVars
<1>14. CASE Cancelled \/ Cleanup
  BY <1>1, <1>14 DEF Cancelled, Cleanup, eatVars, workVars, postVars
<1>15. CASE Worker
  <2>1. UNCHANGED <<body, iat, job, moved, row>>
    BY <1>15, WorkerFrame DEF eatVars, postVars
  <2>2. CASE WorkerOpen
    BY <1>1, <2>1, <2>2 DEF WorkerOpen, WorkerFails, WorkerAt
  <2>3. CASE WorkerCopy
    BY <1>1, <2>1, <2>3 DEF WorkerCopy, WorkerFails, WorkerAt
  <2>4. CASE WorkerClose
    BY <1>1, <2>1, <2>4 DEF WorkerClose, WorkerFails, WorkerAt
  <2>5. CASE WorkerDrain
    BY <1>1, <2>1, <2>5 DEF WorkerDrain, WorkerAt
  <2> QED
    BY <1>15, <2>2, <2>3, <2>4, <2>5 DEF Worker
<1>16. CASE InsertPost \/ MoveFile \/ CommitPost \/ UndoPost
  BY <1>1, <1>16
  DEF InsertPost, MoveFile, CommitPost, UndoPost, PostGoesOn, eatVars, workVars, postVars
<1>17. CASE UNCHANGED intakeVars
  BY <1>1, <1>17 DEF intakeVars, eatVars, workVars, postVars
<1> QED
  BY <1>3, <1>4, <1>5, <1>6, <1>7, <1>8, <1>9, <1>10, <1>11, <1>12, <1>13, <1>14, <1>15, <1>16,
     <1>17
  DEF IntakeStep, Taking

-----------------------------------------------------------------------------
(***************************************************************************)
(* Every file is known.                                                    *)
(***************************************************************************)

\* What is no name, and what the goroutines have when they have nothing.
LEMMA Nobody ==
    ASSUME IntakeInv
    PROVE  /\ NoName \notin DOMAIN files
           /\ iat # "take" => job.name = NoName /\ job.thumb = NoName
           /\ iat \notin {"move", "undo", "refused", "accepted"} => moved = 0
           /\ iat \in Early \cup Ended \cup {"cancelled"} /\ wat \in {"off", "done"} => WorkName = {}
<1>1. DOMAIN files \subseteq Nat \ {0}
  BY IntakeAssumption DEF IntakeInv, IntakeTypeOK, FilesType
<1>2. PhaseOK
  BY DEF IntakeInv
<1>3. iat # "take" => job.name = NoName /\ job.thumb = NoName
  <2>1. NoJob.name = NoName /\ NoJob.thumb = NoName
    BY DEF NoJob
  <2>2. iat # "take" => job = NoJob
    BY <1>2 DEF PhaseOK
  <2> QED
    BY <2>1, <2>2
<1>4. iat \notin {"move", "undo", "refused", "accepted"} => moved = 0
  BY <1>2 DEF PhaseOK, Early, Open, Ended
<1>5. iat \in Early \cup Ended \cup {"cancelled"} /\ wat \in {"off", "done"} => WorkName = {}
  BY DEF WorkName, Early, Ended
<1> QED
  BY <1>1, <1>3, <1>4, <1>5 DEF NoName

\* A step that makes no file, after which as many names are known.
LEMMA KnownStays ==
    ASSUME IntakeInv, ~IntakeOver, ~IntakeOver', iat' # "move", iat' \notin Early,
           DOMAIN files' \subseteq DOMAIN files, (DOMAIN files' \cap Accounted) \subseteq Accounted'
    PROVE  HeldOK'
<1>1. DOMAIN files' \subseteq Accounted'
  BY DEF IntakeInv, HeldOK
<1> QED
  BY <1>1 DEF HeldOK, Early

LEMMA TakeHeld ==
    ASSUME ~IsFiniteSet(Names), IntakeInv, takeInFile
    PROVE  HeldOK'
<1>1. TakeFrame /\ iat = "take"
  BY TakeCases DEF TakeFrame
<1>2. /\ ListTypes /\ JobType /\ FilesType /\ NoName \notin DOMAIN files
      /\ DOMAIN files \subseteq Accounted /\ ~IntakeOver
  BY <1>1, Nobody DEF IntakeInv, IntakeTypeOK, HeldOK, IntakeOver
<1>3. Fresh \in Nat /\ Fresh \notin DOMAIN files
  BY <1>2, FreshIs
<1>4. iat' # "wait" => WorkName' = WorkName
  BY <1>1 DEF TakeFrame, WorkName, workVars
<1>5. CASE TakeFails
  <2>1. iat' \in {"cancel", "cleanup"} /\ WorkName' = WorkName
    BY <1>4, <1>5 DEF TakeFails, EatFails, GoOn
  <2>2. UNCHANGED <<tmpfns, thumbs, got>>
    BY <1>1, <1>5 DEF TakeFrame, TakeFails
  <2>3. DOMAIN files' = DOMAIN files \ ({job.name} \cup (IF Ffmpeg THEN {} ELSE {job.thumb}))
    BY <1>5, WithoutIs DEF TakeFails
  <2>4. stuck' = stuck \cup (IF Ffmpeg THEN {job.thumb} ELSE {})
    BY <1>5 DEF TakeFails
  <2>5. Accounted \ {job.name, job.thumb} \subseteq Accounted'
    BY <2>1, <2>2, <2>4 DEF Accounted
  <2>6. DOMAIN files' \subseteq Accounted'
    <3>1. CASE Ffmpeg
      BY <1>2, <2>3, <2>4, <2>5, <3>1 DEF Accounted
    <3>2. CASE ~Ffmpeg
      BY <1>2, <2>3, <2>5, <3>2
    <3> QED
      BY <3>1, <3>2
  <2> QED
    BY <2>1, <2>6 DEF HeldOK, IntakeOver, Early
<1>6. CASE TakeOpen \/ ParkThumb
  <2>1. iat' = "take" /\ UNCHANGED <<stuck, tmpfns, thumbs, got>>
    BY <1>1, <1>6 DEF TakeFrame, TakeOpen, ParkThumb, TakeGoesOn
  <2>a. files' = With(Fresh, Unwritten)
    BY <1>6 DEF TakeOpen, ParkThumb
  <2>2. DOMAIN files' = DOMAIN files \cup {Fresh}
    BY <2>a, WithIs
  <2>3. /\ Fresh \in {job'.name, job'.thumb}
        /\ {job.name, job.thumb} \subseteq {NoName, job'.name, job'.thumb}
    BY <1>1, <1>2, <1>6, JobIs DEF TakeOpen, ParkThumb, TakeStep, IntakeInv, PhaseOK
  <2>4. Accounted \ {NoName} \subseteq Accounted' /\ Fresh \in Accounted'
    BY <1>4, <2>1, <2>3 DEF Accounted
  <2> QED
    BY <1>2, <2>1, <2>2, <2>4 DEF HeldOK, IntakeOver, Early
<1>7. CASE TakeFill \/ ProbedOn \/ ThumbMade
  <2>1. iat' = "take" /\ UNCHANGED <<stuck, tmpfns, thumbs, got>>
    BY <1>1, <1>7 DEF TakeFrame, TakeFill, ProbedOn, ThumbMade, TakeGoesOn
  <2>2. job'.name = job.name /\ job'.thumb = job.thumb
    BY <1>2, <1>7, JobIs DEF TakeFill, ProbedOn, ThumbMade, TakeStep
  <2>3. DOMAIN files' \subseteq DOMAIN files
    <3>1. CASE TakeFill
      <4>1. files' = With(job.name, Holds) /\ job.name \in DOMAIN files
        BY <1>1, <3>1, JobFiles DEF TakeFill
      <4> QED
        BY <4>1, WithIs
    <3>2. CASE ThumbMade
      <4>1. files' = With(job.thumb, <<"thumb", part>>) /\ job.thumb \in DOMAIN files
        BY <1>1, <3>2, JobFiles DEF ThumbMade
      <4> QED
        BY <4>1, WithIs
    <3> QED
      BY <1>7, <3>1, <3>2 DEF ProbedOn
  <2>4. Accounted' = Accounted
    BY <1>4, <2>1, <2>2 DEF Accounted
  <2> QED
    BY <1>2, <2>1, <2>3, <2>4 DEF HeldOK, IntakeOver, Early
<1>8. ASSUME NEW made \in BOOLEAN, TakeDone(made), made \/ ~made
      PROVE  HeldOK'
  <2>1. iat' \in {"parts", "rest"} /\ UNCHANGED <<stuck, got>>
    BY <1>1, <1>8 DEF TakeDone, GoOn, TakeFrame
  <2>2. Named(tmpfns') = Named(tmpfns) \cup {job.name}
    BY <1>2, <1>8, NamedAppend DEF TakeDone, ListTypes
  <2>3. CASE made
    <3>1. Named(thumbs') = Named(thumbs) \cup {job.thumb} /\ files' = files
      BY <1>2, <1>8, <2>3, NamedAppend DEF TakeDone, ListTypes
    <3>2. Accounted \subseteq Accounted'
      BY <1>4, <2>1, <2>2, <3>1 DEF Accounted
    <3> QED
      BY <1>2, <2>1, <3>1, <3>2 DEF HeldOK, IntakeOver, Early
  <2>4. CASE ~made
    <3>1. thumbs' = thumbs /\ DOMAIN files' = DOMAIN files \ {job.thumb}
      BY <1>8, <2>4, WithoutIs DEF TakeDone
    <3>2. Accounted \ {job.thumb} \subseteq Accounted'
      BY <1>4, <2>1, <2>2, <3>1 DEF Accounted
    <3> QED
      BY <1>2, <2>1, <3>1, <3>2 DEF HeldOK, IntakeOver, Early
  <2> QED
    BY <2>3, <2>4
<1> QED
  BY <1>5, <1>6, <1>7, <1>8, TakeCases DEF NoThumb, Drawn

LEMMA WorkerHeld ==
    ASSUME ~IsFiniteSet(Names), IntakeInv, Worker
    PROVE  HeldOK'
<1>1. UNCHANGED <<stuck, got, iat, tmpfns, thumbs, job>>
  BY WorkerFrame DEF eatVars
<1>2. /\ FilesType /\ NoName \notin DOMAIN files /\ HeldOK /\ PhaseOK
      /\ iat \notin Early \cup Ended
  <2>1. wat \notin {"off", "done"}
    BY DEF Worker, WorkerOpen, WorkerCopy, WorkerClose, WorkerDrain
  <2> QED
    BY <2>1, Nobody DEF IntakeInv, IntakeTypeOK, PhaseOK, Early, Open, Ended
<1>3. DOMAIN files \subseteq Accounted /\ ~IntakeOver
  BY <1>2 DEF HeldOK, IntakeOver, Ended
<1>4. Fresh \in Nat /\ Fresh \notin DOMAIN files
  BY <1>2, FreshIs
<1>5. Accounted \ WorkName \subseteq Accounted' /\ WorkName' \subseteq Accounted'
  BY <1>1 DEF Accounted
<1>6. CASE WorkerFails
  <2>1. DOMAIN files' = DOMAIN files \ {wfn} /\ WorkName \subseteq {wfn}
    BY <1>6, WithoutIs DEF WorkerFails, WorkName
  <2> QED
    BY <1>1, <1>2, <1>3, <1>5, <2>1 DEF HeldOK, IntakeOver, Ended
<1>7. CASE WorkerOpen /\ ~WorkerFails
  <2>1. DOMAIN files' = DOMAIN files \cup {Fresh} /\ WorkName' = {Fresh} /\ WorkName = {}
    BY <1>7, WithIs DEF WorkerOpen, WorkerAt, WorkName
  <2> QED
    BY <1>1, <1>2, <1>3, <1>5, <2>1 DEF HeldOK, IntakeOver, Ended
<1>8. CASE WorkerCopy /\ ~WorkerFails
  <2>1. WorkName' = WorkName
    BY <1>8 DEF WorkerCopy, WorkerAt, WorkName
  <2>2. DOMAIN files' \subseteq DOMAIN files
    <3>1. CASE UNCHANGED files
      BY <3>1
    <3>2. CASE pipe = "eof" /\ files' = With(wfn, <<"whole", wgot>>)
      BY <1>8, <3>2, WorkerFile, WithIs DEF WorkerCopy
    <3> QED
      BY <1>8, <3>1, <3>2 DEF WorkerCopy
  <2> QED
    BY <1>1, <1>2, <1>3, <1>5, <2>1, <2>2 DEF HeldOK, IntakeOver, Ended
<1>9. CASE WorkerClose /\ ~WorkerFails
  <2>1. files' = files /\ iat = "wait" /\ ~werr /\ werr' = werr /\ wat' = "done" /\ wfn' = wfn
    BY <1>2, <1>9, WorkerFile DEF WorkerClose, WorkerAt, PhaseOK
  <2>2. WorkName' = {wfn} /\ WorkName \subseteq {wfn}
    BY <1>1, <2>1 DEF WorkName
  <2> QED
    BY <1>1, <1>2, <1>3, <1>5, <2>1, <2>2 DEF HeldOK, IntakeOver, Ended
<1>10. CASE WorkerDrain
  <2>1. files' = files /\ WorkName = {}
    BY <1>10 DEF WorkerDrain, WorkName
  <2> QED
    BY <1>1, <1>2, <1>3, <1>5, <2>1 DEF HeldOK, IntakeOver, Ended
<1> QED
  BY <1>6, <1>7, <1>8, <1>9, <1>10 DEF Worker, WorkerOpen

\* The files that are left to be moved, when one was moved.
LEMMA OneMoved ==
    ASSUME ListTypes, moved \in Nat, moved < Len(ToMove), moved' = moved + 1,
           UNCHANGED <<tmpfns, thumbs>>
    PROVE  ToGo \ {ToMove[moved + 1]} \subseteq ToGo'
<1>1. ToMove' = ToMove
  BY DEF ToMove
<1>2. \A k \in DOMAIN ToMove : k > moved => k = moved + 1 \/ k > moved + 1
  BY ToMoveIs DEF ListTypes
<1> QED
  BY <1>1, <1>2 DEF ToGo

LEMMA ToGoIs ==
    ASSUME ListTypes, moved \in Nat
    PROVE  /\ ToGo \subseteq Named(tmpfns) \cup Named(thumbs)
           /\ moved = 0 => ToGo = Named(tmpfns) \cup Named(thumbs)
           /\ moved = Len(ToMove) => ToGo = {}
<1>1. Named(ToMove) = Named(tmpfns) \cup Named(thumbs)
  BY NamedToMove DEF ListTypes
<1>2. DOMAIN ToMove = 1 .. Len(ToMove) /\ Len(ToMove) \in Nat
  BY ToMoveIs DEF ListTypes
<1>3. ToGo \subseteq Named(ToMove)
  BY DEF ToGo, Named
<1>4. moved = 0 => ToGo = Named(ToMove)
  BY <1>2 DEF ToGo, Named
<1>5. moved = Len(ToMove) => ToGo = {}
  BY <1>2 DEF ToGo
<1> QED
  BY <1>1, <1>3, <1>4, <1>5

LEMMA PostHeld ==
    ASSUME IntakeInv, InsertPost \/ MoveFile \/ CommitPost \/ UndoPost
    PROVE  HeldOK'
<1>1. /\ ListTypes /\ moved \in Nat /\ NoName \notin DOMAIN files
      /\ WorkName = {} /\ job.name = NoName /\ job.thumb = NoName
      /\ DOMAIN files \subseteq Accounted
      /\ iat = "move" => DOMAIN files \subseteq stuck \cup ToGo \cup {got}
      /\ iat = "eaten" => moved = 0
  <2>1. iat \in {"eaten", "move", "undo"}
    BY DEF InsertPost, MoveFile, CommitPost, UndoPost
  <2> QED
    BY <2>1, Nobody
    DEF IntakeInv, IntakeTypeOK, Numbers, HeldOK, IntakeOver, PhaseOK, Early, Ended
<1>2. DOMAIN files \subseteq stuck \cup Named(tmpfns) \cup Named(thumbs) \cup {got}
  BY <1>1 DEF Accounted
<1>3. CASE InsertPost
  <2>1. UNCHANGED <<files, stuck, got, tmpfns, thumbs, moved>> /\ iat' \in {"move", "undo"}
    BY <1>3 DEF InsertPost, PostGoesOn, GoOn
  <2>2. ToGo' = Named(tmpfns) \cup Named(thumbs)
    BY <1>1, <1>3, <2>1, ToGoIs DEF InsertPost, ToGo, ToMove
  <2> QED
    BY <1>2, <2>1, <2>2 DEF HeldOK, IntakeOver, Early, Accounted
<1>4. CASE MoveFile
  <2>1. UNCHANGED <<stuck, got, tmpfns, thumbs>> /\ iat = "move" /\ moved < Len(ToMove)
    BY <1>4 DEF MoveFile, PostGoesOn
  <2>2. CASE iat' = "move"
    <3>1. DOMAIN files' = DOMAIN files \ {ToMove[moved + 1]} /\ moved' = moved + 1
      BY <1>4, <2>2, WithoutIs DEF MoveFile, GoOn
    <3>2. DOMAIN files' \subseteq stuck \cup ToGo' \cup {got}
      BY <1>1, <2>1, <3>1, OneMoved
    <3>3. DOMAIN files' \subseteq Accounted'
      BY <1>2, <2>1, <3>1 DEF Accounted
    <3> QED
      BY <2>1, <2>2, <3>2, <3>3 DEF HeldOK, IntakeOver, Early
  <2>3. CASE iat' = "undo" /\ files' = files
    BY <1>2, <2>1, <2>3 DEF HeldOK, IntakeOver, Early, Accounted
  <2> QED
    BY <1>4, <2>2, <2>3 DEF MoveFile, GoOn
<1>5. CASE CommitPost
  <2>1. UNCHANGED <<stuck, tmpfns, thumbs>> /\ iat = "move" /\ ToGo = {}
    BY <1>1, <1>5, ToGoIs DEF CommitPost, eatVars
  <2>2. CASE iat' = "accepted"
    <3>1. DOMAIN files' = DOMAIN files \ {got}
      BY <1>5, <2>2, WithoutIs DEF CommitPost, GoOn
    <3>2. DOMAIN files' \subseteq stuck'
      BY <1>1, <2>1, <3>1
    <3> QED
      BY <2>2, <3>2 DEF HeldOK, IntakeOver, Early
  <2>3. CASE iat' = "undo" /\ files' = files /\ got' = got
    BY <1>2, <2>1, <2>3 DEF HeldOK, IntakeOver, Early, Accounted
  <2> QED
    BY <1>5, <2>2, <2>3 DEF CommitPost, GoOn
<1>6. CASE UndoPost
  <2>1. DOMAIN files' = DOMAIN files \ (Named(tmpfns) \cup Named(thumbs) \cup {got})
    BY <1>1, <1>6, WithoutIs, NamedToMove DEF UndoPost, ListTypes
  <2>2. DOMAIN files' \subseteq stuck' /\ iat' = "refused"
    BY <1>2, <1>6, <2>1 DEF UndoPost, PostGoesOn, GoOn
  <2> QED
    BY <2>2 DEF HeldOK, IntakeOver, Early
<1> QED
  BY <1>3, <1>4, <1>5, <1>6

LEMMA HeldStep ==
    ASSUME ~IsFiniteSet(Names), IntakeInv, IntakeStep
    PROVE  HeldOK'
<1>1. /\ FilesType /\ ListTypes /\ JobType /\ NoName \notin DOMAIN files /\ HeldOK /\ PhaseOK
      /\ got \in Nat
  BY Nobody DEF IntakeInv, IntakeTypeOK, Numbers
<1>2. Fresh \in Nat /\ Fresh \notin DOMAIN files
  BY <1>1, FreshIs
<1>3. CASE CopyOpen \/ CopyArticle \/ MoveIn
  <2>1. /\ iat \in Early /\ tmpfns = <<>> /\ thumbs = <<>> /\ WorkName = {}
        /\ job.name = NoName /\ job.thumb = NoName
        /\ UNCHANGED <<tmpfns, thumbs, job>>
    BY <1>1, <1>3, Nobody
    DEF CopyOpen, CopyArticle, MoveIn, Early, HeldOK, PhaseOK, eatVars
  <2>2. DOMAIN files \subseteq stuck \cup {got} /\ (iat = "sent" => DOMAIN files \subseteq stuck)
    BY <1>1, <2>1, NamedEmpty DEF HeldOK, Accounted, IntakeOver, Early
  <2>3. CASE CopyOpen
    <3>1. CASE files' = With(Fresh, <<"article", 0>>) /\ got' = Fresh /\ iat' = "copy"
      <4>1. DOMAIN files' = DOMAIN files \cup {Fresh}
        BY <3>1, WithIs
      <4> QED
        BY <2>1, <2>2, <2>3, <3>1, <4>1, NamedEmpty DEF CopyOpen, HeldOK, IntakeOver, Early, Accounted
    <3>2. CASE iat' = "refused" /\ files' = files
      BY <2>2, <2>3, <3>2 DEF CopyOpen, HeldOK, IntakeOver, Early
    <3> QED
      BY <2>3, <3>1, <3>2 DEF CopyOpen, GoOn
  <2>4. CASE CopyArticle
    BY <2>1, <2>2, <2>4, NamedEmpty, WithoutIs DEF CopyArticle, GoOn, HeldOK, IntakeOver, Early, Accounted
  <2>5. CASE MoveIn
    BY <2>1, <2>2, <2>5, NamedEmpty DEF MoveIn, GoOn, HeldOK, IntakeOver, Early, Accounted
  <2> QED
    BY <1>3, <2>3, <2>4, <2>5
<1>4. CASE EatBody \/ InnerHead \/ EatText \/ EatFile \/ EatNot \/ EatFace
  <2>1. /\ UNCHANGED <<files, stuck, got, tmpfns, thumbs>>
        /\ ~IntakeOver /\ iat' \in {"head", "parts", "take", "rest", "cancel", "cleanup"}
        /\ job.name = NoName /\ job.thumb = NoName
    BY <1>1, <1>4, Nobody
    DEF EatBody, InnerHead, EatText, EatFile, EatNot, EatFace, EatFails, GoOn, eatVars, IntakeOver
  <2>2. WorkName \subseteq WorkName'
    <3>1. CASE EatBody
      BY <1>1, <3>1, Nobody DEF EatBody, PhaseOK, Early
    <3>2. CASE InnerHead \/ EatText \/ EatFile \/ EatNot \/ EatFace
      BY <3>2 DEF InnerHead, EatText, EatFile, EatNot, EatFace, WorkName, workVars
    <3> QED
      BY <1>4, <3>1, <3>2
  <2>3. Accounted \ {NoName} \subseteq Accounted'
    BY <2>1, <2>2 DEF Accounted
  <2> QED
    BY <1>1, <2>1, <2>3, KnownStays DEF IntakeOver, Early
<1>5. CASE EatRest \/ ClosePipe \/ Cancel
  <2>1. /\ UNCHANGED <<files, stuck, got, tmpfns, thumbs, job, wat, wfn, werr>>
        /\ ~IntakeOver /\ iat' \in {"close", "wait", "eaten", "cancelled"}
        /\ iat \in Open
    BY <1>5 DEF EatRest, ClosePipe, Cancel, GoOn, eatVars, IntakeOver, Open
  <2>2. WorkName = WorkName'
    BY <1>1, <2>1 DEF WorkName, PhaseOK
  <2>3. Accounted \subseteq Accounted'
    BY <2>1, <2>2 DEF Accounted
  <2> QED
    BY <2>1, <2>3, KnownStays DEF IntakeOver, Early
<1>6. CASE Joined
  <2>1. /\ UNCHANGED <<files, stuck, got, thumbs, job, wat, wfn, werr>>
        /\ iat = "wait" /\ wat = "done" /\ iat' \in {"eaten", "cleanup"}
    BY <1>6 DEF Joined, GoOn, workVars
  <2>2. Named(tmpfns') = IF werr THEN Named(tmpfns) ELSE Named(tmpfns) \cup {wfn}
    BY <1>1, <1>6, NamedAppend DEF Joined, ListTypes
  <2>3. WorkName = IF werr THEN {} ELSE {wfn}
    BY <2>1 DEF WorkName
  <2>4. Accounted \subseteq Accounted'
    BY <2>1, <2>2, <2>3 DEF Accounted
  <2> QED
    BY <2>1, <2>4, KnownStays DEF IntakeOver, Early
<1>7. CASE Cancelled
  <2>1. /\ UNCHANGED <<stuck, got, tmpfns, thumbs, job>> /\ iat' = "cleanup"
        /\ DOMAIN files' = DOMAIN files \ {wfn} /\ WorkName = {} /\ ~IntakeOver
    BY <1>7, Nobody, WithoutIs DEF Cancelled, GoOn, eatVars, IntakeOver
  <2>2. Accounted \subseteq Accounted'
    BY <2>1 DEF Accounted
  <2> QED
    BY <2>1, <2>2, KnownStays DEF IntakeOver, Early
<1>8. CASE Cleanup
  <2>1. /\ DOMAIN files' = DOMAIN files \ (Named(tmpfns) \cup Named(thumbs) \cup {got})
        /\ stuck' = stuck /\ iat' = "refused" /\ iat = "cleanup"
    BY <1>8, WithoutIs DEF Cleanup, GoOn
  <2>2. WorkName = {} /\ job.name = NoName /\ job.thumb = NoName
    BY <1>1, <2>1, Nobody DEF PhaseOK, Ended
  <2>3. DOMAIN files' \subseteq stuck'
    BY <1>1, <2>1, <2>2 DEF HeldOK, IntakeOver, Accounted
  <2> QED
    BY <2>1, <2>3 DEF HeldOK, IntakeOver, Early
<1>9. CASE UNCHANGED intakeVars
  BY <1>1, <1>9
  DEF intakeVars, eatVars, workVars, postVars, HeldOK, IntakeOver, Accounted, WorkName, ToGo, ToMove
<1> QED
  BY <1>3, <1>4, <1>5, <1>6, <1>7, <1>8, <1>9, TakeHeld, WorkerHeld, PostHeld
  DEF IntakeStep, Taking

-----------------------------------------------------------------------------
(***************************************************************************)
(* The files on the lists, of the job and of the worker, while nothing has *)
(* failed.                                                                 *)
(***************************************************************************)

\* What is known of the lists before anything is moved.
LEMMA ListsHere ==
    ASSUME IntakeInv, iat \in Good \ {"move"}
    PROVE  /\ moved = 0 /\ ListsOK /\ WorkOK /\ ListTypes /\ JobType /\ FilesType /\ PhaseOK
           /\ NoName \notin DOMAIN files
           /\ \A i \in DOMAIN tmpfns : tmpfns[i] \in DOMAIN files /\ files[tmpfns[i]] = fi[i]
           /\ \A i \in DOMAIN thumbs : thumbs[i] \in DOMAIN files /\ files[thumbs[i]][1] = "thumb"
           /\ Listed \subseteq DOMAIN files
           /\ WorkName \subseteq DOMAIN files \ (Listed \cup {job.name, job.thumb})
           /\ {job.name, job.thumb} \subseteq DOMAIN files \cup {NoName}
<1>1. moved = 0 /\ NoName \notin DOMAIN files
  BY Nobody DEF Good, Early, Open
<1>2. ListsOK /\ WorkOK /\ ListTypes /\ JobType /\ FilesType /\ PhaseOK
  BY DEF IntakeInv, IntakeTypeOK
<1>3. /\ \A i \in DOMAIN tmpfns : tmpfns[i] \in DOMAIN files /\ files[tmpfns[i]] = fi[i]
      /\ \A i \in DOMAIN thumbs : thumbs[i] \in DOMAIN files /\ files[thumbs[i]][1] = "thumb"
  <2>1. /\ \A i \in DOMAIN tmpfns : i > 0
        /\ \A i \in DOMAIN thumbs : Len(tmpfns) + i > 0
    BY <1>2, ToMoveIs DEF ListTypes
  <2> QED
    BY <1>1, <1>2, <2>1 DEF ListsOK
<1>4. Listed \subseteq DOMAIN files
  BY <1>3 DEF Listed, Named
<1>5. {job.name, job.thumb} \subseteq DOMAIN files \cup {NoName}
  BY <1>2, JobIs DEF WorkOK, PhaseOK
<1>6. WorkName \subseteq DOMAIN files \ (Listed \cup {job.name, job.thumb})
  BY <1>2 DEF WorkOK
<1> QED
  BY <1>1, <1>2, <1>3, <1>4, <1>5, <1>6

\* The lists are as they were, and so are their files.
LEMMA ListsStay ==
    ASSUME ListsOK, UNCHANGED <<fi, tmpfns, thumbs, moved>>, store \subseteq store',
           \A n \in Listed \cap DOMAIN files : n \in DOMAIN files' /\ files'[n] = files[n]
    PROVE  ListsOK' /\ Listed' = Listed
<1>1. /\ \A i \in DOMAIN tmpfns : tmpfns[i] \in Listed
      /\ \A i \in DOMAIN thumbs : thumbs[i] \in Listed
  BY DEF Listed, Named
<1>2. Listed' = Listed
  BY DEF Listed
<1>3. /\ \A i \in DOMAIN tmpfns :
             i > moved => tmpfns[i] \in DOMAIN files' /\ files'[tmpfns[i]] = fi[i]
      /\ \A i \in DOMAIN thumbs :
             Len(tmpfns) + i > moved => thumbs[i] \in DOMAIN files' /\ files'[thumbs[i]][1] = "thumb"
  BY <1>1 DEF ListsOK
<1>4. \A i \in DOMAIN fi : i <= moved => fi[i] \in store'
  BY DEF ListsOK
<1> QED
  BY <1>2, <1>3, <1>4 DEF ListsOK

\* A file is added, and perhaps a thumbnail.
LEMMA ListsGrow ==
    ASSUME IntakeInv, iat \in Good \ {"move"}, NEW n \in Nat, NEW h, NEW t \in Nat,
           n \notin Listed, n \in DOMAIN files', files'[n] = h,
           tmpfns' = Append(tmpfns, n), fi' = Append(fi, h), moved' = 0,
           \A x \in Listed : x \in DOMAIN files' /\ files'[x] = files[x],
           \/ thumbs' = thumbs
           \/ /\ thumbs' = Append(thumbs, t) /\ t \notin Listed /\ t # n
              /\ t \in DOMAIN files' /\ files'[t][1] = "thumb"
    PROVE  /\ ListsOK'
           /\ Listed' = Listed \cup {n} \cup (IF thumbs' = thumbs THEN {} ELSE {t})
<1> DEFINE k == Len(tmpfns)  l == Len(thumbs)
<1>1. /\ ListsOK /\ ListTypes
      /\ \A i \in DOMAIN tmpfns : tmpfns[i] \in DOMAIN files /\ files[tmpfns[i]] = fi[i]
      /\ \A i \in DOMAIN thumbs : thumbs[i] \in DOMAIN files /\ files[thumbs[i]][1] = "thumb"
  BY ListsHere
<1>2. /\ k \in Nat /\ l \in Nat /\ Len(fi) = k
      /\ DOMAIN tmpfns = 1 .. k /\ DOMAIN thumbs = 1 .. l /\ DOMAIN fi = 1 .. k
  BY <1>1 DEF ListsOK, ListTypes
<1>3. /\ Len(tmpfns') = k + 1 /\ DOMAIN tmpfns' = 1 .. k + 1 /\ tmpfns'[k + 1] = n
      /\ \A i \in 1 .. k : tmpfns'[i] = tmpfns[i]
  BY <1>1, <1>2, AppendIs DEF ListTypes
<1>4. /\ Len(fi') = k + 1 /\ DOMAIN fi' = 1 .. k + 1 /\ fi'[k + 1] = h
      /\ \A i \in 1 .. k : fi'[i] = fi[i]
  BY <1>1, <1>2, AppendIs DEF ListTypes
<1>5. \/ thumbs' = thumbs
      \/ /\ Len(thumbs') = l + 1 /\ DOMAIN thumbs' = 1 .. l + 1 /\ thumbs'[l + 1] = t
         /\ \A i \in 1 .. l : thumbs'[i] = thumbs[i]
         /\ t \notin Listed /\ t # n /\ t \in DOMAIN files' /\ files'[t][1] = "thumb"
  <2>1. CASE thumbs' = thumbs
    BY <2>1
  <2>2. CASE /\ thumbs' = Append(thumbs, t) /\ t \notin Listed /\ t # n
             /\ t \in DOMAIN files' /\ files'[t][1] = "thumb"
    <3>1. /\ Len(thumbs') = l + 1 /\ DOMAIN thumbs' = 1 .. l + 1 /\ thumbs'[l + 1] = t
          /\ \A i \in 1 .. l : thumbs'[i] = thumbs[i]
      <4>1. thumbs' = Append(thumbs, t) /\ thumbs \in Seq(Nat)
        BY <1>1, <2>2 DEF ListTypes
      <4>2. /\ Len(Append(thumbs, t)) = l + 1 /\ DOMAIN Append(thumbs, t) = 1 .. l + 1
            /\ Append(thumbs, t)[l + 1] = t
            /\ \A i \in 1 .. l : Append(thumbs, t)[i] = thumbs[i]
        BY <4>1, AppendIs
      <4> QED
        BY <4>1, <4>2
    <3> QED
      BY <2>2, <3>1
  <2> QED
    BY <2>1, <2>2
<1>6. /\ \A i \in 1 .. k : tmpfns[i] \in Listed
      /\ \A i \in 1 .. l : thumbs[i] \in Listed
  BY <1>2 DEF Listed, Named
<1>7. /\ \A i, j \in 1 .. k : tmpfns[i] = tmpfns[j] => i = j
      /\ \A i, j \in 1 .. l : thumbs[i] = thumbs[j] => i = j
      /\ \A i \in 1 .. k, j \in 1 .. l : tmpfns[i] # thumbs[j]
  BY <1>1, <1>2 DEF ListsOK
<1>8. /\ \A i \in 1 .. k : files[tmpfns[i]] = fi[i]
      /\ \A i \in 1 .. l : files[thumbs[i]][1] = "thumb"
  BY <1>1, <1>2
<1>9. Named(tmpfns') = Named(tmpfns) \cup {n}
  BY <1>1, NamedAppend DEF ListTypes
<1>10. Named(thumbs') = Named(thumbs) \cup (IF thumbs' = thumbs THEN {} ELSE {t})
  BY <1>1, NamedAppend DEF ListTypes
<1> HIDE DEF k, l
<1>a. \A i \in 1 .. k + 1 : i \in 1 .. k \/ i = k + 1
  BY <1>2
<1>b. \A i \in 1 .. l + 1 : i \in 1 .. l \/ i = l + 1
  BY <1>2
<1>11. \A i \in DOMAIN tmpfns' : tmpfns'[i] \in DOMAIN files' /\ files'[tmpfns'[i]] = fi'[i]
  BY <1>3, <1>4, <1>6, <1>8, <1>a
<1>12. \A i \in DOMAIN thumbs' : thumbs'[i] \in DOMAIN files' /\ files'[thumbs'[i]][1] = "thumb"
  BY <1>2, <1>5, <1>6, <1>8, <1>b
<1>13. \A i, j \in DOMAIN tmpfns' : tmpfns'[i] = tmpfns'[j] => i = j
  BY <1>3, <1>6, <1>7, <1>a
<1>14. \A i, j \in DOMAIN thumbs' : thumbs'[i] = thumbs'[j] => i = j
  BY <1>2, <1>5, <1>6, <1>7, <1>b
<1>15. \A i \in DOMAIN tmpfns', j \in DOMAIN thumbs' : tmpfns'[i] # thumbs'[j]
  BY <1>2, <1>3, <1>5, <1>6, <1>7, <1>a, <1>b
<1>16. \A i \in DOMAIN fi' : i <= moved' => fi'[i] \in store'
  BY <1>2, <1>4
<1>17. Len(fi') = Len(tmpfns')
  BY <1>3, <1>4
<1>18. ListsOK'
  BY <1>11, <1>12, <1>13, <1>14, <1>15, <1>16, <1>17 DEF ListsOK
<1>19. Listed' = Listed \cup {n} \cup (IF thumbs' = thumbs THEN {} ELSE {t})
  BY <1>9, <1>10 DEF Listed
<1> QED
  BY <1>18, <1>19

\* The job is the same, and its files are as they were.
LEMMA WorkStays ==
    ASSUME WorkOK, UNCHANGED <<job, part>>, Listed' = Listed, WorkName' = WorkName, wgot' = wgot,
           wat' = wat /\ iat' = iat /\ werr' = werr /\ wfn' = wfn,
           \A n \in DOMAIN files : n \in DOMAIN files' /\ files'[n] = files[n]
    PROVE  WorkOK'
<1>1. Holds' = Holds
  BY DEF Holds
<1>2. job.at \notin {"none", "open"} => job.name \in DOMAIN files' \ Listed
  BY DEF WorkOK
<1>3. job.at \notin {"none", "open", "fill"} => files'[job.name] = Holds
  BY DEF WorkOK
<1>4. job.at \in {"draw", "drawn"} => job.thumb \in DOMAIN files' \ Listed /\ job.thumb # job.name
  BY DEF WorkOK
<1>5. job.at = "drawn" => files'[job.thumb][1] = "thumb"
  BY DEF WorkOK
<1>6. WorkName \subseteq DOMAIN files' \ (Listed \cup {job.name, job.thumb})
  BY DEF WorkOK
<1>7. wat = "close" \/ (wat = "done" /\ ~werr /\ iat = "wait") => files'[wfn] = <<"whole", wgot>>
  BY DEF WorkOK, WorkName
<1> QED
  BY <1>1, <1>2, <1>3, <1>4, <1>5, <1>6, <1>7 DEF WorkOK

LEMMA TakeLists ==
    ASSUME ~IsFiniteSet(Names), IntakeInv, takeInFile, iat' \in Good
    PROVE  ListsOK' /\ WorkOK'
<1>1. TakeFrame /\ iat = "take" /\ iat \in Good \ {"move"}
  BY TakeCases DEF TakeFrame, Good, Open
<1>2. /\ moved = 0 /\ ListsOK /\ WorkOK /\ ListTypes /\ JobType /\ FilesType
      /\ NoName \notin DOMAIN files /\ Listed \subseteq DOMAIN files
      /\ WorkName \subseteq DOMAIN files \ (Listed \cup {job.name, job.thumb})
  BY <1>1, ListsHere
<1>3. Fresh \in Nat \ DOMAIN files
  BY <1>2, FreshIs
<1>4. UNCHANGED <<wat, wfn, wgot, werr, moved, store>>
  BY <1>1 DEF TakeFrame, workVars, postVars
<1>5. iat' # "wait" => WorkName' = WorkName
  BY <1>1, <1>4 DEF WorkName
<1>6. wat = "close" => files[wfn] = <<"whole", wgot>> /\ wfn \in WorkName
  BY <1>2 DEF WorkOK, WorkName
<1>7. CASE TakeFails
  BY <1>7 DEF TakeFails, EatFails, GoOn, Good, Early, Open
<1>8. ASSUME TakeGoesOn, NEW n, NEW h, files' = With(n, h), n \notin Listed \cup WorkName,
             job'.at \notin {"none", "open"} => job'.name \in DOMAIN files' \ Listed,
             job'.at \notin {"none", "open", "fill"} => files'[job'.name] = Holds',
             job'.at \in {"draw", "drawn"} =>
                 job'.thumb \in DOMAIN files' \ Listed /\ job'.thumb # job'.name,
             job'.at = "drawn" => files'[job'.thumb][1] = "thumb",
             job'.name \notin WorkName, job'.thumb \notin WorkName
      PROVE  ListsOK' /\ WorkOK'
  <2>1. /\ DOMAIN files \subseteq DOMAIN files'
        /\ \A x \in DOMAIN files : x # n => files'[x] = files[x]
    <3>1. files' = With(n, h)
      BY <1>8
    <3> QED
      BY <3>1, WithStep
  <2>2. UNCHANGED <<fi, tmpfns, thumbs, moved, store, iat>>
    BY <1>4, <1>8 DEF TakeGoesOn
  <2>3. ListsOK' /\ Listed' = Listed
    BY <1>2, <1>8, <2>1, <2>2, ListsStay
  <2>4. WorkName' = WorkName /\ WorkName \subseteq DOMAIN files' \ Listed
    BY <1>1, <1>2, <1>5, <2>1, <2>2
  <2>5. wat' = "close" \/ (wat' = "done" /\ ~werr' /\ iat' = "wait") => files'[wfn'] = <<"whole", wgot'>>
    BY <1>1, <1>2, <1>4, <1>6, <1>8, <2>1, <2>2
  <2>6. WorkOK'
    BY <1>8, <2>3, <2>4, <2>5 DEF WorkOK
  <2> QED
    BY <2>3, <2>6
<1>9. CASE TakeOpen
  <2>1. /\ TakeGoesOn /\ files' = With(Fresh, Unwritten)
        /\ job'.at = "fill" /\ job'.name = Fresh /\ job'.thumb = job.thumb
    BY <1>2, <1>9, JobIs DEF TakeOpen, TakeStep
  <2>2. Fresh \in DOMAIN files'
    BY <2>1, WithStep
  <2> QED
    BY <1>2, <1>3, <1>8, <2>1, <2>2
<1>10. CASE TakeFill
  <2>1. /\ TakeGoesOn /\ files' = With(job.name, Holds) /\ job.at = "fill"
        /\ job'.at \in {"probe", "picture"} /\ job'.name = job.name /\ job'.thumb = job.thumb
        /\ job'.of = job.of
    BY <1>2, <1>10, JobIs DEF TakeFill, TakeStep
  <2>2. job.name \in DOMAIN files \ Listed
    BY <1>2, <2>1 DEF WorkOK
  <2>3. Holds' = Holds
    BY <2>1 DEF Holds, TakeGoesOn
  <2>4. job.name \in DOMAIN files' /\ files'[job.name] = Holds
    BY <2>1, WithStep
  <2> QED
    BY <1>2, <1>8, <2>1, <2>2, <2>3, <2>4
<1>11. CASE ProbedOn
  <2>1. /\ UNCHANGED <<files, fi, tmpfns, thumbs, moved, store, iat, part>> /\ job.at = "probe"
        /\ job'.at = "picture" /\ job'.name = job.name /\ job'.thumb = job.thumb
        /\ job'.of = job.of
    BY <1>2, <1>4, <1>11, JobIs DEF ProbedOn, TakeStep, TakeGoesOn
  <2>2. ListsOK' /\ Listed' = Listed
    BY <1>2, <2>1, ListsStay
  <2>3. Holds' = Holds
    BY <2>1 DEF Holds
  <2>4. WorkName' = WorkName
    BY <1>1, <1>5, <2>1
  <2>5. /\ job.name \in DOMAIN files \ Listed /\ files[job.name] = Holds
    BY <1>2, <2>1 DEF WorkOK
  <2>6. wat' = "close" \/ (wat' = "done" /\ ~werr' /\ iat' = "wait") => files'[wfn'] = <<"whole", wgot'>>
    BY <1>1, <1>4, <1>6, <2>1
  <2> QED
    BY <1>2, <2>1, <2>2, <2>3, <2>4, <2>5, <2>6 DEF WorkOK
<1>12. CASE ParkThumb
  <2>1. /\ TakeGoesOn /\ files' = With(Fresh, Unwritten) /\ job.at = "picture"
        /\ job'.at = "draw" /\ job'.name = job.name /\ job'.thumb = Fresh /\ job'.of = job.of
    BY <1>2, <1>12, JobIs DEF ParkThumb
  <2>2. job.name \in DOMAIN files \ Listed /\ files[job.name] = Holds
    BY <1>2, <2>1 DEF WorkOK
  <2>3. Holds' = Holds
    BY <2>1 DEF Holds, TakeGoesOn
  <2>4. /\ Fresh \in DOMAIN files' /\ job.name \in DOMAIN files' /\ files'[job.name] = files[job.name]
    BY <1>3, <2>1, <2>2, WithStep
  <2> QED
    BY <1>2, <1>3, <1>8, <2>1, <2>2, <2>3, <2>4
<1>13. CASE ThumbMade
  <2>1. /\ TakeGoesOn /\ files' = With(job.thumb, <<"thumb", part>>) /\ job.at = "draw"
        /\ job'.at = "drawn" /\ job'.name = job.name /\ job'.thumb = job.thumb /\ job'.of = job.of
    BY <1>2, <1>13, JobIs DEF ThumbMade, TakeStep
  <2>2. /\ job.name \in DOMAIN files \ Listed /\ files[job.name] = Holds
        /\ job.thumb \in DOMAIN files \ Listed /\ job.thumb # job.name
    BY <1>2, <2>1 DEF WorkOK
  <2>3. Holds' = Holds
    BY <2>1 DEF Holds, TakeGoesOn
  <2>4. /\ job.thumb \in DOMAIN files' /\ files'[job.thumb] = <<"thumb", part>>
        /\ job.name \in DOMAIN files' /\ files'[job.name] = files[job.name]
    <3>1. files' = With(job.thumb, <<"thumb", part>>)
      BY <2>1
    <3>2. /\ job.thumb \in DOMAIN files' /\ files'[job.thumb] = <<"thumb", part>>
          /\ \A x \in DOMAIN files : x # job.thumb => x \in DOMAIN files' /\ files'[x] = files[x]
      BY <3>1, WithStep
    <3> QED
      BY <2>2, <3>2
  <2>5. files'[job.thumb][1] = "thumb"
    BY <2>4
  <2> QED
    BY <1>2, <1>8, <2>1, <2>2, <2>3, <2>4, <2>5
<1>14. CASE NoThumb \/ Drawn
  <2>1. PICK made \in BOOLEAN :
            TakeDone(made) /\ (made => job.at = "drawn") /\ (~made => job.at \in {"probe", "picture", "draw"})
    BY <1>14 DEF NoThumb, Drawn
  <2>2. /\ tmpfns' = Append(tmpfns, job.name) /\ fi' = Append(fi, Holds) /\ job' = NoJob
        /\ iat' \in {"parts", "rest"}
    BY <2>1 DEF TakeDone, GoOn
  <2>3. /\ job.name \in DOMAIN files \ Listed /\ files[job.name] = Holds
        /\ job.name \in Nat /\ job.thumb \in Nat
        /\ made => job.thumb \in DOMAIN files \ Listed /\ job.thumb # job.name
                   /\ files[job.thumb][1] = "thumb"
        /\ job.thumb \notin Listed \cup {job.name}
    <3>1. job.at \in {"probe", "picture", "draw", "drawn"}
      BY <2>1
    <3>2. job.at \in {"probe", "picture"} => job.thumb = NoName
      BY <1>2, <1>1, ListsHere DEF PhaseOK
    <3>3. job.name \in DOMAIN files \ Listed /\ files[job.name] = Holds
      BY <1>2, <3>1 DEF WorkOK
    <3>4. job.at \in {"draw", "drawn"} => job.thumb \in DOMAIN files \ Listed /\ job.thumb # job.name
      BY <1>2 DEF WorkOK
    <3>5. job.at = "drawn" => files[job.thumb][1] = "thumb"
      BY <1>2 DEF WorkOK
    <3>6. job.thumb \notin Listed \cup {job.name}
      BY <1>2, <3>1, <3>2, <3>3, <3>4
    <3> QED
      BY <1>2, <2>1, <3>3, <3>4, <3>5, <3>6, JobIs
  <2>4. /\ \A x \in DOMAIN files : x # job.thumb => x \in DOMAIN files' /\ files'[x] = files[x]
        /\ made => files' = files
    BY <2>1, WithoutIs DEF TakeDone
  <2>5. \/ thumbs' = thumbs
        \/ made /\ thumbs' = Append(thumbs, job.thumb)
    BY <2>1 DEF TakeDone
  <2>6. \A x \in Listed : x \in DOMAIN files' /\ files'[x] = files[x]
    BY <1>2, <2>3, <2>4
  <2>7. job.name \in DOMAIN files' /\ files'[job.name] = Holds
    BY <2>3, <2>4
  <2>8. \/ thumbs' = thumbs
        \/ /\ thumbs' = Append(thumbs, job.thumb) /\ job.thumb \notin Listed /\ job.thumb # job.name
           /\ job.thumb \in DOMAIN files' /\ files'[job.thumb][1] = "thumb"
    BY <2>3, <2>4, <2>5
  <2>9. moved' = 0
    BY <1>2, <1>4
  <2>10. /\ ListsOK'
         /\ Listed' = Listed \cup {job.name} \cup (IF thumbs' = thumbs THEN {} ELSE {job.thumb})
    BY <1>1, <2>2, <2>3, <2>6, <2>7, <2>8, <2>9, ListsGrow
  <2>11. job'.at = "none" /\ job'.name = NoName /\ job'.thumb = NoName
    <3>1. NoJob.at = "none" /\ NoJob.name = NoName /\ NoJob.thumb = NoName
      BY DEF NoJob
    <3> QED
      BY <2>2, <3>1
  <2>12. WorkName' = WorkName
    BY <1>5, <2>2
  <2>13. WorkName' \subseteq DOMAIN files' \ (Listed' \cup {job'.name, job'.thumb})
    BY <1>2, <2>4, <2>10, <2>11, <2>12
  <2>14. wat' = "close" \/ (wat' = "done" /\ ~werr' /\ iat' = "wait") => files'[wfn'] = <<"whole", wgot'>>
    BY <1>2, <1>4, <1>6, <2>2, <2>4
  <2>15. WorkOK'
    BY <2>11, <2>13, <2>14 DEF WorkOK
  <2> QED
    BY <2>10, <2>15
<1> QED
  BY <1>7, <1>9, <1>10, <1>11, <1>12, <1>13, <1>14, TakeCases

LEMMA WorkerLists ==
    ASSUME ~IsFiniteSet(Names), IntakeInv, Worker, iat' \in Good
    PROVE  ListsOK' /\ WorkOK'
<1>1. UNCHANGED <<iat, fi, tmpfns, thumbs, moved, store, job, part>>
  BY WorkerFrame DEF eatVars, postVars
<1>2. wat \notin {"off", "done"} /\ PhaseOK
  BY DEF IntakeInv, Worker, WorkerOpen, WorkerCopy, WorkerClose, WorkerDrain
<1>3. iat \in Good \ {"move"}
  BY <1>1, <1>2 DEF PhaseOK, Good, Ended
<1>4. /\ ListsOK /\ WorkOK /\ JobType /\ FilesType /\ NoName \notin DOMAIN files
      /\ Listed \subseteq DOMAIN files
      /\ WorkName \subseteq DOMAIN files \ (Listed \cup {job.name, job.thumb})
      /\ {job.name, job.thumb} \subseteq DOMAIN files \cup {NoName}
  BY <1>3, ListsHere
<1>5. Fresh \in Nat \ DOMAIN files /\ Fresh # NoName
  BY <1>4, FreshIs
<1>6. Holds' = Holds
  BY <1>1 DEF Holds
<1>7. ASSUME NEW n, n \notin Listed \cup {job.name, job.thumb},
             \A x \in DOMAIN files : x # n => x \in DOMAIN files' /\ files'[x] = files[x],
             WorkName' \subseteq DOMAIN files' \cap {n},
             wat' = "close" \/ (wat' = "done" /\ ~werr' /\ iat' = "wait") =>
                 files'[wfn'] = <<"whole", wgot'>>
      PROVE  ListsOK' /\ WorkOK'
  <2>1. ListsOK' /\ Listed' = Listed
    BY <1>1, <1>4, <1>7, ListsStay
  <2>2. job.at \notin {"none", "open"} => job.name \in DOMAIN files' \ Listed
    BY <1>4, <1>7 DEF WorkOK
  <2>3. job.at \notin {"none", "open", "fill"} => files'[job.name] = Holds
    BY <1>4, <1>7 DEF WorkOK
  <2>4. job.at \in {"draw", "drawn"} => job.thumb \in DOMAIN files' \ Listed /\ job.thumb # job.name
    BY <1>4, <1>7 DEF WorkOK
  <2>5. job.at = "drawn" => files'[job.thumb][1] = "thumb"
    BY <1>4, <1>7 DEF WorkOK
  <2>6. WorkName' \subseteq DOMAIN files' \ (Listed \cup {job.name, job.thumb})
    BY <1>7
  <2> QED
    BY <1>1, <1>6, <1>7, <2>1, <2>2, <2>3, <2>4, <2>5, <2>6 DEF WorkOK
<1>8. CASE WorkerFails
  <2>1. WorkName' = {} /\ wat' = "drain" /\ files' = Without({wfn})
    BY <1>8 DEF WorkerFails, WorkerAt, WorkName
  <2>2. \A x \in DOMAIN files : x # wfn => x \in DOMAIN files' /\ files'[x] = files[x]
    BY <2>1, WithoutIs
  <2>3. CASE WorkName = {wfn}
    BY <1>4, <1>7, <2>1, <2>2, <2>3
  <2>4. CASE wfn = NoName
    <3>1. \A x \in DOMAIN files : x \in DOMAIN files' /\ files'[x] = files[x]
      BY <1>4, <2>2, <2>4
    <3>2. Fresh \notin Listed \cup {job.name, job.thumb}
      BY <1>4, <1>5
    <3> QED
      BY <1>7, <2>1, <3>1, <3>2
  <2>5. wat \in {"open", "copy", "close"}
    BY <1>2, <1>8 DEF Worker, WorkerOpen, WorkerCopy, WorkerClose, WorkerDrain, WorkerFails, WorkerAt
  <2> QED
    BY <1>2, <2>3, <2>4, <2>5 DEF WorkName, PhaseOK
<1>9. CASE WorkerOpen /\ ~WorkerFails
  <2>1. files' = With(Fresh, Unwritten) /\ WorkName' = {Fresh} /\ wat' = "copy"
    BY <1>9 DEF WorkerOpen, WorkerAt, WorkName
  <2>2. /\ Fresh \in DOMAIN files'
        /\ \A x \in DOMAIN files : x # Fresh => x \in DOMAIN files' /\ files'[x] = files[x]
    BY <2>1, WithStep
  <2>3. Fresh \notin Listed \cup {job.name, job.thumb}
    BY <1>4, <1>5
  <2> QED
    BY <1>7, <2>1, <2>2, <2>3
<1>10. CASE WorkerCopy /\ ~WorkerFails
  <2>1. WorkName = {wfn} /\ WorkName' = {wfn}
    BY <1>10 DEF WorkerCopy, WorkerAt, WorkName
  <2>2. CASE wat' = "copy" /\ files' = files
    BY <1>4, <1>7, <2>1, <2>2
  <2>3. CASE wat' = "close" /\ files' = With(wfn, <<"whole", wgot>>) /\ wfn' = wfn /\ wgot' = wgot
    <3>1. /\ wfn \in DOMAIN files' /\ files'[wfn] = <<"whole", wgot>>
          /\ \A x \in DOMAIN files : x # wfn => x \in DOMAIN files' /\ files'[x] = files[x]
      BY <2>3, WithStep
    <3> QED
      BY <1>4, <1>7, <2>1, <2>3, <3>1
  <2> QED
    BY <1>10, <2>2, <2>3 DEF WorkerCopy, WorkerAt
<1>11. CASE WorkerClose /\ ~WorkerFails
  <2>1. /\ WorkName = {wfn} /\ WorkName' \subseteq {wfn} /\ UNCHANGED <<files, wfn, wgot>>
        /\ wat = "close"
    BY <1>11 DEF WorkerClose, WorkerAt, WorkName
  <2>2. files[wfn] = <<"whole", wgot>>
    BY <1>4, <2>1 DEF WorkOK
  <2> QED
    BY <1>4, <1>7, <2>1, <2>2
<1>12. CASE WorkerDrain
  <2>1. /\ WorkName' = {} /\ files' = files /\ (wat' = "close" \/ (wat' = "done" /\ ~werr') => FALSE)
    BY <1>2, <1>12 DEF WorkerDrain, WorkerAt, WorkName, PhaseOK
  <2>2. Fresh \notin Listed \cup {job.name, job.thumb}
    BY <1>4, <1>5
  <2> QED
    BY <1>7, <2>1, <2>2
<1> QED
  BY <1>8, <1>9, <1>10, <1>11, <1>12 DEF Worker

LEMMA MoveLists ==
    ASSUME IntakeInv, MoveFile, iat' \in Good
    PROVE  ListsOK' /\ WorkOK'
<1>1. /\ iat = "move" /\ iat' = "move" /\ moved < Len(ToMove) /\ moved' = moved + 1
      /\ files' = Without({ToMove[moved + 1]}) /\ store' = store \cup {files[ToMove[moved + 1]]}
      /\ UNCHANGED <<fi, tmpfns, thumbs, job, wat, wfn, werr>>
  BY DEF MoveFile, GoOn, PostGoesOn, workVars, Good, Early, Open
<1>2. ListsOK /\ ListTypes /\ moved \in Nat /\ PhaseOK
  BY <1>1 DEF IntakeInv, IntakeTypeOK, Numbers, Good
<1> DEFINE k == Len(tmpfns)  l == Len(thumbs)  from == ToMove[moved + 1]
<1>3. /\ k \in Nat /\ l \in Nat /\ Len(ToMove) = k + l /\ Len(fi) = k
      /\ DOMAIN tmpfns = 1 .. k /\ DOMAIN thumbs = 1 .. l /\ DOMAIN fi = 1 .. k
      /\ \A i \in 1 .. k : ToMove[i] = tmpfns[i]
      /\ \A i \in 1 .. l : ToMove[k + i] = thumbs[i]
  <2>1. fi \in Seq(Told) /\ tmpfns \in Seq(Nat) /\ thumbs \in Seq(Nat) /\ Len(fi) = Len(tmpfns)
    BY <1>2 DEF ListsOK, ListTypes
  <2>2. /\ k \in Nat /\ l \in Nat /\ Len(fi) = k
        /\ DOMAIN tmpfns = 1 .. k /\ DOMAIN thumbs = 1 .. l /\ DOMAIN fi = 1 .. k
    BY <2>1
  <2>3. /\ Len(ToMove) = k + l /\ \A i \in 1 .. k : ToMove[i] = tmpfns[i]
        /\ \A i \in 1 .. l : ToMove[k + i] = thumbs[i]
    BY <2>1, ToMoveIs
  <2> QED
    BY <2>2, <2>3
<1>4. \A x \in DOMAIN files : x # from => x \in DOMAIN files' /\ files'[x] = files[x]
  BY <1>1, WithoutIs
<1>5. \/ moved + 1 \in 1 .. k /\ from = tmpfns[moved + 1]
      \/ moved + 1 > k /\ moved + 1 - k \in 1 .. l /\ from = thumbs[moved + 1 - k]
  <2>1. CASE moved + 1 <= k
    BY <1>2, <1>3, <2>1
  <2>2. CASE moved + 1 > k
    <3>1. moved + 1 - k \in 1 .. l /\ k + (moved + 1 - k) = moved + 1
      BY <1>1, <1>2, <1>3, <2>2
    <3> QED
      BY <1>3, <2>2, <3>1
  <2> QED
    BY <1>2, <1>3, <2>1, <2>2
<1> HIDE DEF k, l, from
<1>6. \A i \in 1 .. k : i > moved + 1 =>
          /\ tmpfns[i] \in DOMAIN files /\ files[tmpfns[i]] = fi[i] /\ tmpfns[i] # from
  <2> SUFFICES ASSUME NEW i \in 1 .. k, i > moved + 1
               PROVE  tmpfns[i] \in DOMAIN files /\ files[tmpfns[i]] = fi[i] /\ tmpfns[i] # from
    OBVIOUS
  <2>1. i > moved /\ i \in DOMAIN tmpfns
    BY <1>2, <1>3
  <2>2. moved + 1 \in 1 .. k /\ from = tmpfns[moved + 1]
    BY <1>2, <1>3, <1>5
  <2>3. tmpfns[i] # from
    BY <1>2, <1>3, <2>1, <2>2 DEF ListsOK
  <2> QED
    BY <1>2, <2>1, <2>3 DEF ListsOK
<1>7. \A i \in 1 .. l : k + i > moved + 1 =>
          /\ thumbs[i] \in DOMAIN files /\ files[thumbs[i]][1] = "thumb" /\ thumbs[i] # from
  <2> SUFFICES ASSUME NEW i \in 1 .. l, k + i > moved + 1
               PROVE  thumbs[i] \in DOMAIN files /\ files[thumbs[i]][1] = "thumb" /\ thumbs[i] # from
    OBVIOUS
  <2>1. k + i > moved /\ i \in DOMAIN thumbs
    BY <1>2, <1>3
  <2>2. thumbs[i] \in DOMAIN files /\ files[thumbs[i]][1] = "thumb"
    BY <1>2, <2>1 DEF ListsOK, k
  <2>3. thumbs[i] # from
    <3>1. CASE moved + 1 \in 1 .. k /\ from = tmpfns[moved + 1]
      BY <1>2, <1>3, <2>1, <3>1 DEF ListsOK
    <3>2. CASE moved + 1 > k /\ moved + 1 - k \in 1 .. l /\ from = thumbs[moved + 1 - k]
      <4>1. i # moved + 1 - k
        BY <1>2, <1>3
      <4>2. moved + 1 - k \in DOMAIN thumbs
        BY <1>3, <3>2
      <4> QED
        BY <1>2, <2>1, <3>2, <4>1, <4>2 DEF ListsOK
    <3> QED
      BY <1>5, <3>1, <3>2
  <2> QED
    BY <2>2, <2>3
<1>8. \A i \in 1 .. k : i <= moved + 1 => fi[i] \in store'
  <2> SUFFICES ASSUME NEW i \in 1 .. k, i <= moved + 1 PROVE fi[i] \in store'
    OBVIOUS
  <2>1. CASE i <= moved
    <3>1. fi[i] \in store
      BY <1>2, <1>3, <2>1 DEF ListsOK
    <3> QED
      BY <1>1, <3>1
  <2>2. CASE i = moved + 1
    <3>1. tmpfns[i] = from /\ i > moved /\ i \in DOMAIN tmpfns
      BY <1>2, <1>3, <1>5, <2>2
    <3>2. files[from] = fi[i]
      BY <1>2, <3>1 DEF ListsOK
    <3> QED
      BY <1>1, <3>2 DEF from
  <2> QED
    BY <1>2, <2>1, <2>2
<1>9. /\ \A i, j \in DOMAIN tmpfns : tmpfns[i] = tmpfns[j] => i = j
      /\ \A i, j \in DOMAIN thumbs : thumbs[i] = thumbs[j] => i = j
      /\ \A i \in DOMAIN tmpfns, j \in DOMAIN thumbs : tmpfns[i] # thumbs[j]
      /\ Len(fi) = Len(tmpfns)
  BY <1>2 DEF ListsOK
<1>10. \A i \in DOMAIN tmpfns :
          i > moved' => tmpfns[i] \in DOMAIN files' /\ files'[tmpfns[i]] = fi[i]
  BY <1>1, <1>3, <1>4, <1>6
<1>11. \A i \in DOMAIN thumbs :
          Len(tmpfns) + i > moved' => thumbs[i] \in DOMAIN files' /\ files'[thumbs[i]][1] = "thumb"
  <2>1. \A i \in 1 .. l : k + i > moved + 1 => thumbs[i] \in DOMAIN files' /\ files'[thumbs[i]][1] = "thumb"
    BY <1>4, <1>7
  <2> QED
    BY <1>1, <1>3, <2>1 DEF k
<1>12. \A i \in DOMAIN fi : i <= moved' => fi[i] \in store'
  BY <1>1, <1>3, <1>8
<1>13. ListsOK'
  BY <1>1, <1>9, <1>10, <1>11, <1>12 DEF ListsOK
<1>14. WorkOK'
  <2>1. job' = NoJob /\ wat' \in {"off", "done"}
    BY <1>1, <1>2 DEF PhaseOK, Ended
  <2>2. NoJob.at = "none"
    BY DEF NoJob
  <2>3. WorkName' = {}
    BY <1>1, <2>1 DEF WorkName
  <2> QED
    BY <1>1, <2>1, <2>2, <2>3 DEF WorkOK
<1> QED
  BY <1>13, <1>14

\* Steps that leave the lists and the files alone, with a job at most begun.
LEMMA QuietLists ==
    ASSUME IntakeInv, iat \in Good \ {"move"},
           UNCHANGED <<fi, tmpfns, thumbs, moved, store, files>>,
           job'.at \in {"none", "open"}, job'.name = NoName, job'.thumb = NoName,
           WorkName' \subseteq WorkName,
           wat' \notin {"close", "done"}
    PROVE  ListsOK' /\ WorkOK'
<1>1. /\ ListsOK /\ NoName \notin DOMAIN files
      /\ WorkName \subseteq DOMAIN files \ (Listed \cup {job.name, job.thumb})
  BY ListsHere
<1>2. ListsOK' /\ Listed' = Listed
  BY <1>1, ListsStay
<1>3. WorkName' \subseteq DOMAIN files' \ (Listed' \cup {job'.name, job'.thumb})
  BY <1>1, <1>2
<1> QED
  BY <1>2, <1>3 DEF WorkOK

LEMMA GoodStep ==
    ASSUME ~IsFiniteSet(Names), IntakeInv, IntakeStep, iat' \in Good
    PROVE  ListsOK' /\ WorkOK'
<1>1. PhaseOK /\ HeldOK /\ FilesType /\ NoName \notin DOMAIN files /\ ListTypes
  BY Nobody DEF IntakeInv, IntakeTypeOK
<1>2. Fresh \in Nat \ DOMAIN files
  BY <1>1, FreshIs
<1>3. NoJob.at = "none" /\ NoJob.name = NoName /\ NoJob.thumb = NoName
  BY DEF NoJob
<1>4. CASE CopyOpen \/ CopyArticle \/ MoveIn
  <2>1. /\ iat \in Early /\ tmpfns = <<>> /\ thumbs = <<>> /\ job = NoJob
        /\ UNCHANGED <<fi, tmpfns, thumbs, moved, store, job, wat>> /\ iat \in Good \ {"move"}
        /\ iat' # "wait"
    BY <1>1, <1>4
    DEF CopyOpen, CopyArticle, MoveIn, GoOn, Early, HeldOK, PhaseOK, eatVars, workVars, postVars, Good
  <2>2. ListsOK /\ wat = "off"
    BY <1>1, <2>1, ListsHere DEF PhaseOK
  <2>3. Listed = {}
    BY <2>1, NamedEmpty DEF Listed
  <2>4. ListsOK' /\ Listed' = Listed
    BY <2>1, <2>2, <2>3, ListsStay
  <2>5. WorkName' = {}
    BY <2>1, <2>2 DEF WorkName
  <2> QED
    BY <1>3, <2>1, <2>2, <2>4, <2>5 DEF WorkOK
<1>5. CASE EatBody \/ InnerHead \/ EatText \/ EatFile \/ EatNot \/ EatFace \/ EatRest \/ ClosePipe
  <2>1. /\ iat \in {"eat", "head", "parts", "rest", "close"}
        /\ UNCHANGED <<files, fi, tmpfns, thumbs, moved, store>>
        /\ UNCHANGED <<wfn, werr>> /\ (wat' = wat \/ wat' = "open")
    BY <1>5
    DEF EatBody, InnerHead, EatText, EatFile, EatNot, EatFace, EatRest, ClosePipe, eatVars, workVars,
        postVars
  <2>2. job'.at \in {"none", "open"} /\ job'.name = NoName /\ job'.thumb = NoName
    <3>1. job = NoJob
      BY <1>1, <2>1 DEF PhaseOK
    <3>2. CASE EatFile
      BY <1>3, <3>2 DEF EatFile, NoJob
    <3>3. CASE EatFace
      BY <1>3, <3>1, <3>3 DEF EatFace, NoJob
    <3>4. CASE job' = job
      BY <1>3, <3>1, <3>4
    <3> QED
      BY <1>5, <3>2, <3>3, <3>4
      DEF EatBody, InnerHead, EatText, EatNot, EatRest, ClosePipe, eatVars
  <2>3. wat' \notin {"close", "done"}
    BY <1>1, <2>1 DEF PhaseOK, Early, Open
  <2>4. WorkName' \subseteq WorkName
    BY <2>1, <2>3 DEF WorkName
  <2> QED
    BY <2>1, <2>2, <2>3, <2>4, QuietLists DEF Good, Early, Open
<1>6. CASE Joined
  <2>1. /\ iat = "wait" /\ wat = "done" /\ ~werr /\ iat' = "eaten" /\ wat' = wat
        /\ tmpfns' = Append(tmpfns, wfn) /\ fi' = Append(fi, <<"whole", wgot>>)
        /\ UNCHANGED <<files, thumbs, moved, job>>
    BY <1>6 DEF Joined, GoOn, Good, Early, Open, workVars, postVars
  <2>2. /\ iat \in Good \ {"move"} /\ moved = 0 /\ WorkName = {wfn} /\ job = NoJob /\ wfn \in Nat
    BY <1>1, <2>1, Nobody DEF Good, WorkName, PhaseOK, IntakeInv, IntakeTypeOK, Numbers, Early, Open, Ended
  <2>3. wfn \in DOMAIN files \ Listed /\ files[wfn] = <<"whole", wgot>> /\ Listed \subseteq DOMAIN files
    BY <2>1, <2>2, ListsHere DEF WorkOK
  <2>4. ListsOK'
    BY <2>1, <2>2, <2>3, ListsGrow
  <2>5. WorkName' = {}
    BY <2>1 DEF WorkName
  <2> QED
    BY <1>3, <2>1, <2>2, <2>4, <2>5 DEF WorkOK
<1>7. CASE Cancel \/ Cancelled \/ Cleanup \/ CommitPost \/ UndoPost
  BY <1>7 DEF Cancel, Cancelled, Cleanup, CommitPost, UndoPost, GoOn, Good, Early, Open
<1>8. CASE InsertPost
  <2>1. /\ iat = "eaten" /\ iat' = "move" /\ UNCHANGED <<files, fi, tmpfns, thumbs, moved, store, job, wat>>
    BY <1>8 DEF InsertPost, PostGoesOn, GoOn, Good, Early, Open, workVars
  <2>2. iat \in Good \ {"move"} /\ job = NoJob /\ wat \in {"off", "done"}
    BY <1>1, <2>1 DEF Good, PhaseOK, Ended
  <2>3. ListsOK' /\ Listed' = Listed
    BY <2>1, <2>2, ListsHere, ListsStay
  <2>4. WorkName' = {}
    BY <2>1, <2>2 DEF WorkName
  <2> QED
    BY <1>3, <2>1, <2>2, <2>3, <2>4 DEF WorkOK
<1>9. CASE UNCHANGED intakeVars
  <2>1. ListsOK /\ WorkOK
    BY <1>9 DEF IntakeInv, intakeVars
  <2> QED
    BY <1>9, <2>1
    DEF intakeVars, eatVars, workVars, postVars, ListsOK, WorkOK, Listed, WorkName, Holds
<1> QED
  BY <1>4, <1>5, <1>6, <1>7, <1>8, <1>9, TakeLists, WorkerLists, MoveLists DEF IntakeStep, Taking

\* What has failed stays failed.
LEMMA NoWayBack ==
    ASSUME IntakeStep, iat' \in Good \ {"move"}
    PROVE  iat \in Good \ {"move"}
<1>1. CASE CopyOpen \/ CopyArticle \/ MoveIn \/ EatBody \/ InnerHead \/ EatText \/ EatFile \/ EatNot
           \/ EatFace \/ EatRest \/ ClosePipe \/ Joined
  BY <1>1
  DEF CopyOpen, CopyArticle, MoveIn, EatBody, InnerHead, EatText, EatFile, EatNot, EatFace, EatRest,
      ClosePipe, Joined, Good, Early, Open
<1>2. CASE Cancel \/ Cancelled \/ Cleanup \/ InsertPost \/ MoveFile \/ CommitPost \/ UndoPost
  BY <1>2
  DEF Cancel, Cancelled, Cleanup, InsertPost, MoveFile, CommitPost, UndoPost, GoOn, Good, Early, Open
<1>3. CASE takeInFile
  BY <1>3, TakeCases DEF TakeFrame, Good, Open
<1>4. CASE Worker
  BY <1>4, WorkerFrame
<1>5. CASE UNCHANGED intakeVars
  BY <1>5 DEF intakeVars
<1> QED
  BY <1>1, <1>2, <1>3, <1>4, <1>5 DEF IntakeStep, Taking

-----------------------------------------------------------------------------
(***************************************************************************)
(* What is said of the parts.                                              *)
(***************************************************************************)

\* While nothing has failed and nothing is moved.
LEMMA EatenIs ==
    ASSUME IntakeInv, iat \in Good \ {"move"}
    PROVE  /\ PipeOK /\ PartOK /\ LayoutOK /\ TextOK /\ PhaseOK /\ PlaceTypes /\ ListTypes /\ JobType
           /\ part \in Nat \ {0} /\ text \in Nat /\ textAt \in Nat /\ wgot \in Nat
           /\ Len(body.parts) \in Nat /\ DOMAIN body.parts = 1 .. Len(body.parts)
           /\ Len(fi) \in Nat /\ DOMAIN fi = 1 .. Len(fi)
           /\ DOMAIN layout = 1 .. Len(layout) /\ Len(layout) \in Nat
           /\ body.inner \in BOOLEAN /\ body.tail \in BOOLEAN
<1>1. PipeOK /\ PartOK /\ LayoutOK /\ TextOK /\ PhaseOK /\ PlaceTypes /\ ListTypes /\ JobType
  BY DEF IntakeInv, IntakeTypeOK
<1>2. part \in Nat \ {0} /\ text \in Nat /\ textAt \in Nat /\ wgot \in Nat /\ body \in Bodies
  BY DEF IntakeInv, IntakeTypeOK, Numbers
<1>3. /\ Len(body.parts) \in Nat /\ DOMAIN body.parts = 1 .. Len(body.parts)
      /\ body.inner \in BOOLEAN /\ body.tail \in BOOLEAN
  BY <1>2, BodyIs
<1>4. /\ Len(fi) \in Nat /\ DOMAIN fi = 1 .. Len(fi)
      /\ DOMAIN layout = 1 .. Len(layout) /\ Len(layout) \in Nat
  BY <1>1 DEF ListTypes
<1> QED
  BY <1>1, <1>2, <1>3, <1>4

Eaten == PartOK /\ LayoutOK /\ TextOK

\* The next part has been eaten, as text or as a file.
LEMMA PartEaten ==
    ASSUME IntakeInv, iat \in {"parts", "take"}, iat = "take" => job.of = "part",
           part <= Len(body.parts), iat' = "parts", part' = part + 1, body' = body,
           NEW n \in Nat, layout' = Append(layout, n),
           \/ n = 0 /\ fi' = fi /\ text = 0 /\ text' = part /\ textAt' = textAt
           \/ /\ n = Len(fi) + 1 /\ fi' = Append(fi, <<"part", part>>)
              /\ UNCHANGED <<text, textAt>>
    PROVE  Eaten'
<1>1. /\ PartOK /\ LayoutOK /\ TextOK /\ ListTypes
      /\ part \in Nat \ {0} /\ text \in Nat /\ textAt \in Nat
      /\ Len(body.parts) \in Nat
      /\ Len(fi) \in Nat /\ DOMAIN fi = 1 .. Len(fi)
      /\ DOMAIN layout = 1 .. Len(layout) /\ Len(layout) \in Nat
  BY EatenIs DEF Good, Open
<1>2. /\ Len(layout) = part - 1
      /\ \A p \in 1 .. Len(layout) :
            IF layout[p] = 0 THEN text = p
            ELSE layout[p] \in DOMAIN fi /\ fi[layout[p]] = <<"part", p>>
  BY <1>1 DEF LayoutOK
<1>3. /\ Len(layout') = part /\ DOMAIN layout' = 1 .. part /\ layout'[part] = n
      /\ \A p \in 1 .. part - 1 : layout'[p] = layout[p]
  BY <1>1, <1>2, AppendIs DEF ListTypes
<1>4. \/ fi' = fi
      \/ /\ DOMAIN fi' = 1 .. Len(fi) + 1 /\ fi'[Len(fi) + 1] = <<"part", part>>
         /\ \A i \in 1 .. Len(fi) : fi'[i] = fi[i]
  <2>1. CASE fi' = Append(fi, <<"part", part>>)
    <3>1. /\ DOMAIN Append(fi, <<"part", part>>) = 1 .. Len(fi) + 1
          /\ Append(fi, <<"part", part>>)[Len(fi) + 1] = <<"part", part>>
          /\ \A i \in 1 .. Len(fi) : Append(fi, <<"part", part>>)[i] = fi[i]
      BY <1>1, AppendIs DEF ListTypes
    <3> QED
      BY <2>1, <3>1
  <2> QED
    BY <2>1
<1>5. \A i \in DOMAIN fi : i \in DOMAIN fi' /\ fi'[i] = fi[i]
  BY <1>1, <1>4
<1>6. PartOK'
  BY <1>1 DEF PartOK, Early
<1>7. \A p \in 1 .. part : IF layout'[p] = 0 THEN text' = p
                           ELSE layout'[p] \in DOMAIN fi' /\ fi'[layout'[p]] = <<"part", p>>
  <2> SUFFICES ASSUME NEW p \in 1 .. part
               PROVE  IF layout'[p] = 0 THEN text' = p
                      ELSE layout'[p] \in DOMAIN fi' /\ fi'[layout'[p]] = <<"part", p>>
    OBVIOUS
  <2>1. CASE p = part
    <3>1. CASE n = 0 /\ text' = part
      BY <1>3, <2>1, <3>1
    <3>2. CASE n = Len(fi) + 1 /\ fi' = Append(fi, <<"part", part>>)
      <4>1. n \in DOMAIN fi' /\ fi'[n] = <<"part", part>> /\ n # 0
        <5>1. /\ DOMAIN Append(fi, <<"part", part>>) = 1 .. Len(fi) + 1
              /\ Append(fi, <<"part", part>>)[Len(fi) + 1] = <<"part", part>>
          BY <1>1, AppendIs DEF ListTypes
        <5>2. Len(fi) + 1 \in 1 .. Len(fi) + 1 /\ Len(fi) + 1 # 0
          BY <1>1
        <5> QED
          BY <3>2, <5>1, <5>2
      <4> QED
        BY <1>3, <2>1, <4>1
    <3> QED
      BY <3>1, <3>2
  <2>2. CASE p \in 1 .. part - 1
    <3>1. layout'[p] = layout[p] /\ p \in 1 .. Len(layout) /\ p # 0
      BY <1>1, <1>2, <1>3, <2>2
    <3>2. CASE layout[p] = 0
      BY <1>2, <3>1, <3>2
    <3>3. CASE layout[p] # 0
      BY <1>2, <1>5, <3>1, <3>3
    <3> QED
      BY <3>2, <3>3
  <2>3. p = part \/ p \in 1 .. part - 1
    BY <1>1
  <2> QED
    BY <2>1, <2>2, <2>3
<1>8. LayoutOK'
  BY <1>1, <1>3, <1>7 DEF LayoutOK
<1>9. TextOK'
  <2>1. text' < part'
    BY <1>1 DEF TextOK
  <2>2. ASSUME textAt' # 0
        PROVE  /\ text' # 0 /\ body.parts[text'] = "long"
               /\ textAt' \in DOMAIN fi' /\ fi'[textAt'] = <<"part", text'>>
    <3>1. textAt' = textAt /\ text # 0 /\ text' = text
      BY <1>1, <2>2 DEF TextOK
    <3>2. body.parts[text] = "long"
      BY <1>1, <2>2, <3>1 DEF TextOK
    <3>3. CASE textAt \in DOMAIN fi /\ fi[textAt] = <<"part", text>>
      BY <1>5, <3>1, <3>2, <3>3
    <3>4. CASE text = part /\ textAt = Len(fi) + 1
      <4>1. fi' = Append(fi, <<"part", part>>)
        BY <3>1
      <4>2. /\ DOMAIN Append(fi, <<"part", part>>) = 1 .. Len(fi) + 1
            /\ Append(fi, <<"part", part>>)[Len(fi) + 1] = <<"part", part>>
        BY <1>1, AppendIs DEF ListTypes
      <4>a. Len(fi) + 1 \in 1 .. Len(fi) + 1
        BY <1>1
      <4>3. textAt \in DOMAIN fi' /\ fi'[textAt] = <<"part", text>>
        BY <3>4, <4>1, <4>2, <4>a
      <4> QED
        BY <3>1, <3>2, <4>3
    <3> QED
      BY <1>1, <2>2, <3>1, <3>3, <3>4 DEF TextOK
  <2> QED
    BY <2>1, <2>2 DEF TextOK
<1> QED
  BY <1>6, <1>8, <1>9 DEF Eaten

\* Another file is described; the parts are as they were.
LEMMA FaceEaten ==
    ASSUME IntakeInv, iat = "take", job.of = "face", iat' = "rest", NEW h,
           fi' = Append(fi, h), UNCHANGED <<body, part, text, textAt, layout>>
    PROVE  Eaten'
<1>1. /\ PartOK /\ LayoutOK /\ TextOK /\ ListTypes /\ part \in Nat \ {0} /\ text \in Nat
      /\ Len(fi) \in Nat /\ DOMAIN fi = 1 .. Len(fi)
  BY EatenIs DEF Good, Open
<1>2. \A i \in DOMAIN fi : i \in DOMAIN fi' /\ fi'[i] = fi[i]
  BY <1>1, AppendIs DEF ListTypes
<1>3. PartOK'
  BY <1>1 DEF PartOK, Early
<1>4. LayoutOK'
  BY <1>1, <1>2 DEF LayoutOK
<1>5. TextOK'
  BY <1>1, <1>2 DEF TextOK
<1> QED
  BY <1>3, <1>4, <1>5 DEF Eaten

\* A step within the same part.
LEMMA SamePart ==
    ASSUME IntakeInv, iat \in Good \ {"move"},
           UNCHANGED <<body, part, text, textAt, fi, layout>>, PartOK',
           iat' = "eaten" => ~body.inner, iat # "eaten",
           iat = "take" /\ job.of = "part" => iat' = "take" /\ job'.of = "part"
    PROVE  Eaten'
<1>1. LayoutOK /\ TextOK
  BY EatenIs
<1>2. LayoutOK'
  BY <1>1 DEF LayoutOK
<1>3. TextOK'
  BY <1>1 DEF TextOK
<1> QED
  BY <1>2, <1>3 DEF Eaten

LEMMA PartsStep ==
    ASSUME IntakeInv, IntakeStep, iat' \in Good \ {"move"}
    PROVE  Eaten'
<1>1. CASE iat \in Good \ {"move"}
  <2>1. /\ PartOK /\ LayoutOK /\ TextOK /\ PhaseOK /\ ListTypes /\ JobType
        /\ part \in Nat \ {0} /\ text \in Nat /\ textAt \in Nat
        /\ Len(body.parts) \in Nat /\ Len(fi) \in Nat /\ DOMAIN fi = 1 .. Len(fi)
        /\ body.inner \in BOOLEAN
    BY <1>1, EatenIs
  <2>2. CASE CopyOpen \/ CopyArticle \/ MoveIn
    <3>1. /\ UNCHANGED <<body, part, text, textAt, fi, layout, wat>> /\ iat \in Early /\ iat' \in Early
      BY <2>2 DEF CopyOpen, CopyArticle, MoveIn, GoOn, eatVars, workVars, Early, Good, Open
    <3>2. PartOK'
      BY <2>1, <3>1 DEF PartOK, Early
    <3> QED
      BY <1>1, <3>1, <3>2, SamePart DEF Early
  <2>3. CASE EatBody \/ InnerHead \/ ClosePipe
    <3>1. /\ UNCHANGED <<body, part, text, textAt, fi, layout>>
          /\ \/ iat = "eat" /\ iat' \in {"head", "parts"}
             \/ iat = "head" /\ iat' = "parts"
             \/ iat = "close" /\ iat' = "wait"
      BY <2>3 DEF EatBody, InnerHead, ClosePipe, EatFails, GoOn, eatVars, Good, Early, Open
    <3>2. PartOK'
      BY <2>1, <3>1 DEF PartOK, Early
    <3> QED
      BY <1>1, <3>1, <3>2, SamePart
  <2>4. CASE EatText
    <3>1. /\ iat = "parts" /\ iat' = "parts" /\ part <= Len(body.parts) /\ text = 0
          /\ text' = part /\ layout' = Append(layout, 0) /\ part' = part + 1
          /\ UNCHANGED <<body, fi, textAt>>
      BY <2>4 DEF EatText, Textual
    <3> QED
      BY <3>1, PartEaten
  <2>5. CASE EatFile
    <3>1. /\ iat = "parts" /\ iat' = "take" /\ part <= Len(body.parts)
          /\ UNCHANGED <<body, fi, layout, part>>
      BY <2>5 DEF EatFile, GoOn
    <3>2. job'.of = "part"
      BY <2>5 DEF EatFile, NoJob
    <3>3. PartOK'
      BY <2>1, <3>1, <3>2 DEF PartOK, Early
    <3>4. /\ Len(layout) = part - 1
          /\ \A p \in DOMAIN layout :
                IF layout[p] = 0 THEN text = p
                ELSE layout[p] \in DOMAIN fi /\ fi[layout[p]] = <<"part", p>>
      BY <2>1, <3>1 DEF LayoutOK
    <3>5. DOMAIN layout = 1 .. part - 1
      BY <2>1, <3>4 DEF ListTypes
    <3>6. \A p \in DOMAIN layout : layout[p] = 0 => text' = p
      <4>1. CASE Textual
        <5>1. text = 0
          BY <4>1 DEF Textual
        <5> QED
          BY <2>1, <3>4, <3>5, <5>1
      <4>2. CASE ~Textual
        <5>1. text' = text
          BY <2>5, <4>2 DEF EatFile
        <5> QED
          BY <3>4, <5>1
      <4> QED
        BY <4>1, <4>2
    <3>7. LayoutOK'
      BY <3>1, <3>4, <3>6 DEF LayoutOK
    <3>8. TextOK'
      <4>1. CASE Textual /\ body.parts[part] = "long"
        <5>1. text' = part /\ textAt' = Len(fi) + 1
          BY <2>5, <4>1 DEF EatFile
        <5> QED
          BY <2>1, <3>1, <3>2, <4>1, <5>1 DEF TextOK
      <4>2. CASE Textual /\ body.parts[part] # "long"
        <5>1. text' = part /\ textAt' = textAt /\ text = 0
          BY <2>5, <4>2 DEF EatFile, Textual
        <5>2. textAt = 0
          BY <2>1, <5>1 DEF TextOK
        <5> QED
          BY <2>1, <3>1, <3>2, <5>1, <5>2 DEF TextOK
      <4>3. CASE ~Textual
        <5>1. text' = text /\ textAt' = textAt
          BY <2>5, <4>3 DEF EatFile
        <5> QED
          BY <2>1, <3>1, <3>2, <5>1 DEF TextOK
      <4> QED
        BY <4>1, <4>2, <4>3
    <3> QED
      BY <3>3, <3>7, <3>8 DEF Eaten
  <2>6. CASE EatFace
    <3>1. /\ UNCHANGED <<body, part, text, textAt, fi, layout>> /\ iat = "parts"
          /\ part > Len(body.parts)
          /\ iat' = "rest" \/ (iat' = "take" /\ job' = [NoJob EXCEPT !.at = "open", !.of = "face", !.nothumb = TRUE])
      BY <2>6 DEF EatFace, GoOn
    <3>2. iat' = "take" => job'.of = "face"
      BY <3>1 DEF NoJob
    <3>3. PartOK'
      BY <2>1, <3>1, <3>2 DEF PartOK, Early
    <3> QED
      BY <1>1, <3>1, <3>3, SamePart
  <2>7. CASE takeInFile
    <3>1. iat = "take" /\ UNCHANGED body
      BY <2>7, TakeCases DEF TakeFrame
    <3>2. CASE TakeFails
      BY <3>2 DEF TakeFails, EatFails, GoOn, Good, Early, Open
    <3>3. CASE TakeOpen \/ TakeFill \/ ProbedOn \/ ParkThumb \/ ThumbMade
      <4>1. UNCHANGED <<part, text, textAt, fi, layout, iat>>
        BY <3>3 DEF TakeOpen, TakeFill, ProbedOn, ParkThumb, ThumbMade, TakeGoesOn
      <4>2. job'.of = job.of
        BY <2>1, <3>3, JobIs DEF TakeOpen, TakeFill, ProbedOn, ParkThumb, ThumbMade, TakeStep
      <4>3. PartOK'
        BY <2>1, <3>1, <4>1, <4>2 DEF PartOK, Early
      <4> QED
        BY <1>1, <3>1, <4>1, <4>2, <4>3, SamePart
    <3>4. CASE NoThumb \/ Drawn
      <4>1. PICK made \in BOOLEAN : TakeDone(made)
        BY <3>4 DEF NoThumb, Drawn
      <4>2. job.of \in {"part", "face"}
        BY <2>1, <3>1 DEF PhaseOK
      <4>3. CASE job.of = "part"
        <5>1. /\ fi' = Append(fi, <<"part", part>>) /\ layout' = Append(layout, Len(fi) + 1)
              /\ part' = part + 1 /\ iat' = "parts" /\ UNCHANGED <<text, textAt>>
          BY <4>1, <4>3 DEF TakeDone, Holds, GoOn
        <5>2. part <= Len(body.parts) /\ Len(fi) + 1 \in Nat
          BY <2>1, <3>1, <4>3 DEF PartOK
        <5> QED
          BY <3>1, <4>3, <5>1, <5>2, PartEaten
      <4>4. CASE job.of = "face"
        <5>1. /\ fi' = Append(fi, Holds) /\ iat' = "rest" /\ UNCHANGED <<part, layout, text, textAt>>
          BY <4>1, <4>4 DEF TakeDone, GoOn
        <5> QED
          BY <3>1, <4>4, <5>1, FaceEaten
      <4> QED
        BY <4>2, <4>3, <4>4
    <3> QED
      BY <2>7, <3>2, <3>3, <3>4, TakeCases
  <2>8. CASE EatRest
    <3>1. /\ UNCHANGED <<body, part, text, textAt, fi, layout, wat>> /\ iat = "rest"
          /\ \/ iat' = "eaten" /\ ~body.inner
             \/ iat' = "close" /\ body.inner /\ body.tail
             \/ iat' = "wait" /\ body.inner
      BY <2>8 DEF EatRest, GoOn, eatVars
    <3>2. ~body.inner => wat = "off"
      BY <2>1, <3>1 DEF PhaseOK, Open
    <3>3. PartOK'
      BY <2>1, <3>1, <3>2 DEF PartOK, Early
    <3> QED
      BY <1>1, <3>1, <3>3, SamePart
  <2>9. CASE Joined
    <3>1. /\ iat = "wait" /\ wat = "done" /\ ~werr /\ iat' = "eaten" /\ wat' = "done"
          /\ fi' = Append(fi, <<"whole", wgot>>) /\ layout' = <<Len(fi) + 1>>
          /\ UNCHANGED <<body, part, text, textAt>>
      BY <2>9 DEF Joined, GoOn, Good, Early, Open, workVars
    <3>2. body.inner /\ wgot = Pieces
      BY <1>1, <2>1, <3>1, EatenIs DEF PhaseOK, PipeOK
    <3>3. PartOK'
      BY <2>1, <3>1, <3>2 DEF PartOK, Early
    <3>4. /\ DOMAIN fi' = 1 .. Len(fi) + 1 /\ fi'[Len(fi) + 1] = <<"whole", wgot>>
          /\ \A i \in 1 .. Len(fi) : fi'[i] = fi[i]
      <4>1. /\ DOMAIN Append(fi, <<"whole", wgot>>) = 1 .. Len(fi) + 1
            /\ Append(fi, <<"whole", wgot>>)[Len(fi) + 1] = <<"whole", wgot>>
            /\ \A i \in 1 .. Len(fi) : Append(fi, <<"whole", wgot>>)[i] = fi[i]
        BY <2>1, AppendIs DEF ListTypes
      <4> QED
        BY <3>1, <4>1
    <3>5. Pieces' = Pieces
      BY <3>1 DEF Pieces
    <3>6. LayoutOK'
      <4>1. Len(layout') = 1 /\ layout'[1] = Len(fi) + 1
        BY <3>1
      <4>2. layout'[1] \in DOMAIN fi' /\ fi'[layout'[1]] = <<"whole", Pieces'>>
        BY <2>1, <3>2, <3>4, <3>5, <4>1
      <4> QED
        BY <3>1, <3>2, <4>1, <4>2 DEF LayoutOK
    <3>7. TextOK'
      <4>1. text < part
        BY <2>1, <3>1 DEF TextOK
      <4>2. textAt # 0 => /\ text # 0 /\ body.parts[text] = "long"
                          /\ textAt \in DOMAIN fi /\ fi[textAt] = <<"part", text>>
        BY <2>1, <3>1 DEF TextOK
      <4>3. textAt # 0 => textAt \in DOMAIN fi' /\ fi'[textAt] = fi[textAt]
        BY <2>1, <3>4, <4>2
      <4> QED
        BY <3>1, <4>1, <4>2, <4>3 DEF TextOK
    <3> QED
      BY <3>3, <3>6, <3>7 DEF Eaten
  <2>10. CASE EatNot \/ Cancel \/ Cancelled \/ Cleanup \/ InsertPost \/ MoveFile \/ CommitPost \/ UndoPost
    BY <1>1, <2>10
    DEF EatNot, EatFails, Cancel, Cancelled, Cleanup, InsertPost, MoveFile, CommitPost, UndoPost, GoOn,
        Good, Early, Open
  <2>11. CASE Worker
    <3>1. UNCHANGED <<body, part, text, textAt, fi, layout, iat, job>>
      BY <2>11, WorkerFrame DEF eatVars
    <3>2. wat \notin {"off", "done"}
      BY <2>11 DEF Worker, WorkerOpen, WorkerCopy, WorkerClose, WorkerDrain
    <3>3. iat # "eaten"
      BY <2>1, <3>2 DEF PhaseOK, Ended
    <3>4. PartOK'
      BY <2>1, <3>1, <3>3 DEF PartOK
    <3> QED
      BY <1>1, <3>1, <3>3, <3>4, SamePart
  <2>12. CASE UNCHANGED intakeVars
    BY <2>1, <2>12
    DEF intakeVars, eatVars, workVars, postVars, Eaten, PartOK, LayoutOK, TextOK, Pieces
  <2> QED
    BY <2>2, <2>3, <2>4, <2>5, <2>6, <2>7, <2>8, <2>9, <2>10, <2>11, <2>12 DEF IntakeStep, Taking
<1>2. CASE iat \notin Good \ {"move"}
  BY <1>2, NoWayBack
<1> QED
  BY <1>1, <1>2

LEMMA PipeStep ==
    ASSUME IntakeInv, IntakeStep, iat' \in Good \ {"move"}
    PROVE  PipeOK'
<1>1. iat \in Good \ {"move"}
  BY NoWayBack
<1>2. /\ PipeOK /\ PartOK /\ PhaseOK /\ JobType /\ PlaceTypes
      /\ part \in Nat \ {0} /\ wgot \in Nat /\ Len(body.parts) \in Nat
      /\ body.inner \in BOOLEAN /\ body.tail \in BOOLEAN
  BY <1>1, EatenIs
<1>3. Pieces = 1 + Len(body.parts) + (IF body.tail THEN 1 ELSE 0) /\ (body' = body => Pieces' = Pieces)
  BY DEF Pieces
<1>4. CASE CopyOpen \/ CopyArticle \/ MoveIn
  BY <1>4 DEF CopyOpen, CopyArticle, MoveIn, GoOn, PipeOK, Open, Good, Early
<1>5. CASE EatBody
  BY <1>2, <1>5 DEF EatBody, GoOn, eatVars, PipeOK, Handed, PhaseOK, Early, Open
<1>6. CASE InnerHead
  BY <1>2, <1>6
  DEF InnerHead, Hand, EatFails, GoOn, Unblocked, eatVars, PipeOK, PartOK, Handed, PhaseOK, Early, Open, Good
<1>7. CASE EatText
  <2>1. body.inner => iat = "parts" /\ iat' = "parts" /\ pipe # "full" /\ pipe' = "full" /\ part' = part + 1
    BY <1>7 DEF EatText, Unblocked, Hand
  <2> QED
    BY <1>2, <1>7, <2>1 DEF EatText, PipeOK, Handed, Open
<1>8. CASE EatFile
  <2>1. body.inner => iat = "parts" /\ iat' = "take" /\ pipe # "full" /\ pipe' = "full" /\ part' = part
    BY <1>8 DEF EatFile, Unblocked, Hand, GoOn
  <2>2. job'.of = "part"
    BY <1>8 DEF EatFile, NoJob
  <2> QED
    BY <1>2, <1>8, <2>1, <2>2 DEF EatFile, GoOn, PipeOK, Handed, Open
<1>9. CASE EatFace
  <2>1. /\ iat = "parts" /\ UNCHANGED <<body, part, pipe, wgot, werr>>
        /\ iat' = "rest" \/ (iat' = "take" /\ job' = [NoJob EXCEPT !.at = "open", !.of = "face", !.nothumb = TRUE])
    BY <1>9 DEF EatFace, GoOn, workVars
  <2>2. iat' = "take" => job'.of = "face"
    BY <2>1 DEF NoJob
  <2> QED
    BY <1>2, <2>1, <2>2 DEF PipeOK, Handed, Open
<1>10. CASE takeInFile
  <2>1. iat = "take" /\ UNCHANGED <<body, pipe, wgot, werr>>
    BY <1>10, TakeCases DEF TakeFrame, workVars
  <2>2. CASE TakeFails
    BY <2>2 DEF TakeFails, EatFails, GoOn, Good, Early, Open
  <2>3. CASE TakeOpen \/ TakeFill \/ ProbedOn \/ ParkThumb \/ ThumbMade
    <3>1. UNCHANGED <<part, iat>>
      BY <2>3 DEF TakeOpen, TakeFill, ProbedOn, ParkThumb, ThumbMade, TakeGoesOn
    <3>2. job'.of = job.of
      BY <1>2, <2>3, JobIs DEF TakeOpen, TakeFill, ProbedOn, ParkThumb, ThumbMade, TakeStep
    <3> QED
      BY <1>2, <2>1, <3>1, <3>2 DEF PipeOK, Handed
  <2>4. CASE NoThumb \/ Drawn
    <3>1. IF job.of = "part" THEN iat' = "parts" /\ part' = part + 1 ELSE iat' = "rest" /\ part' = part
      BY <2>4 DEF NoThumb, Drawn, TakeDone, GoOn
    <3> QED
      BY <1>2, <2>1, <3>1 DEF PipeOK, Handed, Open
  <2> QED
    BY <1>10, <2>2, <2>3, <2>4, TakeCases
<1>11. CASE EatRest
  <2>1. /\ iat = "rest" /\ pipe # "full" /\ UNCHANGED <<body, part, wgot, werr>>
        /\ \/ iat' = "eaten" /\ ~body.inner
           \/ iat' = "close" /\ body.inner /\ body.tail /\ pipe' = "full"
           \/ iat' = "wait" /\ body.inner /\ ~body.tail
    BY <1>2, <1>11 DEF EatRest, Hand, GoOn, Unblocked, eatVars
  <2>2. part = Len(body.parts) + 1
    BY <1>2, <2>1 DEF PartOK
  <2>3. body.inner /\ ~werr => part = wgot
    BY <1>2, <2>1 DEF PipeOK, Handed, Open
  <2>4. CASE iat' = "eaten" /\ ~body.inner
    BY <2>1, <2>4 DEF PipeOK, Open
  <2>5. CASE iat' = "close" /\ body.inner /\ body.tail /\ pipe' = "full"
    BY <1>2, <2>1, <2>3, <2>5 DEF PipeOK, Handed, Open
  <2>6. CASE iat' = "wait" /\ body.inner /\ ~body.tail
    <3>1. Pieces' = 1 + Len(body.parts)
      BY <1>3, <2>1, <2>6
    <3>2. ~werr => wgot = 1 + Len(body.parts)
      BY <1>2, <2>2, <2>3, <2>6
    <3> QED
      BY <2>1, <2>6, <3>1, <3>2 DEF PipeOK, Open
  <2> QED
    BY <2>1, <2>4, <2>5, <2>6
<1>12. CASE ClosePipe
  <2>1. iat = "close" /\ iat' = "wait" /\ pipe # "full" /\ UNCHANGED <<body, part, wgot, werr>>
    BY <1>12 DEF ClosePipe, GoOn, Unblocked, eatVars
  <2>2. part = Len(body.parts) + 1 /\ body.tail /\ body.inner
    BY <1>2, <2>1 DEF PartOK, PhaseOK
  <2>3. ~werr => part + 1 = wgot
    BY <1>2, <2>1, <2>2 DEF PipeOK, Handed, Open
  <2> QED
    BY <1>2, <1>3, <2>1, <2>2, <2>3 DEF PipeOK, Open
<1>13. CASE Joined
  BY <1>13 DEF Joined, GoOn, PipeOK, Open, Good, Early
<1>14. CASE EatNot \/ Cancel \/ Cancelled \/ Cleanup \/ InsertPost \/ MoveFile \/ CommitPost \/ UndoPost
  BY <1>1, <1>14
  DEF EatNot, EatFails, Cancel, Cancelled, Cleanup, InsertPost, MoveFile, CommitPost, UndoPost, GoOn,
      Good, Early, Open
<1>15. CASE Worker
  <2>1. UNCHANGED <<body, iat, job, part>>
    BY <1>15, WorkerFrame DEF eatVars
  <2>2. \/ werr'
        \/ UNCHANGED <<pipe, wgot, werr>>
        \/ pipe = "full" /\ pipe' = "empty" /\ wgot' = wgot + 1 /\ werr' = werr
        \/ wat = "drain" /\ werr' = werr
    BY <1>15 DEF Worker, WorkerOpen, WorkerCopy, WorkerClose, WorkerDrain, WorkerFails, WorkerAt
  <2>3. wat = "drain" => werr
    BY <1>2 DEF PhaseOK
  <2>4. iat = "wait" => pipe = "eof"
    BY <1>2 DEF PhaseOK
  <2>5. Handed' = Handed
    BY <2>1 DEF Handed
  <2>6. Handed \in Nat
    BY <1>2 DEF Handed
  <2>7. CASE werr'
    BY <2>7 DEF PipeOK
  <2>8. CASE UNCHANGED <<pipe, wgot, werr>>
    BY <1>2, <1>3, <2>1, <2>5, <2>8 DEF PipeOK
  <2>9. CASE pipe = "full" /\ pipe' = "empty" /\ wgot' = wgot + 1 /\ werr' = werr
    <3>1. iat # "wait"
      BY <2>4, <2>9
    <3>2. body.inner /\ ~werr /\ iat \in Open \ {"cancel"} => Handed = wgot + 1
      BY <1>2, <2>9 DEF PipeOK
    <3> QED
      BY <2>1, <2>5, <2>9, <3>1, <3>2 DEF PipeOK
  <2> QED
    BY <2>2, <2>3, <2>7, <2>8, <2>9
<1>16. CASE UNCHANGED intakeVars
  BY <1>2, <1>3, <1>16 DEF intakeVars, eatVars, workVars, PipeOK, Handed
<1> QED
  BY <1>4, <1>5, <1>6, <1>7, <1>8, <1>9, <1>10, <1>11, <1>12, <1>13, <1>14, <1>15, <1>16
  DEF IntakeStep, Taking

-----------------------------------------------------------------------------
(***************************************************************************)
(* The theorems.                                                           *)
(***************************************************************************)

\* A post that is committed has all its files: all were moved.
LEMMA RowStep ==
    ASSUME IntakeInv, IntakeStep
    PROVE  (row => Range(fi) \subseteq store)'
<1>1. CASE CommitPost /\ row'
  <2>1. /\ iat = "move" /\ moved = Len(ToMove) /\ UNCHANGED <<fi, store>>
    BY <1>1 DEF CommitPost, eatVars
  <2>2. ListsOK /\ ListTypes
    BY <2>1 DEF IntakeInv, IntakeTypeOK, Good
  <2>3. \A i \in DOMAIN fi : i <= moved
    BY <2>1, <2>2, ToMoveIs DEF ListsOK, ListTypes
  <2>4. \A i \in DOMAIN fi : fi[i] \in store
    BY <2>2, <2>3 DEF ListsOK
  <2> QED
    BY <2>1, <2>4 DEF Range
<1>2. CASE row' => row /\ UNCHANGED <<fi, store>>
  BY <1>2 DEF IntakeInv
<1>3. CASE ~CommitPost
  <2>1. row => iat = "accepted" /\ wat \in {"off", "done"}
    BY DEF IntakeInv, PhaseOK, Ended
  <2>2. row' => row
    BY <1>3, TakeCases, WorkerFrame
    DEF IntakeStep, Taking, CopyOpen, CopyArticle, MoveIn, EatBody, InnerHead, EatText, EatFile,
        EatNot, EatFace, TakeFrame, EatRest, ClosePipe, Joined, Cancel, Cancelled, Cleanup,
        InsertPost, MoveFile, UndoPost, PostGoesOn, intakeVars, postVars
  <2>3. iat = "accepted" => UNCHANGED <<fi, store>>
    BY <1>3, TakeCases, WorkerFrame
    DEF IntakeStep, Taking, CopyOpen, CopyArticle, MoveIn, EatBody, InnerHead, EatText, EatFile,
        EatNot, EatFace, TakeFrame, EatRest, ClosePipe, Joined, Cancel, Cancelled, Cleanup,
        InsertPost, MoveFile, UndoPost, intakeVars, eatVars, postVars
  <2> QED
    BY <1>2, <2>1, <2>2, <2>3
<1> QED
  BY <1>1, <1>2, <1>3

\* At first nothing is eaten and nothing is there.
LEMMA IntakeInitInv == IntakeInit => IntakeInv
<1> SUFFICES ASSUME IntakeInit PROVE IntakeInv
  OBVIOUS
<1>1. /\ body \in Bodies /\ iat \in {"sent", "eat"} /\ got = NoName
      /\ part = 1 /\ text = 0 /\ textAt = 0
      /\ fi = <<>> /\ tmpfns = <<>> /\ thumbs = <<>> /\ layout = <<>> /\ job = NoJob
      /\ pipe = "empty" /\ wat = "off" /\ wfn = NoName /\ wgot = 0 /\ werr = FALSE
      /\ moved = 0 /\ store = {} /\ row = FALSE
  BY DEF IntakeInit, Untaken
<1>2. DOMAIN files = {}
  BY DEF IntakeInit, Untaken
<1>3. Len(body.parts) \in Nat
  BY <1>1, BodyIs
<1>4. NoJob.at = "none" /\ NoJob.name = NoName /\ NoJob.thumb = NoName
  BY DEF NoJob
<1>5. IntakeTypeOK
  <2>1. FilesType
    BY <1>2, FS_EmptySet DEF FilesType
  <2>2. Numbers /\ ListTypes
    BY <1>1 DEF Numbers, ListTypes, NoName
  <2>3. JobType
    BY <1>1 DEF JobType, NoJob, NoName
  <2>4. PlaceTypes
    BY <1>1 DEF PlaceTypes
  <2> QED
    BY <1>1, <2>1, <2>2, <2>3, <2>4 DEF IntakeTypeOK
<1>6. PhaseOK
  BY <1>1, <1>4 DEF PhaseOK, Early, Open, Ended
<1>7. HeldOK
  BY <1>1, <1>2 DEF HeldOK, IntakeOver, Early
<1>8. ListsOK /\ WorkOK
  <2>1. WorkName = {}
    BY <1>1 DEF WorkName
  <2> QED
    BY <1>1, <1>4, <2>1 DEF ListsOK, WorkOK
<1>9. PipeOK /\ PartOK /\ LayoutOK /\ TextOK
  BY <1>1, <1>3 DEF PipeOK, PartOK, LayoutOK, TextOK, Early, Open
<1> QED
  BY <1>1, <1>5, <1>6, <1>7, <1>8, <1>9 DEF IntakeInv

\* The invariant holds, if there are names enough for the files: those that
\* makeRndFile draws are random, and it draws again when one is taken.
THEOREM IntakeInvariant == ~IsFiniteSet(Names) /\ IntakeSpec => []IntakeInv
<1> SUFFICES ASSUME ~IsFiniteSet(Names) PROVE IntakeSpec => []IntakeInv
  OBVIOUS
<1>1. IntakeInit => IntakeInv
  BY IntakeInitInv
<1>2. IntakeInv /\ [IntakeNext]_intakeVars => IntakeInv'
  <2> SUFFICES ASSUME IntakeInv, [IntakeNext]_intakeVars PROVE IntakeInv'
    OBVIOUS
  <2>1. IntakeStep
    BY DEF IntakeStep, IntakeNext
  <2>2. IntakeTypeOK' /\ PhaseOK' /\ HeldOK'
    BY <2>1, TypeStep, PhaseStep, HeldStep
  <2>3. iat' \in Good => ListsOK' /\ WorkOK'
    BY <2>1, GoodStep
  <2>4. iat' \in Good \ {"move"} => PipeOK' /\ PartOK' /\ LayoutOK' /\ TextOK'
    BY <2>1, PartsStep, PipeStep DEF Eaten
  <2>5. (row => Range(fi) \subseteq store)'
    BY <2>1, RowStep
  <2> QED
    BY <2>2, <2>3, <2>4, <2>5 DEF IntakeInv
<1> QED
  BY <1>1, <1>2, PTL DEF IntakeSpec

\* No temporary file is left when an article has been taken in or refused, but
\* one that nobody could remove (devourMessageBody, pn_cleanup_on_err,
\* handleIncoming).
THEOREM NothingLeft == ~IsFiniteSet(Names) /\ IntakeSpec => []NoTempLeft
<1>1. IntakeInv => NoTempLeft
  BY DEF IntakeInv, HeldOK, NoTempLeft
<1> QED
  BY <1>1, IntakeInvariant, PTL

\* What was eaten is described by what devourMessageBody returns, and a post
\* that was committed has all its files.
THEOREM EatenIsDescribed == ~IsFiniteSet(Names) /\ IntakeSpec => []Described
<1>1. IntakeInv => Described
  <2> SUFFICES ASSUME IntakeInv PROVE Described
    OBVIOUS
  <2>1. ASSUME iat = "eaten"
        PROVE  /\ Len(fi) = Len(tmpfns)
               /\ \A i \in DOMAIN fi : files[tmpfns[i]] = fi[i]
               /\ \A i \in DOMAIN thumbs : files[thumbs[i]][1] = "thumb"
               /\ textAt # 0 => fi[textAt] = <<"part", text>> /\ body.parts[text] = "long"
               /\ IF body.inner
                  THEN fi[layout[1]] = <<"whole", Pieces>>
                  ELSE /\ Len(layout) = Len(body.parts)
                       /\ \A p \in DOMAIN layout :
                              IF layout[p] = 0 THEN text = p ELSE fi[layout[p]] = <<"part", p>>
    <3>1. iat \in Good \ {"move"}
      BY <2>1 DEF Good
    <3>2. /\ ListsOK /\ ListTypes
          /\ \A i \in DOMAIN tmpfns : files[tmpfns[i]] = fi[i]
          /\ \A i \in DOMAIN thumbs : files[thumbs[i]][1] = "thumb"
      BY <3>1, ListsHere
    <3>3. Len(fi) = Len(tmpfns) /\ DOMAIN fi = DOMAIN tmpfns
      BY <3>2 DEF ListsOK, ListTypes
    <3>4. PartOK /\ LayoutOK /\ TextOK /\ part \in Nat /\ Len(body.parts) \in Nat /\ Len(layout) \in Nat
      BY <3>1, EatenIs
    <3>5. textAt # 0 => fi[textAt] = <<"part", text>> /\ body.parts[text] = "long"
      BY <2>1, <3>4 DEF TextOK
    <3>6. body.inner => fi[layout[1]] = <<"whole", Pieces>>
      BY <2>1, <3>4 DEF LayoutOK
    <3>7. ~body.inner => /\ Len(layout) = Len(body.parts)
                         /\ \A p \in DOMAIN layout :
                                IF layout[p] = 0 THEN text = p ELSE fi[layout[p]] = <<"part", p>>
      BY <2>1, <3>4 DEF LayoutOK, PartOK
    <3> QED
      BY <3>2, <3>3, <3>5, <3>6, <3>7
  <2> QED
    BY <2>1 DEF Described, IntakeInv
<1> QED
  BY <1>1, IntakeInvariant, PTL

-----------------------------------------------------------------------------
(***************************************************************************)
(* The copy out of the cache.                                              *)
(***************************************************************************)

\* The goroutine tells of what is in the file, and of its end only at the end.
PublishedOK ==
    /\ wpc \notin {"count", "countShort"} => pn = size
    /\ perr = "eof" => pn = Len(art)
    /\ we = "eof" => wn = Len(art)

\* The client was sent the first positions; the reader is behind them, and the
\* scanner where it would be in the article.
SentOK ==
    /\ out = Piece(1, written) /\ written <= Len(Wanted)
    /\ rpc # "done" => outcome = "running"
    /\ rpc \in {"read", "readAt"} => rn = written
    /\ rpc = "deliver" => rn = written + nr /\ (er = "eof" => rn = Len(art))
    /\ kind = "head" /\ rpc # "done" => st = IF written = 0 THEN "nl" ELSE art[written]

CopyInv == TypeOK /\ kind \in {"full", "head"} /\ PublishedOK /\ SentOK

\* Pieces of the article are sequences of positions,
LEMMA PieceIs ==
    ASSUME NEW f \in Nat \ {0}, NEW t \in Nat, f <= t + 1
    PROVE  /\ Piece(f, t) \in Seq(Nat) /\ Len(Piece(f, t)) = t + 1 - f
           /\ \A i \in 1 .. t + 1 - f : Piece(f, t)[i] = f + i - 1
<1> DEFINE n == IF t < f THEN 0 ELSE t + 1 - f
<1>1. n = t + 1 - f /\ n \in Nat
  OBVIOUS
<1>2. Piece(f, t) = [i \in 1 .. n |-> f + i - 1]
  BY DEF Piece
<1> HIDE DEF n
<1>3. \A i \in 1 .. n : f + i - 1 \in Nat
  BY <1>1
<1>4. [i \in 1 .. n |-> f + i - 1] \in Seq(Nat) /\ Len([i \in 1 .. n |-> f + i - 1]) = n
  BY <1>1, <1>3
<1> QED
  BY <1>1, <1>2, <1>4

LEMMA PieceFirst ==
    ASSUME NEW p \in Nat
    PROVE  Piece(1, p) \in Seq(Nat) /\ Len(Piece(1, p)) = p /\ \A i \in 1 .. p : Piece(1, p)[i] = i
<1>1. 1 \in Nat \ {0} /\ 1 <= p + 1 /\ p + 1 - 1 = p
  OBVIOUS
<1>2. /\ Piece(1, p) \in Seq(Nat) /\ Len(Piece(1, p)) = p + 1 - 1
      /\ \A i \in 1 .. p + 1 - 1 : Piece(1, p)[i] = 1 + i - 1
  BY <1>1, PieceIs
<1> DEFINE a == Piece(1, p)
<1>3. a \in Seq(Nat) /\ Len(a) = p + 1 - 1 /\ \A i \in 1 .. p + 1 - 1 : a[i] = 1 + i - 1
  BY <1>2
<1> HIDE DEF a
<1>4. a \in Seq(Nat) /\ Len(a) = p /\ \A i \in 1 .. p : a[i] = i
  BY <1>3
<1> QED
  BY <1>4 DEF a

\* which can be put together,
LEMMA PieceJoin ==
    ASSUME NEW p \in Nat, NEW q \in Nat, p <= q
    PROVE  Piece(1, p) \o Piece(p + 1, q) = Piece(1, q)
<1> DEFINE a == Piece(1, p)  b == Piece(p + 1, q)  c == Piece(1, q)
<1>1. /\ a \in Seq(Nat) /\ Len(a) = p /\ \A i \in 1 .. p : a[i] = i
      /\ b \in Seq(Nat) /\ Len(b) = q - p /\ \A i \in 1 .. q - p : b[i] = p + i
      /\ c \in Seq(Nat) /\ Len(c) = q /\ \A i \in 1 .. q : c[i] = i
  <2>1. a \in Seq(Nat) /\ Len(a) = p /\ \A i \in 1 .. p : a[i] = i
    BY PieceFirst
  <2>2. b \in Seq(Nat) /\ Len(b) = q - p /\ \A i \in 1 .. q - p : b[i] = p + i
    <3>1. p + 1 \in Nat \ {0} /\ p + 1 <= q + 1
      OBVIOUS
    <3>2. /\ b \in Seq(Nat) /\ Len(b) = q + 1 - (p + 1)
          /\ \A i \in 1 .. q + 1 - (p + 1) : b[i] = p + 1 + i - 1
      BY <3>1, PieceIs
    <3> HIDE DEF b
    <3> QED
      BY <3>2
  <2>3. c \in Seq(Nat) /\ Len(c) = q /\ \A i \in 1 .. q : c[i] = i
    BY PieceFirst
  <2> QED
    BY <2>1, <2>2, <2>3
<1> HIDE DEF a, b, c
<1>2. /\ a \o b \in Seq(Nat) /\ Len(a \o b) = q
      /\ \A i \in 1 .. q : (a \o b)[i] = IF i <= p THEN a[i] ELSE b[i - p]
  BY <1>1
<1>3. \A i \in 1 .. q : (a \o b)[i] = i
  <2> SUFFICES ASSUME NEW i \in 1 .. q PROVE (a \o b)[i] = i
    OBVIOUS
  <2>1. CASE i <= p
    BY <1>1, <1>2, <2>1
  <2>2. CASE i > p
    <3>1. i - p \in 1 .. q - p
      BY <2>2
    <3>2. b[i - p] = p + (i - p)
      BY <1>1, <3>1
    <3> QED
      BY <1>2, <2>2, <3>2
  <2>3. i <= p \/ i > p
    OBVIOUS
  <2> QED
    BY <2>1, <2>2, <2>3
<1>4. a \o b = c
  BY <1>1, <1>2, <1>3, SeqEqual
<1> QED
  BY <1>4 DEF a, b, c

\* and cut.
LEMMA PieceCut ==
    ASSUME NEW f \in Nat \ {0}, NEW t \in Nat, f <= t + 1, NEW k \in 0 .. t + 1 - f
    PROVE  SubSeq(Piece(f, t), 1, k) = Piece(f, f + k - 1)
<1> DEFINE a == Piece(f, t)  b == Piece(f, f + k - 1)
<1>1. a \in Seq(Nat) /\ Len(a) = t + 1 - f /\ \A i \in 1 .. t + 1 - f : a[i] = f + i - 1
  BY PieceIs
<1>2. b \in Seq(Nat) /\ Len(b) = k /\ \A i \in 1 .. k : b[i] = f + i - 1
  <2>1. f + k - 1 \in Nat /\ f <= (f + k - 1) + 1 /\ (f + k - 1) + 1 - f = k
    OBVIOUS
  <2> DEFINE u == f + k - 1
  <2> HIDE DEF u
  <2>2. /\ Piece(f, u) \in Seq(Nat) /\ Len(Piece(f, u)) = u + 1 - f
        /\ \A i \in 1 .. u + 1 - f : Piece(f, u)[i] = f + i - 1
    BY <2>1, PieceIs DEF u
  <2>3. u + 1 - f = k
    BY <2>1 DEF u
  <2>4. Piece(f, u) \in Seq(Nat) /\ Len(Piece(f, u)) = k /\ \A i \in 1 .. k : Piece(f, u)[i] = f + i - 1
    BY <2>2, <2>3
  <2> QED
    BY <2>4 DEF u
<1> HIDE DEF a, b
<1>3. /\ SubSeq(a, 1, k) \in Seq(Nat) /\ Len(SubSeq(a, 1, k)) = k
      /\ \A i \in 1 .. k : SubSeq(a, 1, k)[i] = a[i]
  <2>1. 1 \in 1 .. Len(a) + 1 /\ k \in 0 .. Len(a) /\ k \in Nat
    BY <1>1
  <2> QED
    BY <1>1, <2>1
<1>4. SubSeq(a, 1, k) = b
  <2>1. \A i \in 1 .. k : SubSeq(a, 1, k)[i] = b[i]
    BY <1>1, <1>2, <1>3
  <2> QED
    BY <1>2, <1>3, <2>1, SeqEqual
<1> QED
  BY <1>4 DEF a, b


\* What LeastOf is.
LEMMA LeastIs ==
    ASSUME NEW S \in SUBSET Nat, S # {}
    PROVE  LeastOf(S) \in S /\ \A y \in S : LeastOf(S) <= y
<1>1. \E x \in S : \A y \in S : x <= y
  BY HasLeast
<1> QED
  BY <1>1 DEF LeastOf

\* What an article is.
LEMMA ArtIs ==
    ASSUME TypeOK
    PROVE  /\ art \in Seq({"text", "nl"}) /\ Len(art) \in Nat /\ DOMAIN art = 1 .. Len(art)
           /\ \A i \in 1 .. Len(art) : art[i] \in {"text", "nl"}
           /\ \E i \in 1 .. Len(art) : EmptyLine(art, i)
<1>1. art \in Seq({"text", "nl"}) /\ \E i \in 1 .. Len(art) : EmptyLine(art, i)
  BY CopyAssumption DEF CopyAssumption, TypeOK
<1> QED
  BY <1>1

\* The first line without anything in it.
LEMMA BlankIs ==
    ASSUME TypeOK
    PROVE  /\ Blank \in 1 .. Len(art) /\ EmptyLine(art, Blank)
           /\ \A i \in 1 .. Len(art) : EmptyLine(art, i) => Blank <= i
<1> DEFINE S == {i \in 1 .. Len(art) : EmptyLine(art, i)}
<1>1. S \in SUBSET Nat /\ S # {}
  BY ArtIs
<1>2. LeastOf(S) \in S /\ \A y \in S : LeastOf(S) <= y
  <2> HIDE DEF S
  <2> QED
    BY <1>1, LeastIs
<1> QED
  BY <1>2 DEF Blank

\* How far the client is to be served.
WantedEnd == IF kind = "full" THEN Len(art) ELSE Blank - 1

LEMMA WantedIs ==
    ASSUME TypeOK, kind \in {"full", "head"}
    PROVE  /\ WantedEnd \in 0 .. Len(art) /\ Len(art) \in Nat
           /\ Wanted = Piece(1, WantedEnd) /\ Len(Wanted) = WantedEnd
<1>1. WantedEnd \in 0 .. Len(art) /\ Len(art) \in Nat
  BY ArtIs, BlankIs DEF WantedEnd
<1>2. Wanted = Piece(1, WantedEnd)
  BY DEF Wanted, WantedEnd
<1>3. Len(Piece(1, WantedEnd)) = WantedEnd
  <2>1. WantedEnd \in Nat
    BY <1>1
  <2> QED
    BY <2>1, PieceFirst
<1> QED
  BY <1>1, <1>2, <1>3

\* A piece is a sequence of positions of the article.
LEMMA PieceType ==
    ASSUME NEW n \in Nat, NEW q \in 0 .. n
    PROVE  Piece(1, q) \in Seq(1 .. n)
<1>1. Piece(1, q) \in Seq(Nat) /\ Len(Piece(1, q)) = q /\ \A i \in 1 .. q : Piece(1, q)[i] = i
  BY PieceFirst
<1> DEFINE a == Piece(1, q)
<1>2. a \in Seq(Nat) /\ Len(a) = q /\ \A i \in 1 .. q : a[i] = i
  BY <1>1
<1> HIDE DEF a
<1>3. \A i \in 1 .. Len(a) : a[i] \in 1 .. n
  BY <1>2
<1>4. a \in Seq(1 .. n)
  BY <1>2, <1>3
<1> QED
  BY <1>4 DEF a

\* The scanner finds the end of the head where the article has it.
LEMMA EndsAre ==
    ASSUME CopyInv, rpc = "deliver", kind = "head"
    PROVE  /\ Ends = {i \in written + 1 .. rn : EmptyLine(art, i)}
           /\ st \in {"nl", "text"}
<1>1. /\ rn = written + nr /\ written \in Nat /\ nr \in Nat /\ rn \in 0 .. Len(art) /\ Len(art) \in Nat
      /\ st = IF written = 0 THEN "nl" ELSE art[written]
      /\ \A i \in 1 .. Len(art) : art[i] \in {"text", "nl"}
  BY ArtIs DEF CopyInv, TypeOK, SentOK
<1>2. First = written + 1
  BY <1>1 DEF First
<1>3. st \in {"nl", "text"}
  <2>1. CASE written = 0
    BY <1>1, <2>1
  <2>2. CASE written # 0
    <3>1. written \in 1 .. Len(art)
      BY <1>1, <2>2
    <3> QED
      BY <1>1, <2>2, <3>1
  <2> QED
    BY <2>1, <2>2
<1>4. ASSUME NEW i \in written + 1 .. rn
      PROVE  (art[i] = "nl" /\ (IF i = First THEN st = "nl" ELSE art[i-1] = "nl")) <=> EmptyLine(art, i)
  <2>1. CASE i = First
    <3>1. CASE written = 0
      <4>1. i = 1 /\ st = "nl"
        BY <1>1, <1>2, <2>1, <3>1
      <4> QED
        BY <2>1, <4>1 DEF EmptyLine
    <3>2. CASE written # 0
      <4>1. i # 1 /\ i - 1 = written /\ st = art[i - 1]
        BY <1>1, <1>2, <2>1, <3>2
      <4> QED
        BY <2>1, <4>1 DEF EmptyLine
    <3> QED
      BY <3>1, <3>2
  <2>2. CASE i # First
    <3>1. i # 1
      BY <1>1, <1>2, <2>2
    <3> QED
      BY <2>2, <3>1 DEF EmptyLine
  <2> QED
    BY <2>1, <2>2
<1> QED
  BY <1>2, <1>3, <1>4 DEF Ends

\* What goes to the client of a chunk follows what went there, does not go
\* beyond what is wanted, reaches its end if the copy is said to be complete,
\* and is all of the chunk if it goes on.
LEMMA ChosenIs ==
    ASSUME CopyInv, rpc = "deliver"
    PROVE  \E q \in written .. WantedEnd :
              /\ Chosen = Piece(written + 1, q)
              /\ CopyEnd = "eof" => q = WantedEnd
              /\ CopyEnd \in {"nil", "closed"} =>
                    q = rn /\ (kind = "head" => ScannedTo = IF q = 0 THEN "nl" ELSE art[q])
<1>1. /\ TypeOK /\ kind \in {"full", "head"}
      /\ rn = written + nr /\ written \in Nat /\ nr \in Nat /\ rn \in 0 .. Len(art) /\ Len(art) \in Nat
      /\ er = "eof" => rn = Len(art)
      /\ er \in {"nil", "eof", "failed", "closed"}
  BY ArtIs DEF CopyInv, TypeOK, SentOK
<1>2. First = written + 1 /\ written <= WantedEnd /\ WantedEnd \in 0 .. Len(art)
  BY <1>1, WantedIs DEF First, CopyInv, SentOK
<1>3. CASE kind = "full"
  <2>1. WantedEnd = Len(art) /\ rn \in written .. WantedEnd
    BY <1>1, <1>3 DEF WantedEnd
  <2>2. Chosen = Piece(written + 1, rn) /\ CopyEnd = er
    BY <1>2, <1>3 DEF Chosen, CopyEnd
  <2> QED
    BY <1>1, <1>3, <2>1, <2>2
<1>4. CASE kind = "head"
  <2>1. /\ Ends = {i \in written + 1 .. rn : EmptyLine(art, i)} /\ st \in {"nl", "text"}
        /\ WantedEnd = Blank - 1 /\ Blank \in 1 .. Len(art) /\ EmptyLine(art, Blank)
        /\ \A i \in 1 .. Len(art) : EmptyLine(art, i) => Blank <= i
    BY <1>1, <1>4, EndsAre, BlankIs DEF WantedEnd
  <2>2. CASE Ends = {}
    <3>1. rn \in written .. WantedEnd
      <4>1. Blank \notin written + 1 .. rn
        BY <2>1, <2>2
      <4> QED
        BY <1>1, <1>2, <2>1, <4>1
    <3>2. Chosen = Piece(written + 1, rn)
      BY <1>2, <1>4, <2>2 DEF Chosen
    <3>3. ScannedTo = IF nr = 0 THEN st ELSE art[rn]
      BY <1>4, <2>1, <2>2 DEF ScannedTo
    <3>4. ScannedTo = IF rn = 0 THEN "nl" ELSE art[rn]
      <4>1. CASE nr = 0
        <5>1. st = (IF written = 0 THEN "nl" ELSE art[written]) /\ written = rn
          BY <1>1, <1>4, <4>1 DEF CopyInv, SentOK
        <5> QED
          BY <3>3, <4>1, <5>1
      <4>2. CASE nr # 0
        <5>1. rn # 0
          BY <1>1, <4>2
        <5> QED
          BY <3>3, <4>2, <5>1
      <4> QED
        BY <4>1, <4>2
    <3>5. ScannedTo # "end"
      <4>1. \A i \in 1 .. Len(art) : art[i] \in {"text", "nl"}
        BY <1>1, ArtIs
      <4>2. CASE rn = 0
        BY <3>4, <4>2
      <4>3. CASE rn # 0
        <5>1. rn \in 1 .. Len(art)
          BY <1>1, <4>3
        <5> QED
          BY <3>4, <4>1, <4>3, <5>1
      <4> QED
        BY <4>2, <4>3
    <3>6. CopyEnd # "eof"
      BY <1>4, <3>5 DEF CopyEnd
    <3> QED
      BY <3>1, <3>2, <3>4, <3>6
  <2>3. CASE Ends # {}
    <3>1. LeastOf(Ends) = Blank
      <4>1. Ends \in SUBSET Nat
        BY <1>1, <2>1
      <4>2. LeastOf(Ends) \in Ends /\ \A y \in Ends : LeastOf(Ends) <= y
        BY <2>3, <4>1, LeastIs
      <4> DEFINE l == LeastOf(Ends)
      <4>3. l \in written + 1 .. rn /\ EmptyLine(art, l) /\ \A y \in Ends : l <= y
        BY <2>1, <4>2
      <4> HIDE DEF l
      <4>4. l \in 1 .. Len(art) /\ Blank <= l
        BY <1>1, <2>1, <4>3
      <4>5. Blank \in written + 1 .. rn
        BY <1>1, <1>2, <2>1, <4>3, <4>4
      <4>6. l <= Blank
        BY <2>1, <4>3, <4>5
      <4>7. l = Blank
        BY <1>1, <2>1, <4>3, <4>4, <4>6
      <4> QED
        BY <4>7 DEF l
    <3>2. Chosen = Piece(written + 1, WantedEnd)
      BY <1>2, <1>4, <2>1, <2>3, <3>1 DEF Chosen
    <3>3. ScannedTo = "end"
      BY <1>4, <2>1, <2>3 DEF ScannedTo
    <3>4. CopyEnd = "eof"
      BY <1>4, <3>3 DEF CopyEnd
    <3>5. WantedEnd \in written .. WantedEnd
      BY <1>1, <1>2
    <3> QED
      BY <3>2, <3>4, <3>5
  <2> QED
    BY <2>2, <2>3
<1> QED
  BY <1>1, <1>3, <1>4

\* The chunk, or a part of it, is sent.
LEMMA Served ==
    ASSUME CopyInv, rpc = "deliver", UNCHANGED article,
           NEW q \in written .. WantedEnd, out' = Piece(1, q),
           outcome' \in {"running", "ok", "failed"}, outcome' = "ok" => q = WantedEnd
    PROVE  Promise!Send
<1>1. /\ TypeOK /\ kind \in {"full", "head"} /\ outcome = "running"
      /\ out = Piece(1, written) /\ written \in Nat
  BY DEF CopyInv, SentOK, TypeOK
<1>2. /\ WantedEnd \in 0 .. Len(art) /\ Len(art) \in Nat
      /\ Wanted = Piece(1, WantedEnd) /\ Len(Wanted) = WantedEnd
  BY <1>1, WantedIs
<1>3. Len(out) = written
  BY <1>1, PieceFirst
<1>4. SubSeq(Wanted, 1, q) = Piece(1, q)
  <2>1. 1 \in Nat \ {0} /\ WantedEnd \in Nat /\ 1 <= WantedEnd + 1 /\ q \in 0 .. WantedEnd + 1 - 1 /\ 1 + q - 1 = q
    BY <1>1, <1>2
  <2>2. SubSeq(Piece(1, WantedEnd), 1, q) = Piece(1, 1 + q - 1)
    BY <2>1, PieceCut
  <2> QED
    BY <1>2, <2>1, <2>2
<1>5. q \in Len(out) .. Len(Wanted)
  BY <1>2, <1>3
<1>6. out' = SubSeq(Wanted, 1, q)
  BY <1>4
<1>7. UNCHANGED Wanted
  BY DEF Wanted, Blank, article
<1>8. outcome' \in {"running", "failed"} \/ (outcome' = "ok" /\ q = Len(Wanted))
  BY <1>2
<1> QED
  BY <1>1, <1>5, <1>6, <1>7, <1>8 DEF Promise!Send

\* What the client has when the chunk, or a part of it, has been sent.
LEMMA ForwardIs ==
    ASSUME CopyInv, Forward
    PROVE  \E q \in written .. WantedEnd :
              /\ out' = Piece(1, q) /\ written' = q
              /\ CopyEnd = "eof" => q = WantedEnd
              /\ CopyEnd \in {"nil", "closed"} =>
                    q = rn /\ (kind = "head" => st' = IF q = 0 THEN "nl" ELSE art[q])
<1>1. rpc = "deliver" /\ out' = out \o Chosen /\ written' = written + Len(Chosen) /\ st' = ScannedTo
  BY DEF Forward
<1>2. TypeOK /\ kind \in {"full", "head"} /\ written \in Nat /\ out = Piece(1, written)
  BY DEF CopyInv, SentOK, TypeOK
<1>3. PICK q \in written .. WantedEnd :
         /\ Chosen = Piece(written + 1, q)
         /\ CopyEnd = "eof" => q = WantedEnd
         /\ CopyEnd \in {"nil", "closed"} =>
               q = rn /\ (kind = "head" => ScannedTo = IF q = 0 THEN "nl" ELSE art[q])
  BY <1>1, ChosenIs
<1>4. q \in Nat /\ written <= q
  BY <1>2, <1>3, WantedIs
<1>5. Len(Piece(written + 1, q)) = q - written
  <2>1. written + 1 \in Nat \ {0} /\ written + 1 <= q + 1
    BY <1>2, <1>4
  <2>2. Len(Piece(written + 1, q)) = q + 1 - (written + 1)
    BY <1>4, <2>1, PieceIs
  <2> QED
    BY <1>2, <1>4, <2>2
<1>6. out' = Piece(1, q)
  BY <1>1, <1>2, <1>3, <1>4, PieceJoin
<1>7. written' = q
  BY <1>1, <1>2, <1>3, <1>4, <1>5
<1> QED
  BY <1>1, <1>3, <1>6, <1>7

\* A client that goes away got a part of the chunk.
LEMMA ClientFailsIs ==
    ASSUME CopyInv, ClientFails
    PROVE  \E q \in written .. WantedEnd : out' = Piece(1, q) /\ written' = q
<1>1. rpc = "deliver"
  BY DEF ClientFails
<1>2. TypeOK /\ kind \in {"full", "head"} /\ written \in Nat /\ out = Piece(1, written)
  BY DEF CopyInv, SentOK, TypeOK
<1>3. PICK q \in written .. WantedEnd : Chosen = Piece(written + 1, q)
  BY <1>1, ChosenIs
<1>4. q \in Nat /\ written <= q
  BY <1>2, <1>3, WantedIs
<1>5. /\ written + 1 \in Nat \ {0} /\ written + 1 <= q + 1
      /\ Len(Piece(written + 1, q)) = q + 1 - (written + 1)
  <2>1. written + 1 \in Nat \ {0} /\ written + 1 <= q + 1
    BY <1>2, <1>4
  <2> QED
    BY <1>4, <2>1, PieceIs
<1>6. PICK k \in 0 .. Len(Chosen) : out' = out \o SubSeq(Chosen, 1, k) /\ written' = written + k
  BY DEF ClientFails
<1>7. k \in 0 .. q + 1 - (written + 1)
  BY <1>3, <1>5, <1>6
<1>8. SubSeq(Chosen, 1, k) = Piece(written + 1, written + 1 + k - 1)
  BY <1>3, <1>4, <1>5, <1>7, PieceCut
<1>9. k \in Nat /\ written + k \in Nat /\ written + 1 + k - 1 = written + k /\ written <= written + k /\ written + k <= q
  BY <1>2, <1>4, <1>7
<1>10. out' = Piece(1, written + k)
  <2>1. SubSeq(Chosen, 1, k) = Piece(written + 1, written + k)
    BY <1>8, <1>9
  <2>2. out' = Piece(1, written) \o Piece(written + 1, written + k)
    BY <1>2, <1>6, <2>1
  <2> QED
    BY <1>2, <1>9, <2>2, PieceJoin
<1>11. written + k \in written .. WantedEnd
  BY <1>2, <1>3, <1>4, <1>9, WantedIs
<1> QED
  BY <1>6, <1>10, <1>11

\* What is sent is sent as promised.
LEMMA SendStep ==
    ASSUME CopyInv, [Next]_vars
    PROVE  [Promise!Send]_<<Wanted, out, outcome>>
<1> DEFINE Goal == [Promise!Send]_<<Wanted, out, outcome>>
<1>1. ASSUME UNCHANGED <<article, out, outcome>> PROVE Goal
  BY <1>1 DEF Wanted, Blank, article
<1>2. ASSUME UNCHANGED <<article, written, out>>, outcome = "running", outcome' = "failed" PROVE Goal
  <2>1. /\ TypeOK /\ kind \in {"full", "head"} /\ out = Piece(1, written)
        /\ written \in Nat /\ written <= Len(Wanted)
    BY DEF CopyInv, SentOK, TypeOK
  <2>2. /\ WantedEnd \in 0 .. Len(art) /\ Len(art) \in Nat
        /\ Wanted = Piece(1, WantedEnd) /\ Len(Wanted) = WantedEnd
    BY <2>1, WantedIs
  <2>3. Len(out) = written
    BY <2>1, PieceFirst
  <2>4. SubSeq(Wanted, 1, written) = Piece(1, written)
    <3>1. /\ 1 \in Nat \ {0} /\ WantedEnd \in Nat /\ 1 <= WantedEnd + 1
          /\ written \in 0 .. WantedEnd + 1 - 1 /\ 1 + written - 1 = written
      BY <2>1, <2>2
    <3>2. SubSeq(Piece(1, WantedEnd), 1, written) = Piece(1, 1 + written - 1)
      BY <3>1, PieceCut
    <3> QED
      BY <2>2, <3>1, <3>2
  <2>5. written \in Len(out) .. Len(Wanted) /\ out' = SubSeq(Wanted, 1, written)
    BY <1>2, <2>1, <2>2, <2>3, <2>4
  <2>6. UNCHANGED Wanted
    BY <1>2 DEF Wanted, Blank, article
  <2> QED
    BY <1>2, <2>5, <2>6 DEF Promise!Send
<1>3. CASE Write \/ Done \/ UNCHANGED vars
  BY <1>1, <1>3 DEF Write, WriteFile, CountWritten, FinishPub, CancelPub, CloseFile, Settle, Done,
     vars, copier
<1>4. CASE Look \/ ReadPub \/ ReadShared \/ Resume
  BY <1>1, <1>4 DEF Look, ReadPub, ReadShared, Resume, copier
<1>5. CASE GiveUp
  <2>1. rpc = "deliver" /\ outcome = "running" /\ UNCHANGED <<article, written, out>>
    BY <1>5 DEF GiveUp, CopyInv, SentOK
  <2>2. outcome' = outcome \/ outcome' = "failed"
    <3>1. er \in {"nil", "eof", "failed", "closed"} /\ er # "nil"
      BY <1>5 DEF GiveUp, CopyInv, TypeOK
    <3>2. CASE er = "eof"
      BY <1>5, <3>2 DEF GiveUp, Return
    <3>3. CASE er # "eof"
      BY <1>5, <3>1, <3>3 DEF GiveUp, Return
    <3> QED
      BY <3>2, <3>3
  <2> QED
    BY <1>1, <1>2, <2>1, <2>2
<1>6. CASE Forward
  <2>1. rpc = "deliver" /\ outcome = "running" /\ UNCHANGED article /\ Return(CopyEnd)
    BY <1>6 DEF Forward, CopyInv, SentOK
  <2>2. PICK q \in written .. WantedEnd : out' = Piece(1, q) /\ (CopyEnd = "eof" => q = WantedEnd)
    BY <1>6, ForwardIs
  <2>3. outcome' \in {"running", "ok", "failed"} /\ (outcome' = "ok" => CopyEnd = "eof")
    BY <2>1 DEF Return
  <2>4. outcome' = "ok" => q = WantedEnd
    BY <2>2, <2>3
  <2> QED
    BY <2>1, <2>2, <2>3, <2>4, Served
<1>7. CASE ClientFails
  <2>1. rpc = "deliver" /\ UNCHANGED article /\ outcome' = "failed"
    BY <1>7 DEF ClientFails, Return
  <2>2. PICK q \in written .. WantedEnd : out' = Piece(1, q)
    BY <1>7, ClientFailsIs
  <2>3. outcome' \in {"running", "ok", "failed"} /\ (outcome' = "ok" => q = WantedEnd)
    BY <2>1
  <2> QED
    BY <2>1, <2>2, <2>3, Served
<1>8. CASE Interrupted
  <2>1. /\ outcome = "running" /\ UNCHANGED <<article, written, out>>
        /\ outcome' = outcome \/ outcome' = "failed"
    BY <1>8 DEF Interrupted, CopyInv, SentOK
  <2> QED
    BY <1>1, <1>2, <2>1
<1>9. CASE ReopenFailed
  <2>1. outcome = "running" /\ UNCHANGED <<article, written, out>> /\ outcome' = "failed"
    BY <1>9 DEF ReopenFailed, CopyInv, SentOK
  <2> QED
    BY <1>2, <2>1
<1> QED
  BY <1>3, <1>4, <1>5, <1>6, <1>7, <1>8, <1>9 DEF Next, Read

\* The goroutine's steps leave the ObtainItem alone, and tell of no more than is
\* in the file.
LEMMA WriteStep ==
    ASSUME CopyInv, Write
    PROVE  CopyInv'
<1>1. /\ TypeOK /\ PublishedOK /\ SentOK /\ kind \in {"full", "head"} /\ Len(art) \in Nat
  BY ArtIs DEF CopyInv
<1>2. UNCHANGED <<article, reading, rpc, copier>>
  BY DEF Write, WriteFile, CountWritten, FinishPub, CancelPub, CloseFile, Settle
<1>3. /\ size \in 0 .. Len(art) /\ pn \in 0 .. size /\ wn \in 0 .. pn
      /\ wpc \notin {"count", "countShort"} => pn = size
      /\ perr = "eof" => pn = Len(art)
      /\ perr \in {"nil", "eof", "failed"}
      /\ we = "eof" => wn = Len(art)
  BY <1>1 DEF TypeOK, PublishedOK
<1>4. /\ size' \in 0 .. Len(art) /\ pn' \in 0 .. size' /\ wn \in 0 .. pn'
      /\ wpc' \notin {"count", "countShort"} => pn' = size'
      /\ perr' = "eof" => pn' = Len(art)
      /\ perr' \in {"nil", "eof", "failed"}
  <2>1. CASE WriteFile
    <3>1. wpc' \in {"count", "countShort"} /\ pn' = pn /\ perr' = perr
      BY <2>1 DEF WriteFile
    <3>2. size' \in size .. Len(art)
      <4>1. CASE \E k \in 1 .. Len(art) - size : size' = size + k
        BY <1>1, <1>3, <4>1
      <4>2. CASE \E k \in 0 .. Len(art) - size - 1 : size' = size + k
        BY <1>1, <1>3, <4>2
      <4> QED
        BY <2>1, <4>1, <4>2 DEF WriteFile
    <3> QED
      BY <1>1, <1>3, <3>1, <3>2
  <2>2. CASE CountWritten
    <3>1. /\ size' = size /\ pn' = size
          /\ perr' = "failed" \/ perr' = perr
      BY <2>2 DEF CountWritten
    <3> QED
      BY <1>1, <1>3, <3>1
  <2>3. CASE FinishPub
    <3>1. /\ size' = size /\ pn' = pn /\ wpc = "write" /\ size = Len(art) /\ perr' = "eof"
      BY <2>3 DEF FinishPub
    <3> QED
      BY <1>1, <1>3, <3>1
  <2>4. CASE CancelPub
    <3>1. size' = size /\ pn' = pn /\ wpc \in {"write", "cancel"} /\ perr' = "failed"
      BY <2>4 DEF CancelPub
    <3> QED
      BY <1>1, <1>3, <3>1
  <2>5. CASE CloseFile \/ Settle
    <3>1. size' = size /\ pn' = pn /\ wpc \notin {"count", "countShort"} /\ perr' = perr
      BY <2>5 DEF CloseFile, Settle
    <3> QED
      BY <1>1, <1>3, <3>1
  <2> QED
    BY <2>1, <2>2, <2>3, <2>4, <2>5 DEF Write
<1>5. /\ wpc' \in {"write", "count", "countShort", "cancel", "close", "settle", "done"}
      /\ handle' \in {"open", "closed"} /\ of' \in BOOLEAN /\ oe' \in BOOLEAN
  BY <1>1 DEF Write, WriteFile, CountWritten, FinishPub, CancelPub, CloseFile, Settle, TypeOK
<1>6. TypeOK'
  BY <1>1, <1>2, <1>4, <1>5 DEF TypeOK, article, reading, copier
<1>7. PublishedOK'
  BY <1>2, <1>3, <1>4 DEF PublishedOK, article, reading
<1>8. SentOK'
  BY <1>1, <1>2 DEF SentOK, Wanted, Blank, article, reading, copier
<1> QED
  BY <1>1, <1>2, <1>6, <1>7, <1>8 DEF CopyInv, article

\* A read: the reader is behind what was read, and at the end if it says so.
LEMMA ReadIs ==
    ASSUME CopyInv, ReadPub \/ ReadShared
    PROVE  /\ nr' \in Nat /\ rn' = written + nr' /\ rn' \in 0 .. Len(art)
           /\ er' \in {"nil", "eof", "failed", "closed"} /\ (er' = "eof" => rn' = Len(art))
<1>1. /\ rn = written /\ rn \in 0 .. Len(art) /\ Len(art) \in Nat /\ BufLen \in Nat \ {0}
      /\ wn \in 0 .. Len(art) /\ we \in {"nil", "eof", "failed"} /\ (we = "eof" => wn = Len(art))
  <2>1. rn = written
    BY DEF CopyInv, SentOK, ReadPub, ReadShared
  <2>2. size \in 0 .. Len(art) /\ pn \in 0 .. size /\ wn \in 0 .. pn /\ Len(art) \in Nat
    BY ArtIs DEF CopyInv, TypeOK
  <2>3. wn \in 0 .. Len(art)
    BY <2>2
  <2>4. /\ rn \in 0 .. Len(art) /\ we \in {"nil", "eof", "failed"} /\ (we = "eof" => wn = Len(art))
        /\ BufLen \in Nat \ {0}
    BY CopyAssumption DEF CopyInv, TypeOK, PublishedOK, CopyAssumption
  <2> QED
    BY <2>1, <2>2, <2>3, <2>4
<1>2. CASE ReadPub
  <2>1. rn' = rn + nr'
    BY <1>2 DEF ReadPub
  <2>5. rn \in Nat /\ wn \in Nat /\ wn <= Len(art)
    BY <1>1
  <2>6. ASSUME nr' \in 0 .. wn - rn PROVE nr' \in Nat /\ rn' <= wn /\ rn' \in 0 .. Len(art)
    <3>1. nr' \in Nat /\ rn + nr' \in Nat /\ rn + nr' <= wn
      <4>1. \A a, b \in Nat : \A c \in 0 .. b - a : c \in Nat /\ a + c \in Nat /\ a + c <= b
        OBVIOUS
      <4> QED
        BY <2>5, <2>6, <4>1
    <3>2. rn' \in Nat /\ rn' <= wn
      BY <2>1, <3>1
    <3> QED
      BY <1>1, <2>5, <3>1, <3>2
  <2>2. CASE rn < wn /\ handle = "open" /\ nr' = Lesser(BufLen, wn - rn)
             /\ er' = IF rn + nr' >= wn THEN we ELSE "nil"
    <3>1. nr' \in 0 .. wn - rn
      BY <1>1, <2>2 DEF Lesser
    <3>2. er' = "eof" => rn' >= wn /\ we = "eof"
      BY <2>1, <2>2
    <3>3. er' \in {"nil", "eof", "failed"}
      BY <1>1, <2>2
    <3>4. er' = "eof" => rn' = Len(art)
      BY <1>1, <2>5, <2>6, <3>1, <3>2
    <3> QED
      BY <1>1, <2>1, <2>6, <3>1, <3>3, <3>4
  <2>3. CASE rn < wn /\ nr' \in 0 .. Lesser(BufLen, wn - rn) - 1 /\ er' = "closed"
    <3>1. nr' \in 0 .. wn - rn
      BY <1>1, <2>3 DEF Lesser
    <3> QED
      BY <1>1, <2>1, <2>3, <2>6, <3>1
  <2>4. CASE rn >= wn /\ nr' = 0 /\ er' = we
    BY <1>1, <2>1, <2>4
  <2> QED
    BY <1>2, <2>2, <2>3, <2>4 DEF ReadPub
<1>3. CASE ReadShared
  <2>1. rn' = rn + nr' /\ nr' = Lesser(BufLen, Len(art) - rn) /\ er' = IF nr' < BufLen THEN "eof" ELSE "nil"
    BY <1>3 DEF ReadShared
  <2>2. nr' \in 0 .. Len(art) - rn /\ (nr' < BufLen => nr' = Len(art) - rn)
    BY <1>1, <2>1 DEF Lesser
  <2>3. rn' \in 0 .. Len(art) /\ (nr' < BufLen => rn' = Len(art))
    BY <1>1, <2>1, <2>2
  <2> QED
    BY <1>1, <2>1, <2>2, <2>3
<1> QED
  BY <1>2, <1>3

\* The reader looks and reads, from either file.
LEMMA ReadStep ==
    ASSUME CopyInv, Look \/ ReadPub \/ ReadShared \/ Resume
    PROVE  CopyInv'
<1>1. TypeOK /\ PublishedOK /\ SentOK /\ kind \in {"full", "head"} /\ Len(art) \in Nat
  BY ArtIs DEF CopyInv
<1>2. UNCHANGED <<article, writer, copier>>
  BY DEF Look, ReadPub, ReadShared, Resume
<1>3. /\ rn' \in 0 .. Len(art) /\ nr' \in 0 .. rn'
      /\ wn' \in 0 .. pn /\ we' \in {"nil", "eof", "failed"} /\ (we' = "eof" => wn' = Len(art))
      /\ er' \in {"nil", "eof", "failed", "closed"}
      /\ src' \in {"pub", "file"} /\ rpc' \in {"read", "readAt", "deliver"} /\ rpc # "done"
      /\ rpc' \in {"read", "readAt"} => rn' = written
      /\ rpc' = "deliver" => rn' = written + nr' /\ (er' = "eof" => rn' = Len(art))
  <2>1. /\ rn \in 0 .. Len(art) /\ nr \in 0 .. rn /\ size \in 0 .. Len(art) /\ pn \in 0 .. size
        /\ wn \in 0 .. pn /\ we \in {"nil", "eof", "failed"} /\ (we = "eof" => wn = Len(art))
        /\ perr \in {"nil", "eof", "failed"} /\ (perr = "eof" => pn = Len(art))
        /\ er \in {"nil", "eof", "failed", "closed"} /\ src \in {"pub", "file"}
        /\ rpc \in {"read", "readAt"} => rn = written
    BY <1>1 DEF TypeOK, PublishedOK, SentOK
  <2>2. CASE Look
    <3>1. /\ rpc = "read" /\ rpc' = "readAt" /\ wn' = pn /\ we' = perr /\ UNCHANGED <<src, rn, nr, er>>
      BY <2>2 DEF Look
    <3> QED
      BY <1>1, <2>1, <3>1
  <2>3. CASE ReadPub \/ ReadShared
    <3>1. /\ rpc \in {"read", "readAt"} /\ rpc' = "deliver" /\ UNCHANGED <<src, wn, we>>
      BY <2>3 DEF ReadPub, ReadShared
    <3>2. /\ nr' \in Nat /\ rn' = written + nr' /\ rn' \in 0 .. Len(art)
          /\ er' \in {"nil", "eof", "failed", "closed"} /\ (er' = "eof" => rn' = Len(art))
      BY <2>3, ReadIs
    <3>3. nr' \in 0 .. rn'
      BY <2>1, <3>1, <3>2
    <3> QED
      BY <2>1, <3>1, <3>2, <3>3
  <2>4. CASE Resume
    <3>1. /\ rpc = "await" /\ rpc' = "read" /\ src' = "file" /\ rn' = written /\ nr' = 0
          /\ UNCHANGED <<wn, we, er>>
      BY <2>4 DEF Resume
    <3>2. written \in 0 .. Len(art)
      <4>1. written \in Nat /\ written <= Len(Wanted)
        BY <1>1 DEF TypeOK, SentOK
      <4>2. Len(Wanted) = WantedEnd /\ WantedEnd \in 0 .. Len(art)
        BY <1>1, WantedIs
      <4> QED
        BY <1>1, <4>1, <4>2
    <3> QED
      BY <1>1, <2>1, <3>1, <3>2
  <2> QED
    BY <2>2, <2>3, <2>4
<1>4. TypeOK'
  BY <1>1, <1>2, <1>3 DEF TypeOK, article, writer, copier
<1>5. PublishedOK'
  BY <1>1, <1>2, <1>3 DEF PublishedOK, article, writer
<1>6. SentOK'
  BY <1>1, <1>2, <1>3 DEF SentOK, Wanted, Blank, article, copier
<1> QED
  BY <1>1, <1>2, <1>4, <1>5, <1>6 DEF CopyInv, article

\* What a copier does with the chunk.
LEMMA CopierStep ==
    ASSUME CopyInv, GiveUp \/ Forward \/ ClientFails \/ Interrupted \/ ReopenFailed
    PROVE  CopyInv'
<1>1. /\ TypeOK /\ PublishedOK /\ SentOK /\ kind \in {"full", "head"} /\ Len(art) \in Nat
      /\ written \in Nat /\ written <= Len(Wanted)
  BY ArtIs DEF CopyInv, TypeOK, SentOK
<1>2. UNCHANGED <<article, writer, reading>>
  BY DEF GiveUp, Forward, ClientFails, Interrupted, ReopenFailed
<1>3. UNCHANGED Wanted
  BY <1>2 DEF Wanted, Blank, article
<1>4. Wanted = Piece(1, WantedEnd) /\ Len(Wanted) = WantedEnd /\ WantedEnd \in 0 .. Len(art)
  BY <1>1, WantedIs
<1>5. /\ rpc' \in {"read", "interrupted", "await", "done"}
      /\ outcome' \in {"running", "ok", "failed"}
      /\ rpc' # "done" => outcome' = "running"
      /\ dw' \in BOOLEAN
  <2>1. rpc # "done" /\ outcome = "running" /\ dw \in BOOLEAN
    BY <1>1 DEF GiveUp, Forward, ClientFails, Interrupted, ReopenFailed, SentOK, TypeOK
  <2>2. CASE Interrupted \/ ReopenFailed
    BY <2>1, <2>2 DEF Interrupted, ReopenFailed
  <2>3. CASE GiveUp \/ Forward \/ ClientFails
    <3>1. PICK err : Return(err) /\ dw' \in BOOLEAN
      BY <2>1, <2>3 DEF GiveUp, Forward, ClientFails
    <3> QED
      BY <2>1, <3>1 DEF Return
  <2> QED
    BY <2>2, <2>3
<1>6. \E q \in written .. WantedEnd : out' = Piece(1, q) /\ written' = q
  <2>1. CASE GiveUp \/ Interrupted \/ ReopenFailed
    <3>1. out' = out /\ written' = written /\ out = Piece(1, written)
      BY <1>1, <2>1 DEF GiveUp, Interrupted, ReopenFailed, SentOK
    <3>2. written \in written .. WantedEnd
      BY <1>1, <1>4
    <3> QED
      BY <3>1, <3>2
  <2>2. CASE Forward
    BY <2>2, ForwardIs
  <2>3. CASE ClientFails
    BY <2>3, ClientFailsIs
  <2> QED
    BY <2>1, <2>2, <2>3
<1>7. /\ written' \in 0 .. WantedEnd /\ written' \in Nat /\ out' = Piece(1, written')
      /\ out' \in Seq(1 .. Len(art)) /\ written' <= Len(Wanted)
  <2>1. PICK q \in written .. WantedEnd : out' = Piece(1, q) /\ written' = q
    BY <1>6
  <2>2. q \in 0 .. WantedEnd /\ q \in Nat /\ q \in 0 .. Len(art) /\ q <= Len(Wanted)
    BY <1>1, <1>4, <2>1
  <2>3. Piece(1, q) \in Seq(1 .. Len(art))
    BY <1>1, <2>2, PieceType
  <2> QED
    BY <2>1, <2>2, <2>3
<1>8. st' \in {"nl", "text", "end"}
  <2>1. CASE GiveUp \/ Interrupted \/ ReopenFailed
    BY <1>1, <2>1 DEF GiveUp, Interrupted, ReopenFailed, TypeOK
  <2>2. CASE Forward \/ ClientFails
    <3>1. st' = ScannedTo /\ rpc = "deliver"
      BY <2>2 DEF Forward, ClientFails
    <3>2. CASE nr = 0
      BY <1>1, <3>1, <3>2 DEF ScannedTo, TypeOK
    <3>3. CASE nr # 0
      <4>1. rn \in 1 .. Len(art)
        BY <1>1, <3>3 DEF TypeOK
      <4>2. art[rn] \in {"text", "nl"}
        BY <1>1, <4>1, ArtIs
      <4> QED
        BY <1>1, <3>1, <4>2 DEF ScannedTo, TypeOK
    <3> QED
      BY <3>2, <3>3
  <2> QED
    BY <2>1, <2>2
<1>9. /\ rpc' = "read" => rn = written'
      /\ kind = "head" /\ rpc' # "done" => st' = IF written' = 0 THEN "nl" ELSE art[written']
  <2>1. CASE Interrupted \/ ReopenFailed
    BY <1>1, <2>1 DEF Interrupted, ReopenFailed, SentOK
  <2>2. CASE ClientFails
    BY <2>2 DEF ClientFails, Return
  <2>3. CASE GiveUp
    <3>1. /\ rpc = "deliver" /\ er # "nil" /\ written' = written /\ st' = st
          /\ Return(IF er = "eof" THEN "failed" ELSE er)
      BY <2>3 DEF GiveUp
    <3>2. rpc' # "read"
      <4>1. CASE er = "eof"
        BY <3>1, <4>1 DEF Return
      <4>2. CASE er # "eof"
        BY <3>1, <4>2 DEF Return
      <4> QED
        BY <4>1, <4>2
    <3> QED
      BY <1>1, <3>1, <3>2 DEF SentOK
  <2>4. CASE Forward
    <3>1. Return(CopyEnd)
      BY <2>4 DEF Forward
    <3>2. rpc' # "done" => CopyEnd \in {"nil", "closed"}
      BY <3>1 DEF Return
    <3>3. CopyEnd \in {"nil", "closed"} =>
             written' = rn /\ (kind = "head" => st' = IF written' = 0 THEN "nl" ELSE art[written'])
      BY <2>4, ForwardIs
    <3> QED
      BY <3>2, <3>3
  <2> QED
    BY <2>1, <2>2, <2>3, <2>4
<1>10. TypeOK'
  BY <1>1, <1>2, <1>5, <1>7, <1>8 DEF TypeOK, article, writer, reading
<1>11. PublishedOK'
  BY <1>1, <1>2 DEF PublishedOK, article, writer, reading
<1>12. SentOK'
  BY <1>2, <1>3, <1>5, <1>7, <1>9 DEF SentOK, article, reading
<1> QED
  BY <1>1, <1>2, <1>10, <1>11, <1>12 DEF CopyInv, article

\* At first nothing is written and nothing is sent.
LEMMA CopyInitInv == Kinds \subseteq {"full", "head"} /\ Init => CopyInv
<1> SUFFICES ASSUME Kinds \subseteq {"full", "head"}, Init PROVE CopyInv
  OBVIOUS
<1>1. art \in Articles /\ kind \in Kinds /\ kind \in {"full", "head"} /\ wpc = "write" /\ rpc = "read"
  BY DEF Init
<1>2. art \in Seq({"text", "nl"}) /\ Len(art) \in Nat
  BY <1>1, CopyAssumption DEF CopyAssumption
<1>3. TypeOK
  <2>1. out \in Seq(1 .. Len(art))
    BY DEF Init, Untouched
  <2>2. size \in 0 .. Len(art) /\ pn \in 0 .. size /\ rn \in 0 .. Len(art) /\ nr \in 0 .. rn /\ wn \in 0 .. pn
    BY <1>2 DEF Init, Untouched
  <2> QED
    BY <1>1, <2>1, <2>2 DEF Init, Untouched, TypeOK
<1>4. PublishedOK
  BY <1>1 DEF Init, Untouched, PublishedOK
<1>5. out = Piece(1, 0)
  <2>1. Piece(1, 0) \in Seq(Nat) /\ Len(Piece(1, 0)) = 0
    BY PieceFirst
  <2>2. Piece(1, 0) = <<>>
    BY <2>1, EmptySeq
  <2> QED
    BY <2>2 DEF Init, Untouched
<1>6. SentOK
  <2>1. 0 <= Len(Wanted)
    BY <1>1, <1>2, <1>3, WantedIs
  <2> QED
    BY <1>1, <1>5, <2>1 DEF Init, Untouched, SentOK
<1> QED
  BY <1>1, <1>3, <1>4, <1>6 DEF CopyInv

\* The invariant of the copies of a whole article and of its head.
THEOREM CopyInvariant == Kinds \subseteq {"full", "head"} /\ Spec => []CopyInv
<1>1. CopyInv /\ [Next]_vars => CopyInv'
  <2> SUFFICES ASSUME CopyInv, [Next]_vars PROVE CopyInv'
    OBVIOUS
  <2>1. CASE Done \/ UNCHANGED vars
    <3>1. UNCHANGED <<article, writer, reading, rpc, copier>>
      BY <2>1 DEF Done, vars
    <3>2. TypeOK'
      BY <3>1 DEF CopyInv, TypeOK, article, writer, reading, copier
    <3>3. PublishedOK'
      BY <3>1 DEF CopyInv, PublishedOK, article, writer, reading
    <3>4. SentOK'
      BY <3>1 DEF CopyInv, SentOK, Wanted, Blank, article, reading, copier
    <3> QED
      BY <3>1, <3>2, <3>3, <3>4 DEF CopyInv, article
  <2> QED
    BY <2>1, WriteStep, ReadStep, CopierStep DEF Next, Read
<1> QED
  BY <1>1, CopyInitInv, PTL DEF Spec

\* The copiers of a whole article and of its head (nntpcopyer.go) implement what
\* the cache promises its clients (Delivery), whatever is written, closed and
\* reopened under their hands.
THEOREM CopyDelivers == Kinds \subseteq {"full", "head"} /\ Spec => Delivers
<1>1. Init => Promise!Init
  BY DEF Init, Untouched, Promise!Init
<1>2. CopyInv /\ [Next]_vars => [Promise!Send]_<<Wanted, out, outcome>>
  BY SendStep
<1> QED
  BY <1>1, <1>2, CopyInvariant, PTL DEF Spec, Delivers, Promise!Spec
=============================================================================
