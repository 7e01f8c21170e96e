----------------------------- MODULE FormParser -----------------------------
(***************************************************************************)
(* ParserParams.ParseForm (mail/form/form.go): a form that a browser sends *)
(* is kept apart.  Text fields go to memory, files to temporary files;    *)
(* both are limited, and when a limit is passed or anything fails, the     *)
(* files that were made are removed again.                                 *)
(*                                                                         *)
(* A part is told by its kind and how long it is; a size is an int64.      *)
(***************************************************************************)
EXTENDS Integers, Sequences

CONSTANTS MaxInt64,      \* math.MaxInt64
          FormFaults     \* bound: how many calls of the operating system fail

FormAssumption == MaxInt64 \in Nat /\ FormFaults \in Nat
ASSUME FormAssumption

VARIABLES
    form,       \* the parts: "field", "file", "other" (not wanted), "badhead"
    params,     \* ParserParams
    nextPart,       \* the next part
    fat,        \* where ParseForm is
    memleft, fieldsleft, numfiles, filebytesleft,
    values,     \* f.Values: the number of the part, and how much of it
    kept,      \* f.Files
    tempFiles,  \* the temporary files that there are, by the number of the part
    formFaults

formVars == <<form, params, nextPart, fat, memleft, fieldsleft, numfiles, filebytesleft,
              values, kept, tempFiles, formFaults>>

Plus1(n) == IF n = MaxInt64 THEN -MaxInt64 - 1 ELSE n + 1

\* io.CopyN copies nothing if n is negative.
CopyN(size, n) == IF n < 0 THEN 0 ELSE IF size < n THEN size ELSE n

Lesser(m, n) == IF m < n THEN m ELSE n

Part == form[nextPart]
PartIs(kind) == fat = "parts" /\ nextPart <= Len(form) /\ Part.kind = kind

\* Wrong: the file that is filled is not on the list yet.
FailsNoKill ==
    /\ fat' = "failed" /\ tempFiles' = tempFiles \ {kept[i].part : i \in DOMAIN kept}
    /\ UNCHANGED <<form, params, nextPart, memleft, fieldsleft, numfiles, filebytesleft,
                   values, kept>>

\* The deferred function: RemoveAll, and killfile for the file that is filled.
Fails ==
    /\ fat' = "failed" /\ tempFiles' = {}
    /\ UNCHANGED <<form, params, nextPart, memleft, fieldsleft, numfiles, filebytesleft,
                   values, kept>>

OsFails == formFaults < FormFaults /\ formFaults' = formFaults + 1 /\ Fails

\* No more parts.
EndForm ==
    /\ fat = "parts" /\ nextPart > Len(form) /\ fat' = "parsed"
    /\ UNCHANGED <<form, params, nextPart, memleft, fieldsleft, numfiles, filebytesleft,
                   values, kept, tempFiles, formFaults>>

BadPart == PartIs("badhead") /\ Fails /\ UNCHANGED formFaults

\* Not form data, without a name, or a name that nobody wants.
SkipPart ==
    /\ PartIs("other")
    /\ IF Part.cut
       THEN Fails
       ELSE /\ nextPart' = nextPart + 1
            /\ UNCHANGED <<form, params, fat, memleft, fieldsleft, numfiles, filebytesleft,
                           values, kept, tempFiles>>
    /\ UNCHANGED formFaults

TakeField ==
    /\ PartIs("field")
    /\ LET n == CopyN(Part.size, Plus1(memleft))
       IN  IF fieldsleft = 0 \/ Part.cut \/ n > memleft
           THEN Fails
           ELSE /\ fieldsleft' = fieldsleft - 1 /\ memleft' = memleft - n
                /\ values' = Append(values, [part |-> nextPart, size |-> n])
                /\ nextPart' = nextPart + 1
                /\ UNCHANGED <<form, params, fat, numfiles, filebytesleft, kept, tempFiles>>
    /\ UNCHANGED formFaults

\* How much the next file may have.
Allowed == IF params.single > 0 THEN Lesser(filebytesleft, params.single) ELSE filebytesleft

OpenFile ==
    /\ PartIs("file")
    /\ \/ /\ (params.count >= 0 /\ numfiles = params.count) \/ Allowed <= 0
          /\ Fails /\ UNCHANGED formFaults
       \/ /\ ~(params.count >= 0 /\ numfiles = params.count) /\ Allowed > 0
          /\ \/ OsFails
             \/ /\ numfiles' = numfiles + 1 /\ tempFiles' = tempFiles \cup {nextPart} /\ fat' = "fill"
                /\ UNCHANGED <<form, params, nextPart, memleft, fieldsleft, filebytesleft,
                               values, kept, formFaults>>

\* The file is written and wound back.
FillFile ==
    /\ fat = "fill"
    /\ \/ OsFails
       \/ LET n == CopyN(Part.size, Plus1(Allowed))
          IN  /\ IF Part.cut \/ n > Allowed
                 THEN Fails
                 ELSE /\ filebytesleft' = filebytesleft - n
                      /\ kept' = Append(kept, [part |-> nextPart, size |-> n])
                      /\ nextPart' = nextPart + 1 /\ fat' = "parts"
                      /\ UNCHANGED <<form, params, memleft, fieldsleft, numfiles, values, tempFiles>>
              /\ UNCHANGED formFaults

FormNext == EndForm \/ BadPart \/ SkipPart \/ TakeField \/ OpenFile \/ FillFile

FormInit(forms, limits) ==
    /\ form \in forms /\ params \in limits
    /\ nextPart = 1 /\ fat = "parts"
    /\ memleft = params.memory /\ fieldsleft = params.fields /\ numfiles = 0
    /\ filebytesleft = IF params.all > 0 THEN params.all ELSE MaxInt64
    /\ values = <<>> /\ kept = <<>> /\ tempFiles = {} /\ formFaults = 0
-----------------------------------------------------------------------------
\* The parts of a kind among the first n of f, and how long they are together.
Among(f, kind) ==
    LET first[n \in 0 .. Len(f)] ==
            IF n = 0 THEN <<>>
            ELSE IF f[n].kind = kind
            THEN Append(first[n - 1], [part |-> n, size |-> f[n].size])
            ELSE first[n - 1]
    IN  first
Together(f, kind) ==
    LET first[n \in 0 .. Len(f)] ==
            IF n = 0 THEN 0
            ELSE first[n - 1] + (IF f[n].kind = kind THEN f[n].size ELSE 0)
    IN  first

Wanted(kind) == Among(form, kind)[Len(form)]
TotalSize(kind) == Together(form, kind)[Len(form)]

WithinLimits ==
    LET fields == Wanted("field")
        fs == Wanted("file")
    IN  /\ Len(fields) <= params.fields /\ TotalSize("field") <= params.memory
        /\ params.count >= 0 => Len(fs) <= params.count
        /\ params.single > 0 => \A i \in DOMAIN fs : fs[i].size <= params.single
        /\ params.all > 0 => TotalSize("file") <= params.all

\* A form is taken whole or not at all.  If it is taken, everything that is
\* wanted is there in full, each file in a temporary file, and no limit is
\* passed.  If it is refused, no temporary file is left, and there is a reason:
\* a limit, a part that cannot be read, a call that failed, or a file, be it
\* empty, after others have used up all there is for files.
FormTrue ==
    /\ fat = "parsed" => /\ values = Wanted("field") /\ kept = Wanted("file")
                         /\ tempFiles = {kept[i].part : i \in DOMAIN kept}
                         /\ WithinLimits
    /\ fat = "failed" => /\ tempFiles = {}
                         /\ \/ ~WithinLimits \/ formFaults > 0
                            \/ \E i \in DOMAIN form : form[i].cut \/ form[i].kind = "badhead"
                            \/ params.all > 0 /\ TotalSize("file") = params.all
=============================================================================
