----------------------------- MODULE BufReader -----------------------------
(***************************************************************************)
(* The buffered reader (utils/text/bufreader/bufreader.go) under the NNTP  *)
(* server and client, the dot reader and the mail readers.                 *)
(*                                                                         *)
(* The bytes b[r:w] that are buffered are the sequence buf and r is lead;  *)
(* the reader below returns as many bytes as it likes, and may report the  *)
(* end of its data with the last bytes or after them.  A call of a method  *)
(* takes a step per read from below.  The callers of this module alone     *)
(* call the methods in any order; the readers built on it have callers of  *)
(* their own.                                                              *)
(***************************************************************************)
EXTENDS Integers, Sequences, FiniteSetsExt, SequencesExt

VARIABLES
    size,   \* len(r.b)
    input,  \* all the bytes there are
    src,    \* those the reader below still has
    buf,    \* r.b[r.r:r.w]
    lead,   \* r.r
    queued, \* r.err
    given,  \* the bytes that were handed over, in order
    call,   \* the method that is running, what it was asked for and has read
    last    \* how the last call ended

readerVars == <<src, buf, lead, queued, given>>
bufVars == <<size, input, readerVars, call, last>>

NoCall == [op |-> "none", want |-> 0, delim |-> "", got |-> <<>>]
NoResult == [op |-> "none", want |-> 0, delim |-> "", got |-> <<>>, err |-> "nil"]

First(s, n) == SubSeq(s, 1, n)
Rest(s, n) == SubSeq(s, n + 1, Len(s))

\* What one read from below may return into a slice of n > 0 bytes.
Reads(n) ==
    {x \in (0..Min({n, Len(src)})) \X {"nil", "EOF"} :
        IF x[2] = "EOF" THEN x[1] = Len(src) ELSE x[1] > 0}

\* r.u.Read(r.b): the buffer was empty.
Refill ==
    \E x \in Reads(size) :
        /\ buf' = First(src, x[1]) /\ src' = Rest(src, x[1])
        /\ lead' = 0 /\ queued' = x[2] /\ UNCHANGED given

\* The next n bytes go to the caller: r.r += n
Take(n) ==
    /\ buf' = Rest(buf, n) /\ lead' = lead + n
    /\ given' = given \o First(buf, n)
    /\ UNCHANGED <<src, queued>>

\* Where the next byte goes after Capacity, FillBufferAtleast or
\* FillBufferUpto found the buffer empty.
Rewound == IF buf = <<>> THEN 0 ELSE lead

Capacity == size - Rewound - Len(buf)

\* r.u.Read(r.b[r.w:]), most bytes at most: bytes are added to the buffer.
Extend(most) ==
    \E x \in Reads(Min({most, Capacity})) :
        /\ buf' = buf \o First(src, x[1]) /\ src' = Rest(src, x[1])
        /\ lead' = Rewound /\ queued' = x[2] /\ UNCHANGED given

CompactBuffer == lead' = 0 /\ UNCHANGED <<src, buf, queued, given>>

\* r.readErr()
readErr == queued' = "nil" /\ UNCHANGED <<src, buf, lead, given>>

\* Wrong: r.r stays where it is, the byte overwrites the next one.
UnreadByteOver(c) ==
    /\ buf' = <<c>> \o Rest(buf, 1)
    /\ given' = Front(given)
    /\ UNCHANGED <<lead, src, queued>>

\* r.UnreadByte(c)
CanUnread == lead # 0 \/ buf = <<>>
UnreadByte(c) ==
    /\ buf' = <<c>> \o buf
    /\ lead' = IF lead = 0 THEN 0 ELSE lead - 1
    /\ given' = Front(given)
    /\ UNCHANGED <<src, queued>>

Calling(op, want, delim) ==
    call' = [op |-> op, want |-> want, delim |-> delim, got |-> <<>>]

Returns(got, err) ==
    /\ call' = NoCall
    /\ last' = [op |-> call.op, want |-> call.want, delim |-> call.delim,
                got |-> call.got \o got, err |-> err]

\* The call goes on, having copied these bytes.
Copies(got) ==
    /\ call' = [call EXCEPT !.got = @ \o got]
    /\ UNCHANGED last

Start(wants, delims) ==
    /\ call = NoCall
    /\ \/ \E op \in {"Read", "FillBufferAtleast", "FillBufferUpto"}, w \in wants :
              Calling(op, w, "")
       \/ \E w \in wants, q \in delims : Calling("ReadUntil", w, q)
       \/ \E w \in wants \cup {-1} : Calling("Discard", w, "")
       \/ Calling("ReadByte", 1, "")
    /\ last' = NoResult
    /\ IF call'.op \in {"FillBufferAtleast", "FillBufferUpto"}
       THEN lead' = Rewound
       ELSE lead' = lead
    /\ UNCHANGED <<size, input, src, buf, queued, given>>

\* The loop all reading methods begin with: nothing is buffered.
Starved ==
    /\ buf = <<>>
    /\ \/ /\ queued # "nil" /\ readErr /\ Returns(<<>>, queued)
       \/ /\ queued = "nil" /\ Refill
          /\ UNCHANGED <<call, last>>

Read ==
    /\ call.op = "Read"
    /\ \/ buf # <<>>
          /\ LET n == Min({call.want, Len(buf)})
             IN  Take(n) /\ Returns(First(buf, n), "nil")
       \/ call.want < size /\ Starved
       \/ /\ call.want >= size /\ buf = <<>> /\ queued # "nil"
          /\ readErr /\ Returns(<<>>, queued)
       \/ /\ call.want >= size /\ buf = <<>> /\ queued = "nil"
          /\ \E x \in Reads(call.want) :      \* direct read
                /\ src' = Rest(src, x[1]) /\ Returns(First(src, x[1]), x[2])
                /\ given' = given \o First(src, x[1])
          /\ UNCHANGED <<buf, lead, queued>>
    /\ UNCHANGED <<size, input>>

ReadByte ==
    /\ call.op = "ReadByte"
    /\ \/ buf # <<>> /\ Take(1) /\ Returns(First(buf, 1), "nil")
       \/ Starved
    /\ UNCHANGED <<size, input>>

\* The bytes of the buffer that fit into the rest of p, up to delim.
ReadUntil ==
    /\ call.op = "ReadUntil"
    /\ \/ /\ buf # <<>>
          /\ LET here == First(buf, Min({Len(buf), call.want - Len(call.got)}))
                 at == SelectInSeq(here, LAMBDA c : c = call.delim)
                 n == IF at > 0 THEN at ELSE Len(here)
             IN  /\ Take(n)
                 /\ IF at > 0 THEN Returns(First(here, n), "nil")
                    ELSE IF Len(call.got) + n >= call.want
                    THEN Returns(here, "ErrDelimNotFound")
                    ELSE Copies(here)
       \/ Starved
    /\ UNCHANGED <<size, input>>

\* n bytes are added to the buffer; call.got counts them.
FillBufferAtleast ==
    /\ call.op = "FillBufferAtleast"
    /\ IF lead + Len(buf) < size /\ Len(call.got) < call.want
       THEN IF queued # "nil"
            THEN readErr /\ Returns(<<>>, queued)
            ELSE /\ Extend(size) /\ UNCHANGED last
                 /\ call' = [call EXCEPT !.got = @ \o Rest(buf', Len(buf))]
       ELSE Returns(<<>>, "nil") /\ UNCHANGED readerVars
    /\ UNCHANGED <<size, input>>

FillBufferUpto ==
    /\ call.op = "FillBufferUpto"
    /\ IF lead + Len(buf) < size /\ (call.want <= 0 \/ Len(buf) < call.want)
       THEN IF queued # "nil"
            THEN IF call.got # <<>> \/ call.want <= 0
                 THEN Returns(<<>>, "nil") /\ UNCHANGED readerVars
                 ELSE readErr /\ Returns(<<>>, queued)
            ELSE /\ Extend(size) /\ UNCHANGED last
                 /\ call' = [call EXCEPT !.got = @ \o Rest(buf', Len(buf))]
       ELSE Returns(<<>>, "nil") /\ UNCHANGED readerVars
    /\ UNCHANGED <<size, input>>

\* call.got holds what was skipped; want = -1 skips everything.
Discard ==
    /\ call.op = "Discard"
    /\ LET left == call.want - Len(call.got)
       IN  IF call.want >= 0 /\ Len(buf) >= left
           THEN Take(left) /\ Returns(First(buf, left), "nil")
           ELSE IF queued # "nil"
           THEN /\ buf' = <<>> /\ lead' = 0 /\ queued' = "nil" /\ UNCHANGED src
                /\ given' = given \o buf /\ Returns(buf, queued)
           ELSE /\ \E x \in Reads(size) :
                      /\ buf' = First(src, x[1]) /\ src' = Rest(src, x[1])
                      /\ lead' = 0 /\ queued' = x[2]
                /\ given' = given \o buf /\ Copies(buf)
    /\ UNCHANGED <<size, input>>

\* UnreadByte of the byte that was just read, and CompactBuffer.
Between ==
    /\ call = NoCall
    /\ \/ /\ last.op = "ReadByte" /\ last.err = "nil" /\ CanUnread
          /\ UnreadByte(last.got[1])
       \/ lead > 0 /\ CompactBuffer
    /\ last' = NoResult
    /\ UNCHANGED <<size, input, call>>

BufInit(inputs, sizes) ==
    /\ size \in sizes /\ input \in inputs /\ src = input
    /\ buf = <<>> /\ lead = 0 /\ queued = "nil"
    /\ given = <<>> /\ call = NoCall /\ last = NoResult

BufNext(wants, delims) ==
    \/ Start(wants, delims)
    \/ Read \/ ReadByte \/ ReadUntil
    \/ FillBufferAtleast \/ FillBufferUpto \/ Discard
    \/ Between
-----------------------------------------------------------------------------
BufTypeOK ==
    /\ src = Rest(input, Len(input) - Len(src))
    /\ lead \in 0..size /\ lead + Len(buf) <= size
    /\ queued \in {"nil", "EOF", "limit"}

\* Whatever methods are called in whatever order and however the bytes
\* arrive, none is lost, doubled or moved.  The methods that hand bytes over
\* report the end only after the last byte.  ReadUntil ends with the
\* delimiter or says that it is not there, and nothing before the end of
\* what it returned is the delimiter.
InOrder ==
    /\ given \o buf \o src = input
    /\ last.op \in {"Read", "ReadByte", "ReadUntil", "Discard"} /\ last.err = "EOF" =>
           buf = <<>> /\ src = <<>>
    /\ last.op = "ReadUntil" =>
           LET n == Len(last.got)
           IN  /\ \A i \in 1..(n - 1) : last.got[i] # last.delim
               /\ last.err = "nil" <=> n > 0 /\ last.got[n] = last.delim
               /\ last.err = "ErrDelimNotFound" => n = last.want
=============================================================================
