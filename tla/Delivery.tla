------------------------------ MODULE Delivery ------------------------------
(***************************************************************************)
(* What a client of the file cache is promised: the part of the article it *)
(* asked for arrives in order, without gaps and repetitions, and it is     *)
(* told that the part is complete only when all of it has been sent.       *)
(* Abstract; CacheCopy implements it.                                      *)
(***************************************************************************)
EXTENDS Naturals, Sequences

VARIABLES wanted,   \* what the client asked for
          sent,     \* what it has been sent
          outcome   \* "running", "ok" or "failed"

Init == sent = <<>> /\ outcome = "running"

\* More of it is sent, and the delivery may end with that.
Send ==
    /\ outcome = "running"
    /\ \E k \in Len(sent) .. Len(wanted) :
          /\ sent' = SubSeq(wanted, 1, k)
          /\ \/ outcome' \in {"running", "failed"}
             \/ outcome' = "ok" /\ k = Len(wanted)
    /\ UNCHANGED wanted

Spec == Init /\ [][Send]_<<wanted, sent, outcome>>
=============================================================================
