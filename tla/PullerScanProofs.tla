-------------------------- MODULE PullerScanProofs --------------------------
(***************************************************************************)
(* Proofs about PullerScan, for any groups, articles, slices and methods:  *)
(* no article is passed over.  The argument follows the number that a row  *)
(* of the table holds from where it is recorded to where the next scan     *)
(* begins behind it: in the table, in the rows that a query yields, in the *)
(* group that is looked at, and in the slices.  In each of these places a  *)
(* number is either one up to which everything has been looked at, or one  *)
(* of an earlier numbering of the group, and then it is too large to be    *)
(* mistaken for one of this numbering (ReachedOK).                         *)
(***************************************************************************)
EXTENDS PullerScan, FiniteSetTheorems, WellFoundedInduction, TLAPS

\* Article a of group g, in the numbering that the server has now.
Now(g, a) == [era |-> era[g], id |-> a]

\* The articles of g that can be understood.
Readable(g) == arts[g] \ Unreadable

\* Everything in g up to id has been looked at.
Covered(g, id) == \A a \in Readable(g) : a <= id => Now(g, a) \in seen[g]

\* A number that the puller has of g is of this numbering and everything up to
\* it has been looked at, or it is of a former one.
Reached(g, id) ==
    \/ id <= 0
    \/ former[g] = 0 /\ id <= hi[g] /\ Covered(g, id)
    \/ former[g] # 0 /\ id >= former[g]

\* What the server has of a numbering that the puller does not know yet.
FormerOK == \A g \in Groups : former[g] # 0 => hi[g] < former[g]

TrackOK == \A g \in Groups : Reached(g, track[g].last)

\* What a list has noted, until it is loaded: the server was there once.
NextOK ==
    pc = "load" /\ ~tempOpen => \A g \in Groups : track[g].used => track[g].next <= hi[g]

Busy == pc \in {"group", "slice", "todo"}

\* The rows that are loaded and not yielded: one a group, and not the one that
\* is looked at.
RowsOK ==
    /\ ~tempOpen => tempRows = {}
    /\ \A r \in tempRows : Reached(r.g, r.old) /\ r.new <= hi[r.g]
    /\ \A r, s \in tempRows : r.g = s.g => r = s
    /\ Busy => tempOpen /\ \A r \in tempRows : r.g # grp.g

\* The group that is looked at.
GroupOK ==
    Busy => /\ Reached(grp.g, grp.old)
            /\ grp.new <= hi[grp.g]
            /\ pc = "group" /\ grp.new >= 0 => grp.old <= grp.new

\* The slice begins behind what has been looked at, and what it ends with is
\* there already.
SliceOK ==
    pc \in {"slice", "todo"} =>
        /\ grp.old <= hi[grp.g]
        /\ slice.begin <= hi[grp.g] + 1
        /\ Covered(grp.g, slice.begin - 1)
        /\ slice.end >= 0 => slice.begin <= slice.end /\ slice.end < grp.new

\* What is listed of it is the slice as it was: what is missing came later.
ListOK ==
    pc = "todo" =>
        /\ \A x \in todoList :
              /\ x.era = era[grp.g]
              /\ x.id <= hi[grp.g]
              /\ IF slice.end >= 0 THEN x.id <= slice.end
                                   ELSE x.id < slice.begin + MaxListSize
        /\ \A a \in Readable(grp.g) :
              /\ InSlice(a)
              /\ Now(grp.g, a) \notin todoList
              => slice.end < 0 /\ \A x \in todoList : x.id < a

ScanInv ==
    ScanTypeOK /\ FormerOK /\ TrackOK /\ NextOK /\ RowsOK /\ GroupOK /\ SliceOK /\ ListOK
-----------------------------------------------------------------------------
(***************************************************************************)
(* Least and largest numbers of a set.                                     *)
(***************************************************************************)

\* A set of natural numbers that is not empty has a least one.
LEMMA HasLeast ==
    ASSUME NEW S, S \subseteq Nat, S # {}
    PROVE  \E x \in S : \A y \in S : x <= y
<1>1. IsWellFoundedOn(OpToRel(<, Nat), Nat)
  BY NatLessThanWellFounded
<1>2. PICK x \in S : \A y \in S : <<y, x>> \notin OpToRel(<, Nat)
  BY <1>1, WFMin
<1>3. \A y \in S : ~(y < x)
  BY <1>2 DEF OpToRel
<1>4. QED
  BY <1>3

\* Min of the community modules takes it.
LEMMA MinOf ==
    ASSUME NEW S, S \subseteq Nat, S # {}
    PROVE  Min(S) \in S /\ \A y \in S : Min(S) <= y
BY HasLeast DEF Min

\* If its numbers are bounded it has a largest one.
LEMMA MaxOf ==
    ASSUME NEW k \in Nat, NEW S, S \subseteq 0 .. k, S # {}
    PROVE  Max(S) \in S /\ \A y \in S : y <= Max(S)
<1> DEFINE above == {x \in Nat : \A y \in S : y <= x}
<1>1. above \subseteq Nat /\ k \in above
  OBVIOUS
<1>2. PICK x \in above : \A y \in above : x <= y
  BY <1>1, HasLeast
<1>3. x \in S
  <2>1. CASE x = 0
    <3>1. PICK y \in S : TRUE
      OBVIOUS
    <3>2. y = 0
      BY <2>1, <3>1
    <3>3. QED
      BY <2>1, <3>2
  <2>2. CASE x # 0 /\ x \notin S
    <3>1. x - 1 \in above
      BY <1>2, <2>2
    <3>2. QED
      BY <1>2, <3>1
  <2>3. QED
    BY <2>1, <2>2
<1>4. QED
  BY <1>2, <1>3 DEF Max

\* What processTODOList returns as new_maxid.
LEMMA LargestOf ==
    ASSUME NEW done, \A x \in done : x.id \in 1 .. MaxId
    PROVE  /\ LargestId(done) \in -1 .. MaxId
           /\ \A x \in done : x.id <= LargestId(done)
           /\ LargestId(done) >= 0 => \E x \in done : x.id = LargestId(done)
<1> DEFINE ids == {x.id : x \in done}
<1>1. CASE done = {}
  BY <1>1, ScanAssumption DEF LargestId
<1>2. CASE done # {}
  <2>1. ids # {} /\ ids \subseteq 0 .. MaxId
    BY <1>2
  <2>2. Max(ids) \in ids /\ \A y \in ids : y <= Max(ids)
    BY <2>1, MaxOf, ScanAssumption
  <2>3. LargestId(done) = Max(ids)
    BY <1>2 DEF LargestId
  <2>4. \A x \in done : x.id <= LargestId(done)
    BY <2>2, <2>3
  <2>5. PICK x \in done : x.id = LargestId(done)
    BY <2>2, <2>3
  <2>6. QED
    BY <2>4, <2>5, ScanAssumption
<1>3. QED
  BY <1>1, <1>2
-----------------------------------------------------------------------------
(***************************************************************************)
(* Steps that change neither the server nor what has been looked at.       *)
(***************************************************************************)

\* What a number says does not change then.
LEMMA ReachedSame ==
    ASSUME UNCHANGED <<hi, arts, era, seen>>
    PROVE  \A g, id : former'[g] = former[g] /\ Reached(g, id) => Reached(g, id)'
BY DEF Reached, Covered, Readable, Now

\* Connect, Wait, Break and Restart begin nothing and know nothing new.
LEMMA IdleStep ==
    ASSUME ScanInv, Connect \/ Wait \/ Break \/ Restart
    PROVE  ScanInv'
<1> USE ScanAssumption DEF ScanInv
<1>1. /\ UNCHANGED <<server, seen, track, grp, slice, todoList>>
      /\ pc' \in {"dial", "list"}
      /\ UNCHANGED <<tempOpen, tempRows>> \/ (tempOpen' = FALSE /\ tempRows' = {})
  BY DEF Connect, Wait, Break, Restart, server, groupTable, work
<1>2. UNCHANGED <<hi, arts, era, former, carried>>
  BY <1>1 DEF server
<1>3. ScanTypeOK'
  <2>1. badList' \subseteq {"active", "newsgroups"} /\ bad' \subseteq Methods
    BY DEF ScanTypeOK, Connect, Wait, Break, Restart, client
  <2>2. QED
    BY <1>1, <1>2, <2>1 DEF ScanTypeOK, HasRow
<1>4. FormerOK' /\ TrackOK'
  BY <1>1, <1>2, ReachedSame DEF FormerOK, TrackOK, ScanTypeOK
<1>5. RowsOK'
  BY <1>1, <1>2, ReachedSame DEF RowsOK, Busy
<1>6. NextOK' /\ GroupOK' /\ SliceOK' /\ ListOK'
  BY <1>1 DEF NextOK, GroupOK, SliceOK, ListOK, Busy
<1>7. QED
  BY <1>3, <1>4, <1>5, <1>6

\* A list changes which rows are used, and begins new ones at 0.
LEMMA ListStep ==
    ASSUME ScanInv, ListGroups
    PROVE  ScanInv'
<1> USE ScanAssumption DEF ScanInv
<1>1. /\ UNCHANGED <<hi, arts, era, former, carried, tempOpen, tempRows, bad, grp, slice, todoList,
                     seen, changes>>
      /\ pc' \in {"load", "list2", "dial"}
      /\ \/ UNCHANGED track
         \/ \E some \in SUBSET Groups, method \in {"active", "newsgroups"} :
               \E next \in Marks(method) :
                  track' \in {Stored(some, next), FinishedTemp(Stored(some, next))}
      /\ pc' = "load" => \E method \in {"active", "newsgroups"} :
               \E next \in Marks(method) : track' = FinishedTemp(Stored(carried, next))
  BY DEF ScanTypeOK, ListGroups, ListComplete, ListFails, server, work
<1>2. ASSUME NEW method \in {"active", "newsgroups"}, NEW next \in Marks(method)
      PROVE  \A g \in Groups : next[g] \in -1 .. MaxId /\ next[g] <= hi[g]
  BY <1>2 DEF Marks, Mark, ScanTypeOK, GroupIds
<1>3. \A g \in Groups :
         /\ track'[g] \in [used : BOOLEAN, last : -1 .. MaxId, next : -1 .. MaxId]
         /\ track'[g].last \in {track[g].last, 0, -1}
         /\ HasRow(g)' => track'[g].last >= 0
  <2>1. CASE UNCHANGED track
    BY <2>1 DEF ScanTypeOK, HasRow
  <2>2. ASSUME NEW some \in SUBSET Groups, NEW method \in {"active", "newsgroups"},
               NEW next \in Marks(method),
               track' \in {Stored(some, next), FinishedTemp(Stored(some, next))},
               NEW g \in Groups
        PROVE  /\ track'[g] \in [used : BOOLEAN, last : -1 .. MaxId, next : -1 .. MaxId]
               /\ track'[g].last \in {track[g].last, 0, -1}
               /\ HasRow(g)' => track'[g].last >= 0
    <3> DEFINE old == track[g]
               row == Stored(some, next)[g]
    <3>1. /\ old \in [used : BOOLEAN, last : -1 .. MaxId, next : -1 .. MaxId]
          /\ old # NoRow => old.last >= 0
      BY DEF ScanTypeOK, HasRow
    <3>2. next[g] \in -1 .. MaxId
      BY <1>2
    <3>3. CASE track'[g] = NoRow
      <4>1. /\ NoRow \in [used : BOOLEAN, last : -1 .. MaxId, next : -1 .. MaxId]
            /\ NoRow.last = -1
        BY DEF NoRow
      <4>2. ~HasRow(g)'
        BY <3>3 DEF HasRow
      <4>3. QED
        BY <3>3, <4>1, <4>2
    <3>4. CASE g \in some /\ track'[g] # NoRow
      <4>1. row = [used |-> TRUE, last |-> IF old # NoRow THEN old.last ELSE 0,
                   next |-> next[g]]
        BY <3>4 DEF Stored, HasRow
      <4>2. track'[g] = row
        BY <2>2, <3>4 DEF FinishedTemp
      <4>3. /\ row \in [used : BOOLEAN, last : -1 .. MaxId, next : -1 .. MaxId]
            /\ row.last \in {old.last, 0} /\ row.last >= 0
        BY <3>1, <3>2, <4>1
      <4>4. QED
        BY <4>2, <4>3
    <3>5. CASE g \notin some /\ track'[g] # NoRow
      <4>1. row = [used |-> FALSE, last |-> old.last, next |-> old.next]
        BY <3>1, <3>5 DEF Stored
      <4>2. track'[g] = row
        BY <2>2, <3>5 DEF FinishedTemp
      <4>3. old # NoRow
        <5>1. SUFFICES ASSUME old = NoRow
                       PROVE  row = NoRow
          BY <3>5, <4>2
        <5>2. QED
          BY <4>1, <5>1 DEF NoRow
      <4>4. row \in [used : BOOLEAN, last : -1 .. MaxId, next : -1 .. MaxId]
            /\ row.last = old.last
        BY <3>1, <4>1
      <4>5. QED
        BY <3>1, <4>2, <4>3, <4>4
    <3>6. QED
      BY <3>3, <3>4, <3>5
  <2>3. QED
    BY <1>1, <2>1, <2>2
<1>4. ScanTypeOK'
  <2>1. badList' \subseteq {"active", "newsgroups"}
    BY DEF ScanTypeOK, ListGroups, ListComplete, ListFails
  <2>2. DOMAIN track' = Groups /\ track' = [g \in Groups |-> track'[g]]
    BY <1>1 DEF ScanTypeOK, Stored, FinishedTemp
  <2>3. track' \in [Groups -> [used : BOOLEAN, last : -1 .. MaxId, next : -1 .. MaxId]]
    BY <1>3, <2>2
  <2>4. QED
    BY <1>1, <1>3, <2>1, <2>3 DEF ScanTypeOK
<1>5. FormerOK' /\ TrackOK'
  <2>1. ASSUME NEW g \in Groups
        PROVE  Reached(g, track[g].last)'
    <3>1. track'[g].last \in {0, -1} => Reached(g, track[g].last)'
      BY DEF Reached
    <3>2. Reached(g, track[g].last)
      BY DEF TrackOK
    <3>3. QED
      BY <1>1, <1>3, <3>1, <3>2, ReachedSame
  <2>2. QED
    BY <1>1, <2>1 DEF FormerOK, TrackOK
<1>6. NextOK'
  <2>1. SUFFICES ASSUME pc' = "load", NEW g \in Groups, track'[g].used
                 PROVE  track'[g].next <= hi[g]
    BY <1>1 DEF NextOK
  <2>2. PICK method \in {"active", "newsgroups"} : \E next \in Marks(method) :
           track' = FinishedTemp(Stored(carried, next))
    BY <1>1, <2>1
  <2>3. PICK next \in Marks(method) : track' = FinishedTemp(Stored(carried, next))
    BY <2>2
  <2>4. track[g] \in [used : BOOLEAN, last : -1 .. MaxId, next : -1 .. MaxId]
    BY DEF ScanTypeOK
  <2>5. g \in carried
    BY <2>1, <2>3, <2>4 DEF FinishedTemp, Stored, NoRow
  <2>6. track'[g].next = next[g]
    BY <2>1, <2>3, <2>5 DEF FinishedTemp, Stored, NoRow
  <2>7. QED
    BY <1>2, <2>6
<1>7. RowsOK'
  BY <1>1, ReachedSame DEF RowsOK, Busy
<1>8. GroupOK' /\ SliceOK' /\ ListOK'
  BY <1>1 DEF GroupOK, SliceOK, ListOK, Busy
<1>9. QED
  BY <1>4, <1>5, <1>6, <1>7, <1>8
-----------------------------------------------------------------------------
(***************************************************************************)
(* Steps that look at a group.                                             *)
(***************************************************************************)

\* UpdateGroupID(group, 0), whether it fails or not: what other numbers of the
\* puller say does not change, if it has none of g but the one in the table.
LEMMA UnsetStep ==
    ASSUME ScanInv, NEW g \in Groups, UnsetGroupID(g), UNCHANGED <<hi, arts, era, seen>>
    PROVE  /\ track' \in [Groups -> [used : BOOLEAN, last : -1 .. MaxId, next : -1 .. MaxId]]
           /\ \A h \in Groups : HasRow(h)' => track'[h].last >= 0
           /\ former' \in [Groups -> GroupIds]
           /\ FormerOK' /\ TrackOK'
           /\ \A h \in Groups : \A id : h # g /\ Reached(h, id) => Reached(h, id)'
<1> USE ScanAssumption DEF ScanInv
<1>1. CASE UNCHANGED <<track, former>>
  <2>1. /\ track' \in [Groups -> [used : BOOLEAN, last : -1 .. MaxId, next : -1 .. MaxId]]
        /\ \A h \in Groups : HasRow(h)' => track'[h].last >= 0
        /\ former' \in [Groups -> GroupIds]
    BY <1>1 DEF ScanTypeOK, HasRow
  <2>2. FormerOK' /\ TrackOK'
    BY <1>1, ReachedSame DEF FormerOK, TrackOK
  <2>3. \A h \in Groups : \A id : h # g /\ Reached(h, id) => Reached(h, id)'
    BY <1>1, ReachedSame
  <2>4. QED
    BY <2>1, <2>2, <2>3
<1>2. CASE /\ track' = [track EXCEPT ![g] = NoRow]
           /\ former' = [former EXCEPT ![g] = 0]
  <2>1. NoRow \in [used : BOOLEAN, last : -1 .. MaxId, next : -1 .. MaxId] /\ NoRow.last = -1
    BY DEF NoRow
  <2>2. track' \in [Groups -> [used : BOOLEAN, last : -1 .. MaxId, next : -1 .. MaxId]]
    BY <1>2, <2>1 DEF ScanTypeOK
  <2>3. \A h \in Groups : HasRow(h)' => track'[h].last >= 0
    BY <1>2 DEF ScanTypeOK, HasRow
  <2>4. former' \in [Groups -> GroupIds] /\ FormerOK'
    BY <1>2 DEF ScanTypeOK, FormerOK, GroupIds
  <2>5. \A h \in Groups : \A id : h # g /\ Reached(h, id) => Reached(h, id)'
    BY <1>2, ReachedSame DEF ScanTypeOK
  <2>6. TrackOK'
    <3>1. ASSUME NEW h \in Groups
          PROVE  Reached(h, track[h].last)'
      <4>1. CASE h = g
        <5>1. track'[h].last = -1
          BY <1>2, <2>1, <4>1 DEF ScanTypeOK
        <5>2. QED
          BY <5>1 DEF Reached
      <4>2. CASE h # g
        BY <1>2, <2>5, <4>2 DEF TrackOK, ScanTypeOK
      <4>3. QED
        BY <4>1, <4>2
    <3>2. QED
      BY <3>1 DEF TrackOK
  <2>7. QED
    BY <2>2, <2>3, <2>4, <2>5, <2>6
<1>3. QED
  BY <1>1, <1>2 DEF UnsetGroupID

\* The rows that a query finds.
LEMMA RowsLeftOK ==
    ASSUME ScanInv, pc = "load"
    PROVE  /\ RowsLeft \subseteq Rows
           /\ \A r \in RowsLeft : Reached(r.g, r.old) /\ r.new <= hi[r.g]
           /\ \A r, s \in RowsLeft : r.g = s.g => r = s
<1> USE ScanAssumption DEF ScanInv
<1>1. CASE tempOpen
  BY <1>1 DEF RowsLeft, RowsOK, ScanTypeOK
<1>2. CASE ~tempOpen
  <2>1. RowsLeft = {[g |-> h, new |-> track[h].next, old |-> track[h].last] :
                        h \in {x \in Groups : track[x].used}}
    BY <1>2 DEF RowsLeft, Selected
  <2>2. ASSUME NEW h \in Groups, track[h].used
        PROVE  /\ track[h].next \in -1 .. MaxId /\ track[h].last \in GroupIds
               /\ track[h].next <= hi[h]
               /\ Reached(h, track[h].last)
    <3>1. HasRow(h)
      BY <2>2 DEF HasRow, NoRow
    <3>2. QED
      BY <1>2, <2>2, <3>1 DEF ScanTypeOK, GroupIds, NextOK, TrackOK
  <2>3. ASSUME NEW r \in RowsLeft
        PROVE  /\ r \in Rows /\ Reached(r.g, r.old) /\ r.new <= hi[r.g]
               /\ r = [g |-> r.g, new |-> track[r.g].next, old |-> track[r.g].last]
    <3>1. PICK h \in Groups : /\ track[h].used
                              /\ r = [g |-> h, new |-> track[h].next, old |-> track[h].last]
      BY <2>1
    <3>2. r.g = h /\ r.new = track[h].next /\ r.old = track[h].last
      BY <3>1
    <3>3. QED
      BY <2>2, <3>1, <3>2 DEF Rows
  <2>4. \A r, s \in RowsLeft : r.g = s.g => r = s
    BY <2>3
  <2>5. QED
    BY <2>3, <2>4
<1>3. QED
  BY <1>1, <1>2 DEF ScanTypeOK

\* groupScanLoop takes the next row, and forgets the number if it went down.
LEMMA LoadStep ==
    ASSUME ScanInv, Load
    PROVE  ScanInv'
<1> USE ScanAssumption DEF ScanInv
<1>1. /\ pc = "load"
      /\ UNCHANGED <<hi, arts, era, carried, badList, bad, slice, todoList, seen>>
  BY DEF Load, client
<1>2. CASE /\ tempOpen' = FALSE /\ tempRows' = {} /\ pc' = "wait"
           /\ UNCHANGED <<track, grp, former>>
  <2>1. ScanTypeOK'
    BY <1>1, <1>2 DEF ScanTypeOK, HasRow
  <2>2. FormerOK' /\ TrackOK'
    BY <1>1, <1>2, ReachedSame DEF FormerOK, TrackOK
  <2>3. NextOK' /\ RowsOK' /\ GroupOK' /\ SliceOK' /\ ListOK'
    BY <1>2 DEF NextOK, RowsOK, GroupOK, SliceOK, ListOK, Busy
  <2>4. QED
    BY <2>1, <2>2, <2>3
<1>3. ASSUME NEW r \in RowsLeft, tempOpen' = TRUE, tempRows' = RowsLeft \ {r},
             \/ /\ pc' = "load"
                /\ UNCHANGED <<track, grp, former>>
             \/ /\ r.new >= 0 /\ r.old > r.new
                /\ UnsetGroupID(r.g)
                /\ grp' = [r EXCEPT !.old = 0]
                /\ pc' = "group"
             \/ /\ r.new < 0 \/ r.old < r.new
                /\ grp' = r
                /\ pc' = "group"
                /\ UNCHANGED <<track, former>>
      PROVE  ScanInv'
  <2>1. /\ RowsLeft \subseteq Rows
        /\ \A s \in RowsLeft : Reached(s.g, s.old) /\ s.new <= hi[s.g]
        /\ \A s, t \in RowsLeft : s.g = t.g => s = t
    BY <1>1, RowsLeftOK
  <2>2. r.g \in Groups /\ r.new \in -1 .. MaxId /\ r.old \in GroupIds
    BY <2>1 DEF Rows
  <2>3. /\ track' \in [Groups -> [used : BOOLEAN, last : -1 .. MaxId, next : -1 .. MaxId]]
        /\ \A h \in Groups : HasRow(h)' => track'[h].last >= 0
        /\ former' \in [Groups -> GroupIds]
        /\ FormerOK' /\ TrackOK'
        /\ \A h \in Groups : \A id : h # r.g /\ Reached(h, id) => Reached(h, id)'
    <3>1. CASE UNCHANGED <<track, former>>
      <4>1. /\ FormerOK' /\ TrackOK'
            /\ \A h \in Groups : \A id : Reached(h, id) => Reached(h, id)'
        BY <1>1, <3>1, ReachedSame DEF FormerOK, TrackOK
      <4>2. QED
        BY <3>1, <4>1 DEF ScanTypeOK, HasRow
    <3>2. CASE UnsetGroupID(r.g)
      BY <1>1, <2>2, <3>2, UnsetStep
    <3>3. QED
      BY <1>3, <3>1, <3>2
  <2>4. grp' \in Rows /\ (pc' = "group" => grp'.g = r.g)
    BY <1>3, <2>1, <2>2 DEF ScanTypeOK, Rows, GroupIds
  <2>5. ScanTypeOK'
    BY <1>1, <1>3, <2>1, <2>3, <2>4 DEF ScanTypeOK
  <2>6. RowsOK'
    <3>1. ASSUME NEW s \in tempRows'
          PROVE  s.g # r.g /\ s.g \in Groups
      BY <1>3, <2>1 DEF Rows
    <3>2. QED
      BY <1>1, <1>3, <2>1, <2>3, <2>4, <3>1 DEF RowsOK, Busy
  <2>7. GroupOK'
    <3>1. CASE pc' = "load"
      BY <3>1 DEF GroupOK, Busy
    <3>2. CASE grp' = [r EXCEPT !.old = 0] /\ r.new >= 0
      <4>1. grp'.g = r.g /\ grp'.new = r.new /\ grp'.old = 0
        BY <2>1, <3>2 DEF Rows
      <4>2. QED
        BY <1>1, <2>1, <2>2, <3>2, <4>1 DEF GroupOK, Reached
    <3>3. CASE grp' = r /\ UNCHANGED <<track, former>> /\ (r.new < 0 \/ r.old < r.new)
      <4>1. Reached(r.g, r.old)'
        BY <1>1, <2>1, <3>3, ReachedSame
      <4>2. Reached(grp.g, grp.old)'
        BY <3>3, <4>1 DEF Reached, Covered, Readable, Now
      <4>3. QED
        BY <1>1, <2>1, <2>2, <3>3, <4>2 DEF GroupOK, GroupIds
    <3>4. QED
      BY <1>3, <3>1, <3>2, <3>3
  <2>8. NextOK' /\ SliceOK' /\ ListOK'
    BY <1>3 DEF NextOK, SliceOK, ListOK
  <2>9. QED
    BY <2>3, <2>5, <2>6, <2>7, <2>8
<1>4. QED
  BY <1>2, <1>3 DEF Load

\* doGroup: the group is gone, or has gone down, or is read on from where the
\* last scan stopped.
LEMMA GroupStep ==
    ASSUME ScanInv, DoGroup
    PROVE  ScanInv'
<1> USE ScanAssumption DEF ScanInv
<1>1. /\ pc = "group"
      /\ UNCHANGED <<hi, arts, era, carried, tempOpen, tempRows, badList, bad, todoList, seen>>
  BY DEF DoGroup, client
<1>2. /\ grp \in Rows /\ grp.g \in Groups /\ grp.new \in -1 .. MaxId /\ grp.old \in GroupIds
      /\ Mark(grp.g) \in GroupIds /\ Mark(grp.g) <= hi[grp.g]
      /\ hi[grp.g] \in GroupIds /\ former[grp.g] \in GroupIds
  <2>1. grp \in Rows /\ grp.g \in Groups /\ grp.new \in -1 .. MaxId /\ grp.old \in GroupIds
    BY DEF ScanTypeOK, Rows
  <2>2. hi[grp.g] \in GroupIds /\ former[grp.g] \in GroupIds
    BY <2>1 DEF ScanTypeOK
  <2>3. Mark(grp.g) \in GroupIds /\ Mark(grp.g) <= hi[grp.g]
    BY <2>2 DEF Mark, GroupIds
  <2>4. QED
    BY <2>1, <2>2, <2>3
<1>3. /\ track' \in [Groups -> [used : BOOLEAN, last : -1 .. MaxId, next : -1 .. MaxId]]
      /\ \A h \in Groups : HasRow(h)' => track'[h].last >= 0
      /\ former' \in [Groups -> GroupIds]
      /\ FormerOK' /\ TrackOK'
      /\ \A h \in Groups : \A id : h # grp.g /\ Reached(h, id) => Reached(h, id)'
  <2>1. CASE UNCHANGED <<track, former>>
    <3>1. /\ FormerOK' /\ TrackOK'
          /\ \A h \in Groups : \A id : Reached(h, id) => Reached(h, id)'
      BY <1>1, <2>1, ReachedSame DEF FormerOK, TrackOK
    <3>2. QED
      BY <2>1, <3>1 DEF ScanTypeOK, HasRow
  <2>2. CASE UnsetGroupID(grp.g)
    BY <1>1, <1>2, <2>2, UnsetStep
  <2>3. QED
    BY <2>1, <2>2 DEF DoGroup, GroupThere, GroupGone, GroupOdd
<1>4. CASE pc' = "load" /\ UNCHANGED <<grp, slice>>
  <2>1. ScanTypeOK'
    BY <1>1, <1>3, <1>4 DEF ScanTypeOK
  <2>2. RowsOK'
    <3>1. \A r \in tempRows : r.g \in Groups /\ r.g # grp.g
      BY <1>1 DEF ScanTypeOK, Rows, RowsOK, Busy
    <3>2. QED
      BY <1>1, <1>3, <1>4, <3>1 DEF RowsOK, Busy
  <2>3. NextOK' /\ GroupOK' /\ SliceOK' /\ ListOK'
    BY <1>1, <1>4 DEF NextOK, RowsOK, GroupOK, SliceOK, ListOK, Busy
  <2>4. QED
    BY <1>3, <2>1, <2>2, <2>3
<1>5. ASSUME NEW new \in GroupIds, NEW old \in GroupIds, old < new, new <= hi[grp.g],
             \/ old = 0
             \/ old = grp.old /\ UNCHANGED former,
             Eat(grp.g, new, old)
      PROVE  ScanInv'
  <2>1. /\ grp' = [g |-> grp.g, new |-> new, old |-> old]
        /\ slice' = [begin |-> old + 1, end |-> SliceEnd(old + 1, new), maxid |-> old]
        /\ pc' = "slice"
    BY <1>5 DEF Eat
  <2>2. /\ SliceEnd(old + 1, new) \in {-1} \cup 1 .. MaxId
        /\ SliceEnd(old + 1, new) >= 0 =>
              old + 1 <= SliceEnd(old + 1, new) /\ SliceEnd(old + 1, new) < new
    BY <1>5 DEF SliceEnd, GroupIds
  <2>3. grp' \in Rows
        /\ slice' \in [begin : 1 .. MaxId + 1, end : {-1} \cup 1 .. MaxId, maxid : -1 .. MaxId]
    BY <1>2, <1>5, <2>1, <2>2 DEF Rows, GroupIds
  <2>4. ScanTypeOK'
    BY <1>1, <1>3, <2>1, <2>3 DEF ScanTypeOK
  <2>5. RowsOK'
    <3>1. \A r \in tempRows : r.g \in Groups /\ r.g # grp.g
      BY <1>1 DEF ScanTypeOK, Rows, RowsOK, Busy
    <3>2. QED
      BY <1>1, <1>3, <2>1, <3>1 DEF RowsOK, Busy
  <2>6. Reached(grp.g, old)' /\ Covered(grp.g, old)'
    <3>1. CASE old = 0
      <4>1. \A a \in arts[grp.g] : a \in 1 .. MaxId
        <5>1. arts[grp.g] \in SUBSET (1 .. MaxId)
          BY <1>2 DEF ScanTypeOK
        <5>2. QED
          BY <5>1
      <4>2. Covered(grp.g, 0)
        BY <4>1 DEF Covered, Readable
      <4>3. QED
        BY <1>1, <2>1, <3>1, <4>2 DEF Reached, Covered, Readable, Now
    <3>2. CASE old # 0 /\ old = grp.old /\ UNCHANGED former
      <4>1. Reached(grp.g, grp.old)
        BY <1>1 DEF GroupOK, Busy
      <4>2. former[grp.g] = 0
        <5>1. SUFFICES ASSUME former[grp.g] # 0
                       PROVE  FALSE
          OBVIOUS
        <5>2. hi[grp.g] < former[grp.g]
          BY <1>2, <5>1 DEF FormerOK
        <5>3. grp.old >= former[grp.g]
          <6>1. ~(grp.old <= 0)
            BY <1>2, <3>2 DEF GroupIds
          <6>2. QED
            BY <4>1, <5>1, <6>1 DEF Reached
        <5>4. QED
          BY <1>2, <1>5, <3>2, <5>2, <5>3 DEF GroupIds
      <4>3. Covered(grp.g, grp.old)
        BY <1>2, <1>5, <3>2, <4>1, <4>2 DEF Reached, GroupIds
      <4>4. QED
        BY <1>1, <1>2, <1>5, <2>1, <3>2, <4>2, <4>3 DEF Reached, Covered, Readable, Now, GroupIds
    <3>3. QED
      BY <1>5, <3>1, <3>2
  <2>7. GroupOK' /\ SliceOK'
    BY <1>1, <1>2, <1>5, <2>1, <2>2, <2>6 DEF GroupOK, SliceOK, GroupIds
  <2>8. NextOK' /\ ListOK'
    BY <2>1 DEF NextOK, ListOK
  <2>9. QED
    BY <1>3, <2>4, <2>5, <2>7, <2>8
<1>6. CASE GroupThere
  <2> DEFINE fresh == grp.new < 0 \/ Mark(grp.g) > grp.new
             new == IF fresh THEN Mark(grp.g) ELSE grp.new
             again == fresh /\ grp.old > new
             old == IF again THEN 0 ELSE grp.old
  <2>1. /\ IF again THEN UnsetGroupID(grp.g) ELSE UNCHANGED <<track, former, faults>>
        /\ IF old = new THEN pc' = "load" /\ UNCHANGED <<grp, slice>>
                        ELSE Eat(grp.g, new, old)
    BY <1>6 DEF GroupThere
  <2>2. new \in GroupIds /\ old \in GroupIds /\ new <= hi[grp.g] /\ old <= new
    <3>1. grp.new <= hi[grp.g] /\ (grp.new >= 0 => grp.old <= grp.new)
      BY <1>1 DEF GroupOK, Busy
    <3>2. QED
      BY <1>2, <3>1 DEF GroupIds
  <2>3. old = 0 \/ (old = grp.old /\ UNCHANGED former)
    BY <2>1
  <2>4. CASE old = new
    BY <1>4, <2>1, <2>4
  <2>5. CASE old # new
    <3>1. old < new
      BY <2>2, <2>5 DEF GroupIds
    <3>2. Eat(grp.g, new, old)
      BY <2>1, <2>5
    <3>3. QED
      BY <1>5, <2>2, <2>3, <3>1, <3>2
  <2>6. QED
    BY <2>4, <2>5
<1>7. QED
  BY <1>4, <1>6 DEF DoGroup, GroupGone, GroupOdd
-----------------------------------------------------------------------------
(***************************************************************************)
(* Slices and lists.                                                       *)
(***************************************************************************)

\* What is known stays known when more has been looked at.
LEMMA ReachedGrows ==
    ASSUME UNCHANGED <<hi, arts, era>>, \A g \in Groups : seen[g] \subseteq seen'[g]
    PROVE  /\ \A g \in Groups : \A id : Covered(g, id) => Covered(g, id)'
           /\ \A g \in Groups : \A id :
                 former'[g] = former[g] /\ Reached(g, id) => Reached(g, id)'
BY DEF Reached, Covered, Readable, Now

\* While a group is read its number is one of this numbering, unless it is 0.
LEMMA KnownNumbering ==
    ASSUME ScanInv, pc \in {"slice", "todo"}, grp.old # 0
    PROVE  former[grp.g] = 0
<1> USE DEF ScanInv
<1>1. grp.g \in Groups /\ grp.old \in GroupIds
  BY DEF ScanTypeOK, Rows
<1>2. Reached(grp.g, grp.old) /\ grp.old <= hi[grp.g]
  BY DEF GroupOK, SliceOK, Busy
<1>3. hi[grp.g] \in GroupIds /\ former[grp.g] \in GroupIds
  BY <1>1 DEF ScanTypeOK
<1>4. SUFFICES ASSUME former[grp.g] # 0
               PROVE  FALSE
  OBVIOUS
<1>5. hi[grp.g] < former[grp.g]
  BY <1>1, <1>4 DEF FormerOK
<1>6. grp.old >= former[grp.g]
  <2>1. ~(grp.old <= 0)
    BY <1>1, ScanAssumption DEF GroupIds
  <2>2. QED
    BY <1>2, <1>4, <2>1 DEF Reached
<1>7. QED
  BY <1>1, <1>2, <1>3, <1>5, <1>6, ScanAssumption DEF GroupIds

\* Everything up to id has been looked at after the step.
CoveredNext(id) == \A a \in Readable(grp.g) : a <= id => Now(grp.g, a) \in seen'[grp.g]

\* The slices of a group follow one another without a gap.
LEMMA NextSliceOK ==
    ASSUME ScanInv, pc \in {"slice", "todo"}, UNCHANGED <<hi, arts, era, grp>>,
           NEW maxid \in -1 .. MaxId, slice.end >= 0 => maxid <= slice.end,
           slice.end >= 0 => CoveredNext(slice.end),
           NextSlice(maxid)
    PROVE  /\ slice' \in [begin : 1 .. MaxId + 1, end : {-1} \cup 1 .. MaxId,
                          maxid : -1 .. MaxId]
           /\ pc' \in {"load", "slice"}
           /\ SliceOK'
<1> USE ScanAssumption DEF ScanInv
<1>1. /\ slice \in [begin : 1 .. MaxId + 1, end : {-1} \cup 1 .. MaxId, maxid : -1 .. MaxId]
      /\ grp.g \in Groups /\ grp.old \in GroupIds /\ grp.new \in -1 .. MaxId
  BY DEF ScanTypeOK, Rows
<1>2. hi[grp.g] \in GroupIds
  BY <1>1 DEF ScanTypeOK
<1>3. CASE slice.end < 0 \/ slice.end + 1 > grp.new
  <2>1. /\ pc' = "load"
        /\ slice' = [slice EXCEPT !.maxid = maxid]
    BY <1>1, <1>3 DEF NextSlice
  <2>2. QED
    BY <1>1, <2>1 DEF SliceOK
<1>4. CASE slice.end >= 0 /\ slice.end + 1 <= grp.new
  <2> DEFINE begin == slice.end + 1
             end == SliceEnd(begin, grp.new)
  <2>1. pc' = "slice" /\ slice' = [begin |-> begin, end |-> end, maxid |-> maxid]
    BY <1>1, <1>4 DEF NextSlice
  <2>2. begin \in 1 .. MaxId /\ begin <= grp.new
    BY <1>1, <1>4
  <2>3. /\ end \in {-1} \cup 1 .. MaxId
        /\ end >= 0 => begin <= end /\ end < grp.new
    BY <1>1, <2>2 DEF SliceEnd
  <2>4. slice' \in [begin : 1 .. MaxId + 1, end : {-1} \cup 1 .. MaxId, maxid : -1 .. MaxId]
    BY <2>1, <2>2, <2>3
  <2>5. grp.new <= hi[grp.g] /\ grp.old <= hi[grp.g]
    BY DEF GroupOK, SliceOK, Busy
  <2>6. slice'.begin - 1 = slice.end
    BY <1>1, <2>1
  <2>7. Covered(grp.g, slice.begin - 1)'
    BY <1>4, <2>6 DEF CoveredNext, Covered, Readable, Now
  <2>8. SliceOK'
    BY <1>1, <1>2, <2>1, <2>2, <2>3, <2>5, <2>7 DEF SliceOK, GroupIds
  <2>9. QED
    BY <2>1, <2>4, <2>8
<1>5. QED
  BY <1>1, <1>3, <1>4

\* eatGroupSlice gets the list of the slice, or goes on without it.
LEMMA SliceStep ==
    ASSUME ScanInv, AskSlice
    PROVE  ScanInv'
<1> USE ScanAssumption DEF ScanInv
<1>1. /\ pc = "slice"
      /\ UNCHANGED <<hi, arts, era, former, carried, track, tempOpen, tempRows, badList, grp, seen>>
  BY DEF AskSlice, server, groupTable
<1>2. /\ grp.g \in Groups
      /\ slice \in [begin : 1 .. MaxId + 1, end : {-1} \cup 1 .. MaxId, maxid : -1 .. MaxId]
  BY DEF ScanTypeOK, Rows
<1>3. /\ arts[grp.g] \in SUBSET (1 .. MaxId) /\ arts[grp.g] \subseteq 1 .. hi[grp.g]
      /\ era[grp.g] \in Nat /\ hi[grp.g] \in GroupIds
  BY <1>2 DEF ScanTypeOK
<1>4. bad' \subseteq Methods
  <2>1. CASE UNCHANGED bad
    BY <2>1 DEF ScanTypeOK
  <2>2. CASE Methods \ bad # {} /\ bad' = bad \cup {Min(Methods \ bad)}
    <3>1. Methods \ bad \subseteq Nat
      <4>1. \A x \in Methods : x \in 1 .. 4
        OBVIOUS
      <4>2. \A x \in 1 .. 4 : x \in Nat
        OBVIOUS
      <4>3. QED
        BY <4>1, <4>2, Zenon
    <3>2. Min(Methods \ bad) \in Methods
      BY <2>2, <3>1, MinOf
    <3>3. QED
      BY <2>2, <3>2 DEF ScanTypeOK
  <2>3. QED
    BY <2>1, <2>2 DEF AskSlice, Answered
<1>5. FormerOK' /\ TrackOK' /\ NextOK'
  BY <1>1, ReachedSame DEF AskSlice, Answered, NextSlice, FormerOK, TrackOK, NextOK, RowsOK, Busy
<1>6. RowsOK' /\ (GroupOK' \/ pc' = "group")
  <2>1. \A r \in tempRows : Reached(r.g, r.old)'
    BY <1>1, ReachedSame DEF RowsOK
  <2>2. Reached(grp.g, grp.old)'
    <3>1. Reached(grp.g, grp.old)
      BY <1>1 DEF GroupOK, Busy
    <3>2. QED
      BY <1>1, <3>1 DEF Reached, Covered, Readable, Now
  <2>3. RowsOK'
    BY <1>1, <2>1 DEF RowsOK, Busy
  <2>4. QED
    BY <1>1, <2>2, <2>3 DEF GroupOK, Busy
<1>7. ASSUME NextSlice(0), Listed = {}, UNCHANGED todoList
      PROVE  ScanInv'
  <2>1. slice.end >= 0 => Covered(grp.g, slice.end)
    <3>1. SUFFICES ASSUME slice.end >= 0, NEW a \in Readable(grp.g), a <= slice.end
                   PROVE  Now(grp.g, a) \in seen[grp.g]
      BY DEF Covered
    <3>2. a \in arts[grp.g] /\ a \in 1 .. MaxId
      BY <1>3 DEF Readable
    <3>3. ~InSlice(a)
      BY <1>7, <3>2 DEF Listed
    <3>4. a <= slice.begin - 1
      BY <1>2, <3>1, <3>2, <3>3 DEF InSlice
    <3>5. QED
      BY <1>1, <3>4 DEF SliceOK, Covered
  <2>2. slice.end >= 0 => CoveredNext(slice.end)
    BY <1>1, <2>1 DEF CoveredNext, Covered
  <2>3. /\ slice' \in [begin : 1 .. MaxId + 1, end : {-1} \cup 1 .. MaxId, maxid : -1 .. MaxId]
        /\ pc' \in {"load", "slice"}
        /\ SliceOK'
    BY <1>1, <1>7, <2>2, NextSliceOK
  <2>4. ScanTypeOK'
    BY <1>1, <1>4, <1>7, <2>3 DEF ScanTypeOK, HasRow
  <2>5. ListOK' /\ GroupOK'
    BY <1>6, <2>3 DEF ListOK
  <2>6. QED
    BY <1>5, <1>6, <2>3, <2>4, <2>5
<1>8. ASSUME pc' \in {"load", "slice"}, UNCHANGED <<slice, todoList>>
      PROVE  ScanInv'
  <2>1. ScanTypeOK'
    BY <1>1, <1>4, <1>8 DEF ScanTypeOK, HasRow
  <2>2. Covered(grp.g, slice.begin - 1)'
    BY <1>1, <1>8 DEF SliceOK, Covered, Readable, Now
  <2>3. SliceOK'
    BY <1>1, <1>8, <2>2 DEF SliceOK
  <2>4. ListOK' /\ GroupOK'
    BY <1>6, <1>8 DEF ListOK
  <2>5. QED
    BY <1>5, <1>6, <2>1, <2>3, <2>4
<1>9. ASSUME NEW m, todoList' = Understood(m), pc' = "todo", UNCHANGED <<slice, bad>>
      PROVE  ScanInv'
  <2>1. \A x \in todoList' : /\ x \in Articles
                             /\ x.era = era[grp.g]
                             /\ x.id \in arts[grp.g] /\ InSlice(x.id)
    <3>1. SUFFICES ASSUME NEW x \in Listed
                   PROVE  /\ x \in Articles
                          /\ x.era = era[grp.g]
                          /\ x.id \in arts[grp.g] /\ InSlice(x.id)
      BY <1>9 DEF Understood
    <3>2. PICK a \in arts[grp.g] : x = [era |-> era[grp.g], id |-> a] /\ InSlice(a)
      BY DEF Listed
    <3>3. QED
      BY <1>3, <3>2 DEF Articles
  <2>2. \A a \in Readable(grp.g) : InSlice(a) => Now(grp.g, a) \in todoList'
    <3>1. SUFFICES ASSUME NEW a \in arts[grp.g], a \notin Unreadable, InSlice(a)
                   PROVE  Now(grp.g, a) \in todoList'
      BY DEF Readable
    <3>2. Now(grp.g, a) \in Listed /\ Now(grp.g, a).id = a
      BY <3>1 DEF Listed, Now
    <3>3. QED
      BY <1>9, <3>1, <3>2 DEF Understood
  <2>3. ScanTypeOK'
    BY <1>1, <1>4, <1>9, <2>1 DEF ScanTypeOK, HasRow
  <2>4. Covered(grp.g, slice.begin - 1)'
    BY <1>1, <1>9 DEF SliceOK, Covered, Readable, Now
  <2>5. SliceOK'
    BY <1>1, <1>9, <2>4 DEF SliceOK
  <2>6. ListOK'
    <3>1. \A x \in todoList' :
             /\ x.id <= hi[grp.g]
             /\ IF slice.end >= 0 THEN x.id <= slice.end
                                  ELSE x.id < slice.begin + MaxListSize
      BY <1>2, <1>3, <2>1 DEF InSlice, GroupIds
    <3>2. QED
      BY <1>1, <1>9, <2>1, <2>2, <3>1 DEF ListOK, Readable, InSlice, Now
  <2>7. QED
    BY <1>5, <1>6, <1>9, <2>3, <2>5, <2>6
<1>10. QED
  BY <1>1, <1>7, <1>8, <1>9 DEF AskSlice, Answered
-----------------------------------------------------------------------------
(***************************************************************************)
(* processTODOList.                                                        *)
(***************************************************************************)

\* UpdateGroupID with a number that has been reached, or not at all: the number
\* of the group is one of this numbering from then on.
LEMMA RecordStep ==
    ASSUME ScanInv, pc = "todo", UNCHANGED <<hi, arts, era, grp>>,
           \A g \in Groups : seen[g] \subseteq seen'[g],
           NEW m \in -1 .. MaxId, m >= 0 => m <= hi[grp.g] /\ CoveredNext(m),
           Record(m) \/ UNCHANGED <<track, former>>
    PROVE  /\ track' \in [Groups -> [used : BOOLEAN, last : -1 .. MaxId, next : -1 .. MaxId]]
           /\ \A h \in Groups : HasRow(h)' => track'[h].last >= 0
           /\ former' \in [Groups -> GroupIds]
           /\ FormerOK' /\ TrackOK'
           /\ \A h \in Groups : \A id : h # grp.g /\ Reached(h, id) => Reached(h, id)'
           /\ Reached(grp.g, grp.old)'
<1> USE ScanAssumption DEF ScanInv
<1>1. /\ grp.g \in Groups /\ grp.old \in GroupIds
      /\ track \in [Groups -> [used : BOOLEAN, last : -1 .. MaxId, next : -1 .. MaxId]]
      /\ former \in [Groups -> GroupIds] /\ hi[grp.g] \in GroupIds
      /\ \A h \in Groups : HasRow(h) => track[h].last >= 0
  BY DEF ScanTypeOK, Rows
<1>2. Reached(grp.g, grp.old)
  BY DEF GroupOK, Busy
<1>3. CASE UNCHANGED <<track, former>>
  <2>1. \A h \in Groups : \A id : Reached(h, id) => Reached(h, id)'
    BY <1>3, ReachedGrows
  <2>2. TrackOK'
    BY <1>3, <2>1 DEF TrackOK
  <2>3. FormerOK'
    BY <1>3 DEF FormerOK
  <2>4. Reached(grp.g, grp.old)'
    <3>1. former[grp.g] = 0 /\ grp.old > 0 => Covered(grp.g, grp.old)'
      <4>1. SUFFICES ASSUME former[grp.g] = 0, grp.old > 0
                     PROVE  Covered(grp.g, grp.old)'
        OBVIOUS
      <4>2. Covered(grp.g, grp.old)
        BY <1>1, <1>2, <4>1 DEF Reached, GroupIds
      <4>3. QED
        BY <1>1, <4>2 DEF Covered, Readable, Now
    <3>2. QED
      BY <1>1, <1>2, <1>3, <3>1 DEF Reached, GroupIds
  <2>5. QED
    BY <1>1, <1>3, <2>1, <2>2, <2>3, <2>4 DEF HasRow
<1>4. CASE m >= 0 /\ SetGroupID(grp.g, m)
  <2>1. /\ track' = IF HasRow(grp.g) THEN [track EXCEPT ![grp.g].last = m] ELSE track
        /\ former' = IF grp.old = 0 THEN [former EXCEPT ![grp.g] = 0] ELSE former
    BY <1>4 DEF SetGroupID
  <2>2. /\ former' \in [Groups -> GroupIds] /\ former'[grp.g] = 0
        /\ \A h \in Groups \ {grp.g} : former'[h] = former[h]
    <3>1. CASE grp.old = 0
      BY <1>1, <2>1, <3>1 DEF GroupIds
    <3>2. CASE grp.old # 0
      <4>1. former[grp.g] = 0
        BY <3>2, KnownNumbering
      <4>2. QED
        BY <1>1, <2>1, <3>2, <4>1
    <3>3. QED
      BY <3>1, <3>2
  <2>3. /\ track' \in [Groups -> [used : BOOLEAN, last : -1 .. MaxId, next : -1 .. MaxId]]
        /\ track'[grp.g].last \in {-1, m}
        /\ \A h \in Groups \ {grp.g} : track'[h] = track[h]
        /\ \A h \in Groups : HasRow(h)' => track'[h].last >= 0
    <3>1. CASE HasRow(grp.g)
      <4>1. track' = [track EXCEPT ![grp.g].last = m]
        BY <2>1, <3>1
      <4>2. track'[grp.g] = [track[grp.g] EXCEPT !.last = m]
        BY <1>1, <4>1
      <4>3. /\ track'[grp.g] \in [used : BOOLEAN, last : -1 .. MaxId, next : -1 .. MaxId]
            /\ track'[grp.g].last = m
        BY <1>1, <4>2
      <4>4. \A h \in Groups \ {grp.g} : track'[h] = track[h]
        BY <1>1, <4>1
      <4>5. track' \in [Groups -> [used : BOOLEAN, last : -1 .. MaxId, next : -1 .. MaxId]]
        BY <1>1, <4>1, <4>3, <4>4
      <4>6. QED
        BY <1>1, <1>4, <4>3, <4>4, <4>5 DEF HasRow
    <3>2. CASE ~HasRow(grp.g)
      <4>1. track' = track /\ track[grp.g].last = -1
        BY <2>1, <3>2 DEF HasRow, NoRow
      <4>2. QED
        BY <1>1, <4>1 DEF HasRow
    <3>3. QED
      BY <3>1, <3>2
  <2>4. FormerOK'
    BY <2>2 DEF FormerOK
  <2>5. \A h \in Groups : \A id : h # grp.g /\ Reached(h, id) => Reached(h, id)'
    BY <2>2, ReachedGrows
  <2>6. Reached(grp.g, m)'
    BY <1>1, <1>4, <2>2 DEF Reached, CoveredNext, Covered, Readable, Now
  <2>7. TrackOK'
    <3>1. ASSUME NEW h \in Groups
          PROVE  Reached(h, track[h].last)'
      <4>1. CASE h # grp.g
        BY <2>3, <2>5, <4>1 DEF TrackOK
      <4>2. CASE h = grp.g /\ track'[h].last = -1
        BY <4>2 DEF Reached
      <4>3. CASE h = grp.g /\ track'[h].last = m
        BY <1>1, <1>4, <2>2, <4>3 DEF Reached, CoveredNext, Covered, Readable, Now
      <4>4. QED
        BY <2>3, <4>1, <4>2, <4>3
    <3>2. QED
      BY <3>1 DEF TrackOK
  <2>8. Reached(grp.g, grp.old)'
    <3>1. CASE grp.old = 0
      BY <3>1 DEF Reached
    <3>2. CASE grp.old # 0
      <4>1. former[grp.g] = 0
        BY <3>2, KnownNumbering
      <4>2. grp.old <= hi[grp.g] /\ Covered(grp.g, grp.old)
        BY <1>1, <1>2, <3>2, <4>1 DEF Reached, GroupIds
      <4>3. QED
        BY <1>1, <2>2, <4>2 DEF Reached, Covered, Readable, Now
    <3>3. QED
      BY <3>1, <3>2
  <2>9. QED
    BY <2>2, <2>3, <2>4, <2>5, <2>7, <2>8
<1>5. QED
  BY <1>3, <1>4 DEF Record

\* It looks at the articles up to some number, is done with some of them, and
\* records the largest of these or nothing.
LEMMA TodoStep ==
    ASSUME ScanInv, pc = "todo",
           UNCHANGED <<hi, arts, era, carried, tempOpen, tempRows, badList, bad, grp, todoList>>,
           NEW upto \in Nat, NEW looked, looked = {a \in todoList : a.id <= upto},
           NEW done \in SUBSET looked, NEW err \in BOOLEAN, NEW fatal \in BOOLEAN,
           seen' = [seen EXCEPT ![grp.g] = @ \cup looked],
           Record(LargestId(done)) \/ UNCHANGED <<track, former>>,
           err \/ looked = todoList,
           Continue(err, fatal, LargestId(done))
    PROVE  ScanInv'
<1> USE ScanAssumption DEF ScanInv
<1> DEFINE m == LargestId(done)
<1>1. /\ grp.g \in Groups /\ grp.old \in GroupIds /\ hi[grp.g] \in GroupIds
      /\ arts[grp.g] \subseteq 1 .. MaxId
      /\ slice \in [begin : 1 .. MaxId + 1, end : {-1} \cup 1 .. MaxId, maxid : -1 .. MaxId]
      /\ seen \in [Groups -> SUBSET Articles]
  <2>1. grp.g \in Groups
    BY DEF ScanTypeOK, Rows
  <2>2. QED
    BY <2>1 DEF ScanTypeOK, Rows
<1>2. \A x \in todoList :
         /\ x \in Articles /\ x.id \in 1 .. MaxId
         /\ x.id <= hi[grp.g]
         /\ IF slice.end >= 0 THEN x.id <= slice.end ELSE x.id < slice.begin + MaxListSize
  BY DEF ScanTypeOK, Articles, ListOK
<1>3. /\ m \in -1 .. MaxId
      /\ m >= 0 => \E x \in done : x.id = m
  <2>1. \A x \in done : x.id \in 1 .. MaxId
    BY <1>2
  <2>2. QED
    BY <2>1, LargestOf
<1>4. /\ seen' \in [Groups -> SUBSET Articles]
      /\ \A g \in Groups : seen[g] \subseteq seen'[g]
      /\ looked \subseteq seen'[grp.g]
  BY <1>1, <1>2
<1>5. ASSUME NEW a \in Readable(grp.g), a < slice.begin
      PROVE  Now(grp.g, a) \in seen'[grp.g]
  <2>1. a \in 1 .. MaxId
    BY <1>1 DEF Readable
  <2>2. a <= slice.begin - 1
    BY <1>1, <1>5, <2>1
  <2>3. Now(grp.g, a) \in seen[grp.g]
    BY <2>2 DEF SliceOK, Covered
  <2>4. QED
    BY <1>1, <1>4, <2>3
<1>6. ASSUME m >= 0
      PROVE  m <= hi[grp.g] /\ CoveredNext(m) /\ (slice.end >= 0 => m <= slice.end)
  <2>1. PICK x \in done : x.id = m
    BY <1>3, <1>6
  <2>2. x \in todoList /\ m <= upto
    BY <2>1
  <2>3. ASSUME NEW a \in Readable(grp.g), a <= m
        PROVE  Now(grp.g, a) \in seen'[grp.g]
    <3>1. a \in 1 .. MaxId
      BY <1>1 DEF Readable
    <3>2. CASE a >= slice.begin
      <4>1. InSlice(a)
        BY <1>1, <1>2, <2>1, <2>2, <2>3, <3>1, <3>2 DEF InSlice
      <4>2. Now(grp.g, a) \in todoList
        <5>1. ~(x.id < a)
          BY <1>3, <2>1, <2>3, <3>1
        <5>2. QED
          BY <2>2, <4>1, <5>1 DEF ListOK
      <4>3. Now(grp.g, a).id <= upto
        BY <1>3, <2>2, <2>3, <3>1 DEF Now
      <4>4. QED
        BY <1>4, <4>2, <4>3
    <3>3. QED
      BY <1>1, <1>5, <3>1, <3>2
  <2>4. QED
    BY <1>2, <2>1, <2>2, <2>3 DEF CoveredNext
<1>7. ASSUME ~err, slice.end >= 0
      PROVE  CoveredNext(slice.end)
  <2>1. SUFFICES ASSUME NEW a \in Readable(grp.g), a <= slice.end
                 PROVE  Now(grp.g, a) \in seen'[grp.g]
    BY DEF CoveredNext
  <2>2. a \in 1 .. MaxId
    BY <1>1 DEF Readable
  <2>3. CASE a >= slice.begin
    <3>1. InSlice(a)
      BY <1>7, <2>1, <2>3 DEF InSlice
    <3>2. Now(grp.g, a) \in todoList
      BY <1>1, <1>7, <3>1 DEF ListOK
    <3>3. QED
      BY <1>4, <1>7, <3>2
  <2>4. QED
    BY <1>1, <1>5, <2>2, <2>3
<1>8. /\ track' \in [Groups -> [used : BOOLEAN, last : -1 .. MaxId, next : -1 .. MaxId]]
      /\ \A h \in Groups : HasRow(h)' => track'[h].last >= 0
      /\ former' \in [Groups -> GroupIds]
      /\ FormerOK' /\ TrackOK'
      /\ \A h \in Groups : \A id : h # grp.g /\ Reached(h, id) => Reached(h, id)'
      /\ Reached(grp.g, grp.old)'
  BY <1>3, <1>4, <1>6, RecordStep
<1>9. /\ slice' \in [begin : 1 .. MaxId + 1, end : {-1} \cup 1 .. MaxId, maxid : -1 .. MaxId]
      /\ pc' \in {"dial", "load", "slice"}
      /\ SliceOK'
  <2>1. CASE err
    BY <1>1, <2>1 DEF Continue, SliceOK
  <2>2. CASE ~err
    <3>1. NextSlice(m)
      BY <2>2 DEF Continue
    <3>2. slice.end >= 0 => m <= slice.end
      BY <1>1, <1>3, <1>6
    <3>3. QED
      BY <1>3, <1>7, <2>2, <3>1, <3>2, NextSliceOK
  <2>3. QED
    BY <2>1, <2>2
<1>10. ScanTypeOK'
  BY <1>4, <1>8, <1>9 DEF ScanTypeOK
<1>11. RowsOK'
  <2>1. \A r \in tempRows : r.g \in Groups /\ r.g # grp.g /\ Reached(r.g, r.old)
    BY DEF ScanTypeOK, Rows, RowsOK, Busy
  <2>2. QED
    BY <1>8, <2>1 DEF RowsOK, Busy
<1>12. NextOK' /\ GroupOK' /\ ListOK'
  BY <1>8, <1>9 DEF NextOK, RowsOK, GroupOK, ListOK, Busy
<1>13. QED
  BY <1>8, <1>9, <1>10, <1>11, <1>12

\* Both forms of the call.
LEMMA CallStep ==
    ASSUME ScanInv, TodoDone \/ TodoDisturbed
    PROVE  ScanInv'
<1>1. /\ pc = "todo"
      /\ UNCHANGED <<hi, arts, era, carried, tempOpen, tempRows, badList, bad, grp, todoList>>
  BY DEF TodoDone, TodoDisturbed, client
<1>2. CASE TodoDone
  <2>1. \A x \in todoList : x.id <= MaxId
    BY ScanAssumption DEF ScanInv, ScanTypeOK, Articles
  <2>2. todoList = {a \in todoList : a.id <= MaxId}
    BY <2>1
  <2>3. /\ seen' = [seen EXCEPT ![grp.g] = @ \cup todoList]
        /\ Record(LargestId(todoList))
        /\ Continue(FALSE, FALSE, LargestId(todoList))
    BY <1>2 DEF TodoDone
  <2>4. QED
    BY <1>1, <2>2, <2>3, TodoStep, ScanAssumption
<1>3. CASE TodoDisturbed
  <2>1. PICK upto \in 0 .. MaxId :
          LET looked == {a \in todoList : a.id <= upto} IN
          /\ seen' = [seen EXCEPT ![grp.g] = @ \cup looked]
          /\ \E done \in SUBSET looked :
             /\ Record(LargestId(done)) \/ UNCHANGED <<track, former>>
             /\ \E err, fatal \in BOOLEAN :
                /\ err \/ looked = todoList
                /\ Continue(err, fatal, LargestId(done))
    BY <1>3 DEF TodoDisturbed
  <2> DEFINE looked == {a \in todoList : a.id <= upto}
  <2>2. upto \in Nat
    BY ScanAssumption
  <2>3. PICK done \in SUBSET looked :
             /\ Record(LargestId(done)) \/ UNCHANGED <<track, former>>
             /\ \E err, fatal \in BOOLEAN :
                /\ err \/ looked = todoList
                /\ Continue(err, fatal, LargestId(done))
    BY <2>1
  <2>4. PICK err \in BOOLEAN, fatal \in BOOLEAN :
                /\ err \/ looked = todoList
                /\ Continue(err, fatal, LargestId(done))
    BY <2>3
  <2>5. QED
    BY <1>1, <2>1, <2>2, <2>3, <2>4, TodoStep
<1>4. QED
  BY <1>2, <1>3
-----------------------------------------------------------------------------
(***************************************************************************)
(* The server.                                                             *)
(***************************************************************************)

\* Articles arrive behind all those that there were, and may vanish.
ArticlesMove ==
    /\ hi' \in [Groups -> GroupIds]
    /\ arts' \in [Groups -> SUBSET (1 .. MaxId)]
    /\ \A g \in Groups : /\ hi[g] <= hi'[g] /\ arts'[g] \subseteq 1 .. hi'[g]
                         /\ \A a \in arts'[g] : a \in arts[g] \/ a > hi[g]

\* What arrives is behind all the numbers that the puller has.
LEMMA ServerStep ==
    ASSUME ScanInv,
           UNCHANGED <<era, former, track, tempOpen, tempRows, pc, badList, bad, grp, slice, todoList,
                       seen>>,
           ArticlesMove, carried' \subseteq Groups, FormerOK'
    PROVE  ScanInv'
<1> USE DEF ScanInv
<1> MaxId \in Nat
  BY ScanAssumption
<1>1. /\ hi \in [Groups -> GroupIds] /\ grp.g \in Groups /\ grp.old \in GroupIds /\ grp.new \in -1 .. MaxId
      /\ slice \in [begin : 1 .. MaxId + 1, end : {-1} \cup 1 .. MaxId, maxid : -1 .. MaxId]
  BY DEF ScanTypeOK, Rows
<1>2. ScanTypeOK'
  BY DEF ScanTypeOK, HasRow, ArticlesMove
<1>11. \A g \in Groups : hi[g] \in Int /\ hi'[g] \in Int /\ hi[g] <= hi'[g]
  BY <1>1 DEF GroupIds, ArticlesMove
<1>12. \A g \in Groups : \A a \in arts'[g] : a \in 1 .. MaxId /\ (a \in arts[g] \/ a > hi[g])
  BY DEF ArticlesMove
<1>3. ASSUME NEW g \in Groups, NEW id \in -1 .. MaxId, id <= hi[g], Covered(g, id)
      PROVE  Covered(g, id)'
  <2>1. SUFFICES ASSUME NEW a \in arts'[g], a \notin Unreadable, a <= id
                 PROVE  Now(g, a) \in seen[g]
    BY DEF Covered, Readable, Now
  <2>2. a \in arts[g]
    BY <1>11, <1>12, <1>3, <2>1
  <2>3. QED
    BY <1>3, <2>1, <2>2 DEF Covered, Readable
<1>4. ASSUME NEW g \in Groups, NEW id \in -1 .. MaxId, Reached(g, id)
      PROVE  Reached(g, id)'
  <2>1. CASE former[g] = 0 /\ id <= hi[g] /\ Covered(g, id)
    <3>1. Covered(g, id)'
      BY <1>3, <2>1
    <3>2. QED
      BY <1>11, <2>1, <3>1 DEF Reached
  <2>2. QED
    BY <1>4, <2>1 DEF Reached
<1>5. TrackOK'
  <2>1. \A g \in Groups : track[g].last \in -1 .. MaxId /\ Reached(g, track[g].last)
    BY DEF ScanTypeOK, TrackOK
  <2>2. \A g \in Groups : Reached(g, track[g].last)'
    <3>1. SUFFICES ASSUME NEW g \in Groups
                   PROVE  Reached(g, track[g].last)'
      OBVIOUS
    <3>2. PICK id \in -1 .. MaxId : id = track[g].last /\ Reached(g, id)
      BY <2>1
    <3>3. Reached(g, id)'
      BY <1>4, <3>2
    <3>4. QED
      BY <3>2, <3>3 DEF Reached, Covered, Readable, Now
  <2>3. QED
    BY <2>2 DEF TrackOK
<1>6. NextOK'
  <2>1. \A g \in Groups : track[g].next \in -1 .. MaxId
    BY DEF ScanTypeOK
  <2>2. QED
    BY <1>11, <2>1 DEF NextOK
<1>7. RowsOK'
  <2>1. \A r \in tempRows : r.g \in Groups /\ r.old \in GroupIds /\ r.new \in -1 .. MaxId
    BY DEF ScanTypeOK, Rows
  <2>2. \A r \in tempRows : Reached(r.g, r.old)' /\ r.new <= hi'[r.g]
    <3>1. SUFFICES ASSUME NEW r \in tempRows
                   PROVE  Reached(r.g, r.old)' /\ r.new <= hi'[r.g]
      OBVIOUS
    <3>2. Reached(r.g, r.old) /\ r.new <= hi[r.g]
      BY DEF RowsOK
    <3>3. r.old \in -1 .. MaxId
      BY <2>1 DEF GroupIds
    <3>4. QED
      BY <1>4, <1>11, <2>1, <3>2, <3>3
  <2>3. QED
    BY <2>2 DEF RowsOK, Busy
<1>8. GroupOK'
  <2>1. SUFFICES ASSUME Busy
                 PROVE  Reached(grp.g, grp.old)' /\ grp.new <= hi'[grp.g]
    BY DEF GroupOK, Busy
  <2>2. Reached(grp.g, grp.old) /\ grp.new <= hi[grp.g]
    BY <2>1 DEF GroupOK
  <2>3. PICK g \in Groups, id \in -1 .. MaxId : g = grp.g /\ id = grp.old
    BY <1>1 DEF GroupIds
  <2>4. Reached(g, id)'
    BY <1>4, <2>2, <2>3
  <2>5. QED
    BY <1>1, <1>11, <2>2, <2>3, <2>4 DEF Reached, Covered, Readable, Now
<1>9. SliceOK' /\ ListOK'
  <2>1. SUFFICES ASSUME pc \in {"slice", "todo"}
                 PROVE  SliceOK' /\ ListOK'
    BY DEF SliceOK, ListOK
  <2>2. /\ grp.old <= hi[grp.g] /\ slice.begin <= hi[grp.g] + 1
        /\ Covered(grp.g, slice.begin - 1)
        /\ slice.end >= 0 => slice.begin <= slice.end /\ slice.end < grp.new
        /\ grp.new <= hi[grp.g]
    BY <2>1 DEF SliceOK, GroupOK, Busy
  <2>3. PICK g \in Groups, id \in -1 .. MaxId : g = grp.g /\ id = slice.begin - 1
    BY <1>1
  <2>4. Covered(g, id)'
    BY <1>1, <1>3, <2>2, <2>3 DEF GroupIds
  <2>5. Covered(grp.g, slice.begin - 1)'
    BY <2>3, <2>4 DEF Covered, Readable, Now
  <2>6. SliceOK'
    BY <1>1, <1>11, <2>2, <2>5 DEF SliceOK, GroupIds
  <2>7. ASSUME pc = "todo"
        PROVE  ListOK'
    <3>1. \A x \in todoList :
             /\ x \in Articles
             /\ x.era = era[grp.g]
             /\ x.id <= hi[grp.g]
             /\ IF slice.end >= 0 THEN x.id <= slice.end
                                  ELSE x.id < slice.begin + MaxListSize
      BY <2>7 DEF ListOK, ScanTypeOK
    <3>2. \A x \in todoList : x.id <= hi'[grp.g]
      BY <1>1, <1>11, <3>1 DEF Articles
    <3>3. ASSUME NEW a \in arts'[grp.g], a \notin Unreadable, InSlice(a),
                 Now(grp.g, a) \notin todoList
          PROVE  slice.end < 0 /\ \A x \in todoList : x.id < a
      <4>1. a \in 1 .. MaxId /\ (a \in arts[grp.g] \/ a > hi[grp.g])
        BY <1>1, <1>12, <3>3
      <4>2. CASE a \in arts[grp.g]
        BY <2>7, <3>3, <4>2 DEF ListOK, Readable
      <4>3. CASE a > hi[grp.g]
        BY <1>1, <1>11, <2>2, <3>1, <3>3, <4>1, <4>3 DEF InSlice, Articles
      <4>4. QED
        BY <4>1, <4>2, <4>3
    <3>4. QED
      BY <3>1, <3>2, <3>3 DEF ListOK, Readable, InSlice, Now
  <2>8. ListOK'
    BY <2>7 DEF ListOK
  <2>9. QED
    BY <2>6, <2>8
<1>10. QED
  BY <1>2, <1>5, <1>6, <1>7, <1>8, <1>9

\* The larger of two numbers.
LEMMA MaxOfTwo ==
    ASSUME NEW a \in Int, NEW b \in Int
    PROVE  Max({a, b}) \in {a, b} /\ Max({a, b}) >= a /\ Max({a, b}) >= b
<1>1. \E x \in {a, b} : \A y \in {a, b} : x >= y
  OBVIOUS
<1>2. QED
  BY <1>1 DEF Max

\* A group is only numbered anew between two scans, when the table alone holds
\* numbers: the one of the group is one of a former numbering then.
LEMMA RenumberStep ==
    ASSUME ScanInv, NEW g \in Groups, Renumber(g)
    PROVE  ScanInv'
<1> USE DEF ScanInv
<1> MaxId \in Nat
  BY ScanAssumption
<1>1. /\ pc \in {"dial", "list", "wait"} /\ ~tempOpen /\ tempRows = {}
      /\ UNCHANGED <<carried, track, tempOpen, tempRows, pc, badList, bad, grp, slice, todoList, seen>>
  BY DEF Renumber, Change, groupTable, client, work, RowsOK
<1>2. /\ hi' = [hi EXCEPT ![g] = 0]
      /\ arts' = [arts EXCEPT ![g] = {}]
      /\ era' = [era EXCEPT ![g] = @ + 1]
      /\ former' = [former EXCEPT ![g] = Max({@, track[g].last})]
  BY DEF Renumber
<1>3. /\ former[g] \in GroupIds /\ track[g].last \in -1 .. MaxId
      /\ former'[g] = Max({former[g], track[g].last})
  BY <1>2 DEF ScanTypeOK
<1>4. /\ former'[g] \in {former[g], track[g].last}
      /\ former'[g] >= former[g] /\ former'[g] >= track[g].last
  <2>1. former[g] \in Int /\ track[g].last \in Int
    BY <1>3 DEF GroupIds
  <2>2. /\ Max({former[g], track[g].last}) \in {former[g], track[g].last}
        /\ Max({former[g], track[g].last}) >= former[g]
        /\ Max({former[g], track[g].last}) >= track[g].last
    BY <2>1, MaxOfTwo
  <2>3. QED
    BY <1>3, <2>2
<1>5. former' \in [Groups -> GroupIds]
  BY <1>2, <1>3, <1>4 DEF ScanTypeOK, GroupIds
<1>6. hi' \in [Groups -> GroupIds] /\ arts' \in [Groups -> SUBSET (1 .. MaxId)]
      /\ \A h \in Groups : arts'[h] \subseteq 1 .. hi'[h]
  BY <1>2 DEF ScanTypeOK, GroupIds
<1>7. FormerOK'
  BY <1>2, <1>3, <1>5 DEF FormerOK, ScanTypeOK, GroupIds
<1>8. TrackOK'
  <2>1. ASSUME NEW h \in Groups
        PROVE  Reached(h, track[h].last)'
    <3>1. CASE h # g
      <4>1. /\ hi'[h] = hi[h] /\ arts'[h] = arts[h] /\ era'[h] = era[h] /\ former'[h] = former[h]
        BY <1>2, <3>1 DEF ScanTypeOK
      <4>2. Reached(h, track[h].last)
        BY DEF TrackOK
      <4>3. QED
        BY <1>1, <4>1, <4>2 DEF Reached, Covered, Readable, Now
    <3>2. CASE h = g /\ track[g].last > 0
      <4>1. Reached(g, track[g].last)
        BY DEF TrackOK
      <4>2. former[g] = 0 \/ track[g].last >= former[g]
        BY <1>3, <3>2, <4>1 DEF Reached
      <4>3. former'[g] = track[g].last
        BY <1>3, <1>4, <3>2, <4>2 DEF GroupIds
      <4>4. QED
        BY <1>1, <1>3, <3>2, <4>3 DEF Reached
    <3>3. CASE h = g /\ track[g].last <= 0
      BY <1>1, <3>3 DEF Reached
    <3>4. QED
      BY <1>3, <3>1, <3>2, <3>3
  <2>2. QED
    BY <2>1 DEF TrackOK
<1>9. NextOK' /\ RowsOK' /\ GroupOK' /\ SliceOK' /\ ListOK'
  BY <1>1 DEF NextOK, RowsOK, GroupOK, SliceOK, ListOK, Busy
<1>10. ScanTypeOK'
  <2>1. era' \in [Groups -> Nat]
    BY <1>1, <1>2 DEF ScanTypeOK
  <2>2. QED
    BY <1>1, <1>5, <1>6, <2>1 DEF ScanTypeOK, HasRow
<1>11. QED
  BY <1>7, <1>8, <1>9, <1>10

\* The steps of the server.
LEMMA ChangeStep ==
    ASSUME ScanInv, NEW g \in Groups, Arrive(g) \/ Expire(g) \/ Renumber(g) \/ Carry(g)
    PROVE  ScanInv'
<1> MaxId \in Nat
  BY ScanAssumption
<1>1. /\ hi \in [Groups -> GroupIds] /\ arts \in [Groups -> SUBSET (1 .. MaxId)]
      /\ \A h \in Groups : arts[h] \subseteq 1 .. hi[h]
      /\ former \in [Groups -> GroupIds] /\ carried \subseteq Groups
      /\ FormerOK
  BY DEF ScanInv, ScanTypeOK
<1>2. CASE Arrive(g)
  <2>1. /\ hi[g] < MaxId /\ (former[g] = 0 \/ hi[g] + 1 < former[g])
        /\ hi' = [hi EXCEPT ![g] = @ + 1]
        /\ arts' = [arts EXCEPT ![g] = @ \cup {hi[g] + 1}]
        /\ UNCHANGED <<era, former, carried, track, tempOpen, tempRows, pc, badList, bad, grp, slice,
                       todoList, seen>>
    BY <1>2 DEF Arrive, Change, groupTable, client, work
  <2>2. hi[g] \in 0 .. MaxId /\ hi'[g] = hi[g] + 1
        /\ arts'[g] = arts[g] \cup {hi[g] + 1}
        /\ \A h \in Groups \ {g} : hi'[h] = hi[h] /\ arts'[h] = arts[h]
    BY <1>1, <2>1 DEF GroupIds
  <2>3. hi' \in [Groups -> GroupIds]
    BY <1>1, <2>1, <2>2 DEF GroupIds
  <2>4. \A h \in Groups : /\ arts'[h] \subseteq 1 .. hi'[h] /\ hi[h] <= hi'[h]
                          /\ \A a \in arts'[h] : a \in arts[h] \/ a > hi[h]
    <3>1. ASSUME NEW h \in Groups, h # g
          PROVE  /\ arts'[h] \subseteq 1 .. hi'[h] /\ hi[h] <= hi'[h]
                 /\ \A a \in arts'[h] : a \in arts[h] \/ a > hi[h]
      BY <1>1, <2>2, <3>1 DEF GroupIds
    <3>2. /\ arts'[g] \subseteq 1 .. hi'[g] /\ hi[g] <= hi'[g]
          /\ \A a \in arts'[g] : a \in arts[g] \/ a > hi[g]
      BY <1>1, <2>2
    <3>3. QED
      BY <3>1, <3>2
  <2>5. arts' \in [Groups -> SUBSET (1 .. MaxId)]
    <3>1. arts[g] \cup {hi[g] + 1} \in SUBSET (1 .. MaxId)
      BY <1>1, <2>1, <2>2
    <3>2. QED
      BY <1>1, <2>1, <3>1
  <2>6. FormerOK'
    BY <1>1, <2>1, <2>2 DEF FormerOK
  <2>7. QED
    BY <1>1, <2>1, <2>3, <2>4, <2>5, <2>6, ServerStep DEF ArticlesMove
<1>3. CASE Expire(g) \/ Carry(g)
  <2>1. /\ UNCHANGED <<hi, era, former, track, tempOpen, tempRows, pc, badList, bad, grp, slice,
                       todoList, seen>>
        /\ carried' \subseteq Groups
    BY <1>1, <1>3 DEF Expire, Carry, Change, groupTable, client, work
  <2>2. /\ arts' \in [Groups -> SUBSET (1 .. MaxId)]
        /\ \A h \in Groups : arts'[h] \subseteq arts[h]
    BY <1>1, <1>3 DEF Expire, Carry
  <2>3. ArticlesMove
    BY <1>1, <2>1, <2>2 DEF ArticlesMove, GroupIds
  <2>4. FormerOK'
    BY <1>1, <2>1 DEF FormerOK
  <2>5. QED
    BY <2>1, <2>3, <2>4, ServerStep
<1>4. QED
  BY <1>2, <1>3, RenumberStep
-----------------------------------------------------------------------------
(***************************************************************************)
(* The theorems.                                                           *)
(***************************************************************************)

\* A new server and an empty table.
LEMMA InitInv == ScanInit => ScanInv
<1> SUFFICES ASSUME ScanInit
             PROVE  ScanInv
  OBVIOUS
<1> MaxId \in Nat
  BY ScanAssumption
<1>1. PICK h \in 0 .. MaxId : hi = [g \in Groups |-> h] /\ arts = [g \in Groups |-> 1 .. h]
  BY DEF ScanInit
<1>2. /\ era = [g \in Groups |-> 0] /\ former = [g \in Groups |-> 0]
      /\ track = [g \in Groups |-> NoRow] /\ seen = [g \in Groups |-> {}]
      /\ carried = Groups /\ tempOpen = FALSE /\ tempRows = {} /\ pc = "dial"
      /\ badList = {} /\ bad = {} /\ todoList = {}
      /\ grp = [g |-> Min(Groups), new |-> 0, old |-> 0]
      /\ slice = [begin |-> 1, end |-> -1, maxid |-> 0]
  BY DEF ScanInit
<1>3. NoRow \in [used : BOOLEAN, last : -1 .. MaxId, next : -1 .. MaxId] /\ NoRow.last = -1
  BY DEF NoRow
<1>4. Min(Groups) \in Groups
  BY MinOf, ScanAssumption
<1>5. ScanTypeOK
  <2>1. /\ hi \in [Groups -> GroupIds] /\ arts \in [Groups -> SUBSET (1 .. MaxId)]
        /\ \A g \in Groups : arts[g] \subseteq 1 .. hi[g]
    BY <1>1 DEF GroupIds
  <2>2. /\ era \in [Groups -> Nat] /\ former \in [Groups -> GroupIds]
        /\ track \in [Groups -> [used : BOOLEAN, last : -1 .. MaxId, next : -1 .. MaxId]]
        /\ \A g \in Groups : HasRow(g) => track[g].last >= 0
        /\ seen \in [Groups -> SUBSET Articles]
    BY <1>2, <1>3 DEF GroupIds, HasRow
  <2>3. /\ grp \in Rows
        /\ slice \in [begin : 1 .. MaxId + 1, end : {-1} \cup 1 .. MaxId, maxid : -1 .. MaxId]
    BY <1>2, <1>4 DEF Rows, GroupIds
  <2>4. QED
    BY <1>2, <2>1, <2>2, <2>3 DEF ScanTypeOK
<1>6. TrackOK
  BY <1>2, <1>3 DEF TrackOK, Reached
<1>7. FormerOK /\ NextOK /\ RowsOK /\ GroupOK /\ SliceOK /\ ListOK
  BY <1>2 DEF FormerOK, NextOK, RowsOK, GroupOK, SliceOK, ListOK, Busy
<1>8. QED
  BY <1>5, <1>6, <1>7 DEF ScanInv

\* Every step keeps the invariant.
LEMMA StepInv == ScanInv /\ [ScanNext]_scanVars => ScanInv'
<1> SUFFICES ASSUME ScanInv, [ScanNext]_scanVars
             PROVE  ScanInv'
  OBVIOUS
<1>1. CASE Pulling
  BY <1>1, IdleStep, ListStep, LoadStep, GroupStep, SliceStep, CallStep DEF Pulling
<1>2. CASE Break \/ Restart
  BY <1>2, IdleStep
<1>3. CASE \E g \in Groups : Arrive(g) \/ Expire(g) \/ Renumber(g) \/ Carry(g)
  BY <1>3, ChangeStep
<1>4. CASE UNCHANGED scanVars
  <2>1. UNCHANGED <<hi, arts, era, former, carried, track, tempOpen, tempRows, pc, badList, bad, grp,
                    slice, todoList, seen>>
    BY <1>4 DEF scanVars, server, groupTable, client, work
  <2>2. ScanTypeOK' /\ FormerOK' /\ TrackOK' /\ NextOK' /\ RowsOK'
    BY <2>1 DEF ScanInv, ScanTypeOK, HasRow, FormerOK, TrackOK, NextOK, RowsOK, Busy, Reached,
                Covered, Readable, Now
  <2>3. GroupOK' /\ SliceOK' /\ ListOK'
    BY <2>1 DEF ScanInv, GroupOK, SliceOK, ListOK, Busy, Reached, Covered, Readable, Now, InSlice
  <2>4. QED
    BY <2>2, <2>3 DEF ScanInv
<1>5. QED
  BY <1>1, <1>2, <1>3, <1>4 DEF ScanNext, Environment

\* The numbers of the puller are always ones up to which everything has been
\* looked at, wherever they are on their way from UpdateGroupID to the next
\* group command (groupScanLoop, eatGroup, eatGroupSlice).
THEOREM NumbersReached == ScanSpec => []ScanInv
BY InitInv, StepInv, PTL DEF ScanSpec

\* Every variable of the puller and its table keeps its type.
THEOREM ScanTypes == ScanSpec => []ScanTypeOK
<1>1. ScanInv => ScanTypeOK
  BY DEF ScanInv
<1>2. QED
  BY <1>1, NumbersReached, PTL

\* No article is passed over: one whose number is not above the one recorded for
\* its group has been looked at (eatGroup, UpdateGroupID).
THEOREM NothingSkipped == ScanSpec => []NothingPassedOver
<1>1. ASSUME ScanInv
      PROVE  NothingPassedOver
  <2> MaxId \in Nat
    BY ScanAssumption
  <2>1. SUFFICES ASSUME NEW g \in Groups, HasRow(g), track[g].last <= hi[g],
                        NEW a \in arts[g] \ Unreadable, a <= track[g].last
                 PROVE  [era |-> era[g], id |-> a] \in seen[g]
    BY DEF NothingPassedOver
  <2>2. /\ hi[g] \in 0 .. MaxId /\ former[g] \in 0 .. MaxId /\ a \in 1 .. MaxId
        /\ track[g].last \in -1 .. MaxId
    BY <1>1 DEF ScanInv, ScanTypeOK, GroupIds
  <2>3. Reached(g, track[g].last)
    BY <1>1 DEF ScanInv, TrackOK
  <2>4. former[g] = 0
    <3>1. SUFFICES ASSUME former[g] # 0
                   PROVE  FALSE
      OBVIOUS
    <3>2. hi[g] < former[g]
      BY <1>1, <3>1 DEF ScanInv, FormerOK
    <3>3. QED
      BY <2>1, <2>2, <2>3, <3>1, <3>2 DEF Reached
  <2>5. Covered(g, track[g].last)
    BY <2>1, <2>2, <2>3, <2>4 DEF Reached
  <2>6. QED
    BY <2>1, <2>5 DEF Covered, Readable, Now
<1>2. QED
  BY <1>1, NumbersReached, PTL
=============================================================================
