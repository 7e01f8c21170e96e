----------------------------- MODULE PullerScan -----------------------------
(***************************************************************************)
(* The scans of the NNTP puller (client_puller.go: Run, main,              *)
(* groupScanLoop, doActiveList, doNewsgroupsList, doGroup, eatGroup,       *)
(* eatGroupSlice) over the table that tracks how far each group has been   *)
(* read (nntppullerdb.go, puller.sql).  A scan lists the groups of the     *)
(* server, notes their high marks in the table, goes through the rows that *)
(* it noted, and reads a group in slices.                                  *)
(*                                                                         *)
(* One call of processTODOList is one step that does what PullerTodo shows *)
(* of it: it looks at the articles of its list in their order, as far as   *)
(* it comes, and records the largest number it is done with.               *)
(*                                                                         *)
(* The server may take in articles, drop them, drop groups and renumber    *)
(* them at any time.  Groups are numbers: the order of their names.        *)
(***************************************************************************)
EXTENDS Integers, FiniteSets, FiniteSetsExt

CONSTANTS Groups,      \* the groups that the puller's policy admits
          MaxId,       \* the largest article number
          SliceSize,   \* smallSliceSize (800 in the code)
          MaxListSize, \* maxListSize (2048 in the code)
          Methods,     \* the commands that may be tried, in the order of the
                       \* numbers: HDR 1, XHDR 2, OVER 3, XOVER 4
          Supported,   \* those that the server knows
          Unreadable,  \* the articles whose line of OVER or XOVER is not
                       \* understood, or does not fit into the buffer
          MaxScanFaults,   \* bound on the failures of a behaviour
          MaxChanges   \* bound on the changes at the server

ASSUME ScanAssumption ==
    /\ Groups \subseteq Nat /\ Groups # {} /\ IsFiniteSet(Groups)
    /\ MaxId \in Nat
    /\ SliceSize \in Nat \ {0}
    /\ MaxListSize \in Nat /\ MaxListSize >= SliceSize
    /\ Methods \subseteq 1 .. 4 /\ Supported \subseteq Methods
    /\ Unreadable \subseteq 1 .. MaxId
    /\ MaxScanFaults \in Nat /\ MaxChanges \in Nat

VARIABLES
    hi,       \* the high mark of each group at the server
    arts,     \* the numbers of its articles
    era,      \* how often the group has been renumbered
    former,   \* what the puller knew when that happened, until it has noticed
    carried,  \* the groups that the server has
    track,    \* ib0.puller_group_track: the row of each group
    tempOpen, \* whether PullerDB.temp_rows is open
    tempRows, \* what it has still to yield
    pc,       \* where the puller is
    badList,  \* clientState.badActiveList, badNewsgroupsList
    bad,      \* clientState.badHdr, badXHdr, badOver, badXOver
    grp,      \* the group being looked at, its new_id and old_id
    slice,    \* eatGroup: r_begin, r_end, maxid
    todoList, \* what the server listed for the slice
    seen,     \* the articles that processTODOList looked at
    faults,   \* how many failures there were
    changes   \* how many changes at the server

server     == <<hi, arts, era, former, carried>>
groupTable == <<track, tempOpen, tempRows>>
client     == <<badList, bad>>
work       == <<grp, slice, todoList>>
scanVars   == <<server, groupTable, pc, client, work, seen, faults, changes>>

NoRow == [used |-> FALSE, last |-> -1, next |-> -1]
HasRow(g) == track[g] # NoRow
Articles == [era : Nat, id : 1 .. MaxId]

\* Failures are counted, so that there is an end to them.
Fault == faults < MaxScanFaults /\ faults' = faults + 1

\* The high mark the server tells: 0 for an empty group.
Mark(g) == IF arts[g] = {} THEN 0 ELSE hi[g]

-----------------------------------------------------------------------------
(***************************************************************************)
(* The table.                                                              *)
(***************************************************************************)

\* UpdateGroupID with an id: an UPDATE, which needs a row.
SetGroupID(g, id) ==
    /\ track' = IF HasRow(g) THEN [track EXCEPT ![g].last = id] ELSE track
    /\ former' = IF grp.old = 0 THEN [former EXCEPT ![g] = 0] ELSE former

\* UpdateGroupID with 0 deletes the row.  Its failure is not looked at.
UnsetGroupID(g) ==
    \/ /\ track' = [track EXCEPT ![g] = NoRow]
       /\ former' = [former EXCEPT ![g] = 0]
       /\ UNCHANGED faults
    \/ Fault /\ UNCHANGED <<track, former>>

\* StoreTempGroupID and StoreTempGroup for the groups in stored, after
\* nextNonce: the rows of no other group are of this list.
Stored(stored, next) ==
    [g \in Groups |->
        IF g \in stored
        THEN [used |-> TRUE, last |-> IF HasRow(g) THEN track[g].last ELSE 0,
              next |-> next[g]]
        ELSE [track[g] EXCEPT !.used = FALSE]]

\* FinishTempGroups: the rows of earlier lists are deleted.
FinishedTemp(t) == [g \in Groups |-> IF t[g].used THEN t[g] ELSE NoRow]

\* The rows that puller_load_temp_groups yields.
Selected == {[g |-> g, new |-> track[g].next, old |-> track[g].last] :
                g \in {h \in Groups : track[h].used}}

-----------------------------------------------------------------------------
(***************************************************************************)
(* The puller.                                                             *)
(***************************************************************************)

\* Run dials; handleInitial, doCapabilities and MODE READER.  The client state
\* is new, PullerDB is the old one.
Connect ==
    /\ pc = "dial"
    /\ pc' = "list"
    /\ badList' = {}
    /\ bad' = {}
    /\ UNCHANGED <<server, groupTable, work, seen, faults, changes>>

\* The connection breaks, in a write or while a response line is read: whatever
\* was under way returns with fatal = true and Run dials again.
Break ==
    /\ pc \in {"list", "group", "slice"}
    /\ Fault
    /\ pc' = "dial"
    /\ UNCHANGED <<server, groupTable, client, work, seen, changes>>

\* The process ends and is started again.
Restart ==
    /\ Fault
    /\ pc' = "dial"
    /\ tempOpen' = FALSE
    /\ tempRows' = {}
    /\ UNCHANGED <<server, track, client, work, seen, changes>>

\* What LIST (hiwm, or -1 for an empty group of a server known to misreport)
\* and LIST NEWSGROUPS (always -1) say of the high marks.
Marks(method) ==
    IF method = "active"
    THEN {[g \in Groups |-> Mark(g)],
          [g \in Groups |-> IF arts[g] = {} THEN -1 ELSE hi[g]]}
    ELSE {[g \in Groups |-> -1]}

\* The list arrives whole and is stored.
ListComplete(method) ==
    /\ \E next \in Marks(method) : track' = FinishedTemp(Stored(carried, next))
    /\ pc' = "load"
    /\ UNCHANGED <<badList, faults>>

\* The list fails, at the response, after some lines, in the database or at
\* its end; some of these mean that it is not asked for again.
ListFails(method) ==
    /\ Fault
    /\ \/ UNCHANGED track
       \/ \E some \in SUBSET carried, next \in Marks(method) : track' = Stored(some, next)
    /\ badList' \in {badList, badList \cup {method}}
    /\ pc' \in IF method = "active" THEN {"list2", "dial"} ELSE {"dial"}

\* doActiveList, if it is not known to fail; then doNewsgroupsList, whose
\* failure ends the connection ("no methods left").
ListGroups ==
    /\ \/ /\ pc = "list" /\ "active" \notin badList
          /\ (ListComplete("active") \/ ListFails("active"))
       \/ /\ pc = "list2" \/ (pc = "list" /\ "active" \in badList)
          /\ (ListComplete("newsgroups") \/ ListFails("newsgroups"))
    /\ UNCHANGED <<server, tempOpen, tempRows, bad, work, seen, changes>>

\* The rows that LoadTempGroup has left to give: those of the query that is
\* open, or it asks anew.
RowsLeft == IF tempOpen THEN tempRows ELSE Selected

\* (Wrong variant: a mark that went down is taken for one that stayed.)
LoadDown ==
    /\ pc = "load"
    /\ LET rs == RowsLeft IN
       \/ /\ (rs = {} /\ UNCHANGED faults) \/ Fault
          /\ tempOpen' = FALSE
          /\ tempRows' = {}
          /\ pc' = "wait"
          /\ UNCHANGED grp
       \/ \E r \in rs :
          /\ \A other \in rs : r.g <= other.g
          /\ tempOpen' = TRUE
          /\ tempRows' = rs \ {r}
          /\ IF r.new >= 0 /\ r.old >= r.new
             THEN pc' = "load" /\ UNCHANGED grp
             ELSE pc' = "group" /\ grp' = r
          /\ UNCHANGED faults
    /\ UNCHANGED <<server, track, client, slice, todoList, seen, changes>>

\* LoadTempGroup: the next row, or the end of them; and what groupScanLoop does
\* with it before it asks the server.
Load ==
    /\ pc = "load"
    /\ LET rs == RowsLeft IN
       \/ /\ (rs = {} /\ UNCHANGED faults) \/ Fault
          /\ tempOpen' = FALSE
          /\ tempRows' = {}
          /\ pc' = "wait"
          /\ UNCHANGED <<track, grp, former>>
       \/ \E r \in rs :
          /\ \A other \in rs : r.g <= other.g
          /\ tempOpen' = TRUE
          /\ tempRows' = rs \ {r}
          /\ \/ /\ r.new >= 0 /\ r.old = r.new
                /\ pc' = "load"
                /\ UNCHANGED <<track, grp, faults, former>>
             \/ /\ r.new >= 0 /\ r.old > r.new
                /\ UnsetGroupID(r.g)
                /\ grp' = [r EXCEPT !.old = 0]
                /\ pc' = "group"
             \/ /\ r.new < 0 \/ r.old < r.new
                /\ grp' = r
                /\ pc' = "group"
                /\ UNCHANGED <<track, faults, former>>
    /\ UNCHANGED <<hi, arts, era, carried, client, slice, todoList, seen, changes>>

\* The last slice has no end.
SliceEnd(begin, new) == IF new > begin + SliceSize - 1 THEN begin + SliceSize - 1 ELSE -1

\* eatGroup begins.
Eat(g, new, old) ==
    /\ grp' = [g |-> g, new |-> new, old |-> old]
    /\ slice' = [begin |-> old + 1, end |-> SliceEnd(old + 1, new), maxid |-> old]
    /\ pc' = "slice"

\* doGroup says 211, and the rest of the turn of groupScanLoop.
GroupThere ==
    /\ grp.g \in carried
    /\ LET fresh == grp.new < 0 \/ Mark(grp.g) > grp.new
           new == IF fresh THEN Mark(grp.g) ELSE grp.new
           again == fresh /\ grp.old > new
           old == IF again THEN 0 ELSE grp.old IN
       /\ IF again THEN UnsetGroupID(grp.g) ELSE UNCHANGED <<track, former, faults>>
       /\ IF old = new THEN pc' = "load" /\ UNCHANGED <<grp, slice>>
                       ELSE Eat(grp.g, new, old)

\* 411.
GroupGone ==
    /\ grp.g \notin carried
    /\ UnsetGroupID(grp.g)
    /\ pc' = "load"
    /\ UNCHANGED <<grp, slice>>

\* Any other answer: "next group, I guess".
GroupOdd ==
    /\ Fault
    /\ pc' = "load"
    /\ UNCHANGED <<track, grp, slice, former>>

DoGroup ==
    /\ pc = "group"
    /\ GroupThere \/ GroupGone \/ GroupOdd
    /\ UNCHANGED <<hi, arts, era, carried, tempOpen, tempRows, client, todoList, seen, changes>>

\* The end of a turn of the loop of eatGroup, with what eatGroupSlice returned.
NextSlice(maxid) ==
    LET end == IF maxid > slice.end THEN maxid ELSE slice.end
        begin == end + 1 IN
    IF slice.end < 0 \/ begin > grp.new
    THEN pc' = "load" /\ slice' = [slice EXCEPT !.maxid = maxid]
    ELSE /\ pc' = "slice"
         /\ slice' = [begin |-> begin, end |-> SliceEnd(begin, grp.new), maxid |-> maxid]

\* eatHdrOutput, eatOverOutput: what was not asked for is left out.
InSlice(id) ==
    /\ id >= slice.begin
    /\ IF slice.end >= 0 THEN id <= slice.end ELSE id < slice.begin + MaxListSize

Listed == {[era |-> era[grp.g], id |-> a] : a \in {b \in arts[grp.g] : InSlice(b)}}

\* What is understood of it: eatOverOutput skips a line and goes on.
Understood(m) == IF m \in {1, 2} THEN Listed ELSE {a \in Listed : a.id \notin Unreadable}

\* The answer to HDR, XHDR, OVER or XOVER.
Answered(m) ==
    \/ /\ m \in Supported               \* 225, 221 or 224, and the list
       /\ todoList' = Understood(m)
       /\ pc' = "todo"
       /\ UNCHANGED <<bad, slice, faults>>
    \/ /\ m \in Supported               \* the same, but the list does not parse
       /\ Fault
       /\ pc' = "load"
       /\ UNCHANGED <<bad, slice, todoList>>
    \/ /\ m \in Supported               \* 423 or 420
       /\ Listed = {}
       /\ NextSlice(0)
       /\ UNCHANGED <<bad, todoList, faults>>
    \/ /\ (m \notin Supported /\ UNCHANGED faults) \/ Fault
       /\ bad' = bad \cup {m}            \* 500, or anything else
       /\ UNCHANGED <<pc, slice, todoList>>

\* eatGroupSlice asks with the first method that is not known to fail; without
\* one, "can't list group slice" ends the group.
AskSlice ==
    /\ pc = "slice"
    /\ IF Methods \subseteq bad
       THEN pc' = "load" /\ UNCHANGED <<bad, slice, todoList, faults>>
       ELSE Answered(Min(Methods \ bad))
    /\ UNCHANGED <<server, groupTable, badList, grp, seen, changes>>

\* What the return of processTODOList leads to.
Continue(err, fatal, newMax) ==
    IF err THEN pc' = (IF fatal THEN "dial" ELSE "load") /\ UNCHANGED slice
           ELSE NextSlice(newMax)

LargestId(done) == IF done = {} THEN -1 ELSE Max({a.id : a \in done})

\* The deferred UpdateGroupID.
Record(newMax) ==
    IF newMax >= 0 /\ newMax > slice.maxid THEN SetGroupID(grp.g, newMax)
                                           ELSE UNCHANGED <<track, former>>

\* processTODOList without a failure: every article is looked at and done with.
TodoDone ==
    /\ pc = "todo"
    /\ seen' = [seen EXCEPT ![grp.g] = @ \cup todoList]
    /\ Record(LargestId(todoList))
    /\ Continue(FALSE, FALSE, LargestId(todoList))
    /\ UNCHANGED <<hi, arts, era, carried, tempOpen, tempRows, client, grp, todoList, faults, changes>>

\* (Wrong variant: records what it was to look at, not how far it came.)
TodoDisturbedAhead ==
    /\ pc = "todo"
    /\ Fault
    /\ \E upto \in 0 .. MaxId :
          /\ seen' = [seen EXCEPT ![grp.g] = @ \cup {a \in todoList : a.id <= upto}]
          /\ Record(LargestId(todoList))
          /\ Continue(TRUE, FALSE, LargestId(todoList))
    /\ UNCHANGED <<hi, arts, era, carried, tempOpen, tempRows, client, grp, todoList, changes>>

\* processTODOList with a failure: an article answered strangely, the number not
\* recorded, or an error after which only a part was looked at, and only a part
\* of that is done with.
TodoDisturbed ==
    /\ pc = "todo"
    /\ Fault
    /\ \E upto \in 0 .. MaxId :
          LET looked == {a \in todoList : a.id <= upto} IN
          /\ seen' = [seen EXCEPT ![grp.g] = @ \cup looked]
          /\ \E done \in SUBSET looked :
             /\ Record(LargestId(done)) \/ UNCHANGED <<track, former>>
             /\ \E err, fatal \in BOOLEAN :
                /\ err \/ looked = todoList
                /\ Continue(err, fatal, LargestId(done))
    /\ UNCHANGED <<hi, arts, era, carried, tempOpen, tempRows, client, grp, todoList, changes>>

\* "groupScanLoop() done, will wait 90 secs".
Wait ==
    /\ pc = "wait"
    /\ pc' = "list"
    /\ UNCHANGED <<server, groupTable, client, work, seen, faults, changes>>

-----------------------------------------------------------------------------
(***************************************************************************)
(* The server.                                                             *)
(***************************************************************************)

Change ==
    /\ changes < MaxChanges
    /\ changes' = changes + 1
    /\ UNCHANGED <<groupTable, pc, client, work, seen, faults>>

\* An article arrives.  A group that has been renumbered does not come up to
\* what the puller knows of it before the puller has noticed.
Arrive(g) ==
    /\ g \in carried
    /\ hi[g] < MaxId
    /\ former[g] = 0 \/ hi[g] + 1 < former[g]
    /\ hi' = [hi EXCEPT ![g] = @ + 1]
    /\ arts' = [arts EXCEPT ![g] = @ \cup {hi[g] + 1}]
    /\ UNCHANGED <<era, former, carried>>
    /\ Change

Expire(g) ==
    /\ \E a \in arts[g] : arts' = [arts EXCEPT ![g] = @ \ {a}]
    /\ UNCHANGED <<hi, era, former, carried>>
    /\ Change

\* The group begins anew, between two scans.
Renumber(g) ==
    /\ hi[g] > 0
    /\ pc \in {"dial", "list", "wait"} /\ ~tempOpen
    /\ hi' = [hi EXCEPT ![g] = 0]
    /\ arts' = [arts EXCEPT ![g] = {}]
    /\ era' = [era EXCEPT ![g] = @ + 1]
    /\ former' = [former EXCEPT ![g] = Max({@, track[g].last})]
    /\ UNCHANGED carried
    /\ Change

\* A group is dropped or comes back.
Carry(g) ==
    /\ carried' = IF g \in carried THEN carried \ {g} ELSE carried \cup {g}
    /\ UNCHANGED <<hi, arts, era, former>>
    /\ Change

-----------------------------------------------------------------------------

Pulling ==
    Connect \/ ListGroups \/ Load \/ DoGroup \/ AskSlice \/ TodoDone \/ TodoDisturbed \/ Wait

Environment ==
    \/ Break \/ Restart
    \/ \E g \in Groups : Arrive(g) \/ Expire(g) \/ Renumber(g) \/ Carry(g)

ScanNext == Pulling \/ Environment

ScanInit ==
    /\ \E h \in 0 .. MaxId : hi = [g \in Groups |-> h] /\ arts = [g \in Groups |-> 1 .. h]
    /\ era = [g \in Groups |-> 0]
    /\ former = [g \in Groups |-> 0]
    /\ carried = Groups
    /\ track = [g \in Groups |-> NoRow]
    /\ tempOpen = FALSE
    /\ tempRows = {}
    /\ pc = "dial"
    /\ badList = {}
    /\ bad = {}
    /\ grp = [g |-> Min(Groups), new |-> 0, old |-> 0]
    /\ slice = [begin |-> 1, end |-> -1, maxid |-> 0]
    /\ todoList = {}
    /\ seen = [g \in Groups |-> {}]
    /\ faults = 0
    /\ changes = 0

ScanSpec == ScanInit /\ [][ScanNext]_scanVars

\* The puller goes on for as long as the process runs.
ScanFairness == WF_scanVars(Pulling)

-----------------------------------------------------------------------------
(***************************************************************************)
(* Properties.                                                             *)
(***************************************************************************)

GroupIds == 0 .. MaxId
Rows == [g : Groups, new : -1 .. MaxId, old : GroupIds]

\* Every variable keeps its type.
ScanTypeOK ==
    /\ hi \in [Groups -> GroupIds]
    /\ arts \in [Groups -> SUBSET (1 .. MaxId)]
    /\ \A g \in Groups : arts[g] \subseteq 1 .. hi[g]
    /\ era \in [Groups -> Nat]
    /\ former \in [Groups -> GroupIds]
    /\ carried \subseteq Groups
    /\ track \in [Groups -> [used : BOOLEAN, last : -1 .. MaxId, next : -1 .. MaxId]]
    /\ \A g \in Groups : HasRow(g) => track[g].last >= 0
    /\ tempOpen \in BOOLEAN
    /\ tempRows \subseteq Rows
    /\ pc \in {"dial", "list", "list2", "load", "group", "slice", "todo", "wait"}
    /\ badList \subseteq {"active", "newsgroups"}
    /\ bad \subseteq Methods
    /\ grp \in Rows
    /\ slice \in [begin : 1 .. MaxId + 1, end : {-1} \cup 1 .. MaxId, maxid : -1 .. MaxId]
    /\ seen \in [Groups -> SUBSET Articles]
    /\ todoList \subseteq Articles

\* No article is passed over: a recorded id says that every article up to it,
\* in the numbering of the server, has been looked at, over the borders of
\* slices, after failures and after rescans (eatGroup, lines 995-1041; the
\* ids of groups that went down are cleared in lines 1097-1102 and 1130-1136).
\* An article whose overview is not understood can be passed over ("TODO don't
\* skip", line 763): the ids behind it are recorded all the same.
NothingPassedOver ==
    \A g \in Groups : HasRow(g) /\ track[g].last <= hi[g] =>
        \A a \in arts[g] \ Unreadable :
            a <= track[g].last => [era |-> era[g], id |-> a] \in seen[g]

\* Once the server is quiet and nothing fails, every article of every group
\* that the server has, and whose overview can be understood, is looked at
\* sooner or later.
CatchesUp ==
    <>[](\A g \in carried : \A a \in arts[g] \ Unreadable : [era |-> era[g], id |-> a] \in seen[g])
=============================================================================
