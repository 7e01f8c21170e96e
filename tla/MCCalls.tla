------------------------------ MODULE MCCalls ------------------------------
(***************************************************************************)
(* What is done for a client, or by the puller, one call at a time: a      *)
(* reader's pointer walks along the numbers of a group (GroupPointer), the *)
(* articles that a list names are fetched from another server              *)
(* (PullerTodo), and a file of the cache is obtained while another call    *)
(* generates it (CacheEngine).  These have no state in common, so a        *)
(* behaviour follows one of them and leaves the others alone.              *)
(***************************************************************************)
EXTENDS GroupPointer, PullerTodo, MCCacheEngine

\* An open range and a single number.
MCRanges == {<<1, -1>>, <<2, 2>>}

VARIABLE subject    \* "pointer", "todo" or "obtain"

callsVars == <<subject, vars, todoVars, cacheVars>>

\* The call has returned: its list was empty.
TodoIdle ==
    /\ list = <<>> /\ maxid = -1
    /\ i = 1 /\ cpc = "returned" /\ err = "nil" /\ fatal = FALSE
    /\ newMax = -1 /\ recorded = Known /\ stored = FALSE
    /\ todochan = <<>> /\ closed = TRUE
    /\ wpc = "closed" /\ cur = 0
    /\ asked = <<>> /\ answered = 0 /\ fate = <<>> /\ declined = {}

\* Every call has returned.
ObtainIdle ==
    /\ at = [r \in Readers |-> "done"]
    /\ w = None /\ stable = None /\ replaced = {}
    /\ n = [c \in Calls |-> 0] /\ e = [c \in Calls |-> "nil"]
    /\ p = [c \in Calls |-> FALSE] /\ f = [c \in Calls |-> FALSE]
    /\ o = [r \in Readers |-> None] /\ rdGen = [r \in Readers |-> None]
    /\ live = [r \in Readers |-> FALSE] /\ readDone = [r \in Readers |-> FALSE]
    /\ rm = [m \in Removers |-> "idle"] /\ seen = [m \in Removers |-> None]
    /\ tmp = [r \in Readers |-> "none"] /\ tmpName = [r \in Readers |-> FALSE]
    /\ res = [r \in Readers |-> "none"] /\ rd = [r \in Readers |-> "none"]
    /\ wk = [r \in Readers |-> "none"] /\ pub = [r \in Readers |-> "live"]

CallsInit ==
    /\ Init
    /\ \/ subject = "pointer" /\ TodoIdle /\ ObtainIdle
       \/ subject = "todo" /\ TodoInit /\ ObtainIdle
       \/ subject = "obtain" /\ TodoIdle /\ CacheInit

Following(s) == subject = s

\* Articles go to the first board, and OtherPosts of them at most to another
\* one (as well): enough for a client to change the group and come back.
OtherPosts == 1
FewElsewhere == \A b \in Boards \ {1} : last[b] <= OtherPosts

CallsNext ==
    /\ \/ Following("pointer") /\ Next /\ FewElsewhere' /\ UNCHANGED <<todoVars, cacheVars>>
       \/ Following("todo") /\ TodoNext /\ UNCHANGED <<vars, cacheVars>>
       \/ Following("obtain") /\ CacheNext /\ UNCHANGED <<vars, todoVars>>
    /\ UNCHANGED subject

\* TodoFairness and Fairness(Readers \ Slow), of the one that is followed.
CallsFairness ==
    /\ WF_todoVars(Following("todo") /\ Calling)
    /\ WF_todoVars(Following("todo") /\ Responding)
    /\ \A r \in Readers :
          /\ WF_cacheVars(Following("obtain") /\ ~Crashed /\ Obtaining(r))
          /\ WF_cacheVars(Following("obtain") /\ ~Crashed /\ Generating(r))
    /\ \A r \in Readers \ Slow : WF_cacheVars(Following("obtain") /\ ~Crashed /\ Copying(r))
    /\ \A m \in Removers : WF_cacheVars(Following("obtain") /\ ~Crashed /\ Removing(m))

CallsSpec == CallsInit /\ [][CallsNext]_callsVars /\ CallsFairness
=============================================================================
