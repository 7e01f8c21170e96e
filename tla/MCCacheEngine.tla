--------------------------- MODULE MCCacheEngine ---------------------------
(* Instances of CacheEngine for TLC.                                       *)
EXTENDS CacheEngineInv, TLC

CONSTANTS Slow   \* the clients that may stop reading for ever

CallSymmetry == Permutations(Readers) \cup Permutations(Removers)

\* Two instances in one: all readers and no removal, or two readers and all
\* removals.
Crowd == Cardinality({r \in Readers : at[r] # "begin"})
TwoOrNoRemoval == Crowd <= 2 \/ \A m \in Removers : rm[m] = "idle"

\* "so that no slow reader(s) could block the following" (lines 24-25): an
\* ObtainItem whose client keeps reading returns even if others never do.
PromptObtainsReturn ==
    \A r \in Readers \ Slow : <>(at[r] = "done" \/ Crashed)
=============================================================================
