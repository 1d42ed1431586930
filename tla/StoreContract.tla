---------------------------- MODULE StoreContract ----------------------------
(***************************************************************************)
(* What StudioService expects of its durable store: each write takes       *)
(* effect at once and on top of all writes before it, and a write whose    *)
(* call returned stays.  A write that failed may or may not be there.      *)
(***************************************************************************)
CONSTANT Writes

VARIABLES
    records,  \* writes that took effect
    returned  \* writes whose call has returned

vars == <<records, returned>>

Init == records = {} /\ returned = {}

Commit(w) ==
    /\ records' = records \cup {w}
    /\ UNCHANGED returned

Return(w) ==
    /\ w \in records
    /\ returned' = returned \cup {w}
    /\ UNCHANGED records

Next == \E w \in Writes : Commit(w) \/ Return(w)

Spec == Init /\ [][Next]_vars
=============================================================================
