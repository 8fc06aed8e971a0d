------------------------------ MODULE WorkQueue ------------------------------
(***************************************************************************)
(* What client-go's workqueue (k8s.io/client-go/util/workqueue) promises   *)
(* the controller, without its FIFO order: Add marks keys pending, and     *)
(* adding a pending key again does nothing; Get hands a worker a pending   *)
(* key that no worker holds and clears it; Done releases the key.  A key   *)
(* added while a worker holds it stays pending and is handed out again     *)
(* after Done.                                                             *)
(***************************************************************************)
CONSTANTS
    Keys,     \* the keys callers add
    Workers,  \* the goroutines that call Get and Done
    None      \* a worker that holds no key

VARIABLES
    pending,  \* keys added since they were last handed out
    owner     \* worker -> the key it holds, or None

wqVars == <<pending, owner>>

Owned == {owner[w] : w \in Workers} \ {None}

Init ==
    /\ pending = {}
    /\ owner = [w \in Workers |-> None]

\* Add(key) for each key of ks.
Add(ks) ==
    /\ pending' = pending \cup ks
    /\ UNCHANGED owner

\* Get: a pending key that no worker holds.
Get(w, k) ==
    /\ owner[w] = None
    /\ k \in pending \ Owned
    /\ pending' = pending \ {k}
    /\ owner' = [owner EXCEPT ![w] = k]

\* Done(key) by the worker holding it.
Done(w) ==
    /\ owner[w] # None
    /\ owner' = [owner EXCEPT ![w] = None]
    /\ UNCHANGED pending

Next ==
    \/ \E ks \in SUBSET Keys : Add(ks)
    \/ \E w \in Workers : Done(w) \/ \E k \in Keys : Get(w, k)

Spec == Init /\ [][Next]_wqVars
=============================================================================
