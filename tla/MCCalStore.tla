----------------------------- MODULE MCCalStore -----------------------------
(* Small instances of CalStore for TLC.                                    *)
EXTENDS CalStoreInv, TLC

Symmetry == Permutations(Clients)

(* An example of each kind of record has the type the invariants expect.   *)
ASSUME Examples ==
    /\ \A m \in AllMethods : Request(m) \in Job
    /\ \A u \in Urls, n \in Names :
       /\ [url |-> u, ctag |-> 1, props |-> NoProps] \in Coln
       /\ [etag |-> 1, data |-> 1] \in Res
       /\ [id |-> 1, ctag |-> 1, props |-> NoProps] \in Snapshot
       /\ [id |-> 1, ctag |-> 1, whole |-> TRUE, list |-> [m \in Names |-> None]]
             \in Listing
       /\ [url |-> u, name |-> n, etag |-> 1, data |-> 1] \in Copy
=============================================================================
