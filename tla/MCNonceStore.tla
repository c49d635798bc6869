---------------------------- MODULE MCNonceStore ----------------------------
(* A small instance of NonceStore for TLC.                                 *)
EXTENDS NonceStore

(* An example of each kind of record has the type the invariants expect.   *)
ASSUME Examples ==
    /\ \A n \in Nonces : [nonce |-> n, count |-> 0, page |-> "logout"] \in Request
    /\ [count |-> 0, id |-> 0] \in Row
=============================================================================
