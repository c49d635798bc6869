---------------------------- MODULE MCAccounts ----------------------------
(* Instances of Accounts for TLC: see the .cfg files.                      *)
EXTENDS AccountsInv, TLC

(* Processes, principals, addresses and hashes may be permuted; the user   *)
(* ids may not, since one of them is privileged.                           *)
Alike == Permutations(Procs) \cup Permutations(Users)
           \cup Permutations(Mails) \cup Permutations(Hashes)

(* An example of each kind of record has the type the invariants expect.   *)
ASSUME Examples ==
    /\ \A page \in Pages, user \in Users : Asks(page, user) \in Job
    /\ \A user \in Users, hash \in Hashes, mail \in Mails :
       /\ [name |-> user, hash |-> hash, email |-> mail] \in Prncpl
       /\ [id |-> 1, name |-> user, hash |-> hash, email |-> mail] \in Loaded
=============================================================================
