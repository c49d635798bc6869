----------------------------- MODULE NonceStore -----------------------------
(***************************************************************************)
(* The nonces of HTTP digest authentication, in the table "nonce" that all *)
(* request processes share.  A request carries a nonce and the count the   *)
(* client gives this use of it.  nonce_validate first looks it up on its   *)
(* own, then again inside the transaction that raises the stored count; a  *)
(* client without a usable nonce is given a new one, which may cull others *)
(* to make room.  json_logout deletes the nonce of its own request.        *)
(*                                                                         *)
(* What happens between BEGIN IMMEDIATE and COMMIT is invisible to other   *)
(* processes, so the statements of a transaction that follow one another   *)
(* without a decision are one step.                                        *)
(***************************************************************************)
EXTENDS Naturals, FiniteSets

CONSTANTS
    Procs,        \* request processes
    Nonces,       \* what a nonce may be: those stored, and those made up
    MaxNonces,    \* NONCEMAX
    CullSize,     \* the LIMIT of SQL_NONCE_REMOVE_MULTI
    MaxCount,     \* bound: the largest count a request carries
    MaxRequests,  \* bound: requests ever made
    FaultKinds,   \* "crash", "statement", "commit"
    MaxFaults,    \* bound: faults ever
    None          \* no row, nobody

(* A row: "count", and the AUTOINCREMENT id that tells two rows with the   *)
(* same nonce, made at different times, apart.                             *)
Row == [count : Nat, id : Nat]

(* What a request brings: its nonce, its count, and the page it asks for.  *)
Request == [nonce : Nonces, count : 0 .. MaxCount, page : {"logout", "other"}]

ASSUME NonceAssumption ==
    /\ MaxNonces \in Nat \ {0} /\ CullSize \in Nat \ {0} /\ MaxCount \in Nat
    /\ MaxRequests \in Nat /\ MaxFaults \in Nat
    /\ FaultKinds \subseteq {"crash", "statement", "commit"}
    /\ None \notin Procs
    /\ None \notin Row /\ None \notin Request

VARIABLES
    nonce,     \* nonce[n]: the committed row of n, or None
    next,      \* the next row id
    lock,      \* the process inside a transaction, or None
    pc,        \* where each process is
    req,       \* the request: its nonce, its count, and the page asked for
    answer,    \* what nonce_validate made of the last request of a process
    accepted,  \* history: <<row id, count>> of the requests let through,
               \*   once the count they leave behind is committed
    reqs,      \* requests made so far
    faults     \* faults so far

bounds == <<reqs, faults>>
vars == <<nonce, next, lock, pc, req, answer, accepted, reqs, faults>>

Pcs     == {"idle", "validate", "update", "check", "write", "new", "insert", "page"}
Answers == {"none", "ok", "replay", "stale", "error"}

Stored == {n \in Nonces : nonce[n] # None}

Goto(p, label) == pc' = [pc EXCEPT ![p] = label] /\ UNCHANGED req

(* The process answers and exits.                                          *)
Exit(p) == pc' = [pc EXCEPT ![p] = "idle"] /\ req' = [req EXCEPT ![p] = None]

(* nonce_validate returns; only a request it lets through gets to its page.*)
Verdict(p, a) ==
    /\ answer' = [answer EXCEPT ![p] = a]
    /\ IF a = "ok" THEN Goto(p, "page") ELSE Exit(p)

-----------------------------------------------------------------------------
(* A request that has passed the password check.                           *)
Arrive(p) ==
    /\ pc[p] = "idle" /\ reqs < MaxRequests
    /\ \E r \in Request : req' = [req EXCEPT ![p] = r]
    /\ reqs' = reqs + 1
    /\ answer' = [answer EXCEPT ![p] = "none"]
    /\ pc' = [pc EXCEPT ![p] = "validate"]
    /\ UNCHANGED <<nonce, next, lock, accepted, faults>>

(* db_nonce_validate of the request's count against a row.                 *)
Replayed_OrEqual(p) == req[p].nonce \in Stored /\ req[p].count <= nonce[req[p].nonce].count
Replayed(p) == req[p].nonce \in Stored /\ req[p].count < nonce[req[p].nonce].count
Fresh(p)    == req[p].nonce \in Stored /\ ~Replayed(p)
Unknown(p)  == req[p].nonce \notin Stored

(* The first look, outside any transaction.                                *)
nonce_validate(p) ==
    /\ pc[p] = "validate"
    /\ \/ Replayed(p) /\ Verdict(p, "replay")
       \/ Unknown(p) /\ Goto(p, "new") /\ UNCHANGED answer
       \/ Fresh(p) /\ Goto(p, "update") /\ UNCHANGED answer
    /\ UNCHANGED <<nonce, next, lock, accepted, bounds>>

(* db_nonce_update: BEGIN IMMEDIATE, which waits for the lock.             *)
update_open(p) ==
    /\ pc[p] = "update" /\ lock = None /\ lock' = p
    /\ Goto(p, "check")
    /\ UNCHANGED <<nonce, next, answer, accepted, bounds>>

(* db_nonce_update: validate again, or ROLLBACK.                           *)
update_check_NoRollback(p) ==
    /\ pc[p] = "check"
    /\ \/ Fresh(p) /\ Goto(p, "write") /\ UNCHANGED answer
       \/ Replayed(p) /\ Verdict(p, "replay")
       \/ Unknown(p) /\ Goto(p, "new") /\ UNCHANGED answer
    /\ UNCHANGED <<nonce, next, lock, accepted, bounds>>
update_check_Once(p) ==
    /\ pc[p] = "check" /\ Goto(p, "write")
    /\ UNCHANGED <<nonce, next, lock, answer, accepted, bounds>>
update_check(p) ==
    /\ pc[p] = "check"
    /\ \/ Fresh(p) /\ Goto(p, "write") /\ UNCHANGED <<answer, lock>>
       \/ Replayed(p) /\ Verdict(p, "replay") /\ lock' = None
       \/ Unknown(p) /\ Goto(p, "new") /\ lock' = None /\ UNCHANGED answer
    /\ UNCHANGED <<nonce, next, accepted, bounds>>

(* The count an accepted request leaves behind.                            *)
Used_MinusOne(r, count) == [r EXCEPT !.count = count - 1]
Used(r, count) == [r EXCEPT !.count = count + 1]

(* The row of the request's nonce, if there is one.                        *)
RowId(p) == {nonce[n].id : n \in {req[p].nonce} \cap Stored}

Accept(p) ==
    /\ accepted' = accepted \cup (RowId(p) \X {req[p].count})
    /\ Verdict(p, "ok")

(* db_nonce_update: UPDATE and COMMIT.                                     *)
update_write(p) ==
    /\ pc[p] = "write" /\ lock' = None
    /\ nonce' = [nonce EXCEPT ![req[p].nonce] =
                    IF @ = None THEN None ELSE Used(@, req[p].count)]
    /\ Accept(p)
    /\ UNCHANGED <<next, bounds>>

-----------------------------------------------------------------------------
(* db_nonce_new: BEGIN IMMEDIATE.                                          *)
new_open(p) ==
    /\ pc[p] = "new" /\ lock = None /\ lock' = p
    /\ Goto(p, "insert")
    /\ UNCHANGED <<nonce, next, answer, accepted, bounds>>

(* The rows the cull may remove: SQL_NONCE_REMOVE_MULTI has no ORDER BY.   *)
Culls_TooLate == IF Cardinality(Stored) <= MaxNonces THEN {{}}
                 ELSE {ns \in SUBSET Stored : Cardinality(ns) = CullSize}
Culls ==
    IF Cardinality(Stored) < MaxNonces THEN {{}}
    ELSE LET size == IF CullSize < Cardinality(Stored) THEN CullSize
                                                       ELSE Cardinality(Stored)
         IN {ns \in SUBSET Stored : Cardinality(ns) = size}

(* COUNT, the cull, the INSERT repeated until the nonce is unique, and     *)
(* COMMIT: 401 with the new nonce and stale=true.                          *)
new_insert(p) ==
    /\ pc[p] = "insert" /\ lock' = None
    /\ \E culled \in Culls : \E n \in (Nonces \ Stored) \cup culled :
          nonce' = [m \in Nonces |-> IF m = n THEN [count |-> 0, id |-> next]
                                     ELSE IF m \in culled THEN None ELSE nonce[m]]
    /\ next' = next + 1
    /\ Verdict(p, "stale")
    /\ UNCHANGED <<accepted, bounds>>

-----------------------------------------------------------------------------
(* json_logout: db_nonce_delete, by value; 200 whether it worked or not.   *)
json_logout(p) ==
    /\ pc[p] = "page" /\ req[p].page = "logout" /\ lock = None
    /\ nonce' = [nonce EXCEPT ![req[p].nonce] = None]
    /\ Exit(p)
    /\ UNCHANGED <<next, lock, answer, accepted, bounds>>

(* Any other page or method: nothing to do with nonces.                    *)
OtherPage(p) ==
    /\ pc[p] = "page" /\ req[p].page = "other"
    /\ Exit(p)
    /\ UNCHANGED <<nonce, next, lock, answer, accepted, bounds>>

-----------------------------------------------------------------------------
Fault(kind) ==
    /\ kind \in FaultKinds /\ faults < MaxFaults
    /\ faults' = faults + 1 /\ UNCHANGED reqs

(* The transaction of a process that ends is rolled back.                  *)
Release(p) == lock' = IF lock = p THEN None ELSE lock

Crash(p) ==
    /\ pc[p] # "idle" /\ Fault("crash")
    /\ Release(p) /\ Exit(p)
    /\ UNCHANGED <<nonce, next, answer, accepted>>

(* A statement ends in an error: 505, with the transaction rolled back.    *)
StatementFails(p) ==
    /\ pc[p] \in Pcs \ {"idle", "page"} /\ Fault("statement")
    /\ Release(p) /\ Verdict(p, "error")
    /\ UNCHANGED <<nonce, next, accepted>>

(* The DELETE of a logout ends in an error: nobody looks at the result.    *)
LogoutFails(p) ==
    /\ pc[p] = "page" /\ req[p].page = "logout" /\ Fault("statement")
    /\ Exit(p)
    /\ UNCHANGED <<nonce, next, lock, answer, accepted>>

(* COMMIT fails, and db_trans_commit's result is not looked at: the request *)
(* is let through uncounted, or given a nonce that is not stored.          *)
CommitFails(p) ==
    /\ pc[p] \in {"write", "insert"} /\ Fault("commit")
    /\ lock' = None
    /\ Verdict(p, IF pc[p] = "write" THEN "ok" ELSE "stale")
    /\ UNCHANGED <<nonce, next, accepted>>

Serve(p) ==
    \/ nonce_validate(p) \/ update_open(p) \/ update_check(p) \/ update_write(p)
    \/ new_open(p) \/ new_insert(p) \/ json_logout(p) \/ OtherPage(p)

Break(p) == Crash(p) \/ StatementFails(p) \/ LogoutFails(p) \/ CommitFails(p)

Init ==
    /\ nonce = [n \in Nonces |-> None] /\ next = 1 /\ lock = None
    /\ pc = [p \in Procs |-> "idle"]
    /\ req = [p \in Procs |-> None]
    /\ answer = [p \in Procs |-> "none"]
    /\ accepted = {} /\ reqs = 0 /\ faults = 0

Next == \E p \in Procs : Arrive(p) \/ Serve(p) \/ Break(p)

(* Processes run, and a process that waits for the write lock sleeps and   *)
(* tries again until it has it.                                            *)
Fairness == \A p \in Procs : WF_vars(Serve(p))

Spec == Init /\ [][Next]_vars /\ Fairness

-----------------------------------------------------------------------------
TypeOK ==
    /\ nonce \in [Nonces -> Row \cup {None}] /\ next \in Nat
    /\ lock \in Procs \cup {None}
    /\ pc \in [Procs -> Pcs] /\ req \in [Procs -> Request \cup {None}]
    /\ answer \in [Procs -> Answers]
    /\ accepted \subseteq Nat \X Nat
    /\ reqs \in Nat /\ faults \in Nat

LetThrough(p) == answer[p] = "none" /\ answer'[p] = "ok"
TurnedAway(p) == answer[p] = "none" /\ answer'[p] = "replay"

(* The point of the counts: of the requests that carry the same nonce,     *)
(* those let through have ever larger counts, so that none is let through  *)
(* twice, whichever processes the copies reach and whatever was looked up  *)
(* before.  (A request whose COMMIT failed has left no count to compare    *)
(* with: it is not among the accepted, and may come back.)                 *)
CountsIncrease ==
    [][\A p \in Procs : LetThrough(p)
         => \A a \in accepted : a[1] \in RowId(p) => a[2] < req[p].count]_vars

(* A nonce that a logout has deleted or a newcomer culled lets nothing     *)
(* through any more, even a request that found it there at its first look. *)
LetThroughOnlyIfStored ==
    [][\A p \in Procs : LetThrough(p) => req[p].nonce \in Stored]_vars

(* Nobody is turned away for nothing: a request refused as a replay came   *)
(* after one with the same nonce and at least its count was let through.   *)
RefusedOnlyIfOvertaken ==
    [][\A p \in Procs : TurnedAway(p)
         => \E a \in accepted : a[1] \in RowId(p) /\ a[2] >= req[p].count]_vars

(* The table that "is basically touchable by the open Internet"            *)
(* (kcaldav.sql:69) stays within NONCEMAX rows.                            *)
TableBounded == Cardinality(Stored) <= MaxNonces

(* Every request is let through or turned away.                            *)
EveryRequestEnds == \A p \in Procs : pc[p] # "idle" ~> pc[p] = "idle"

=============================================================================
