---------------------------- MODULE NonceProofs -----------------------------
(***************************************************************************)
(* Proofs about NonceStore, for every number of processes and nonces.      *)
(***************************************************************************)
EXTENDS NonceStore, FiniteSetTheorems, TLAPS

(* The write lock belongs to the process inside a transaction.             *)
LockOK == \A p \in Procs : pc[p] \in {"check", "write", "insert"} <=> lock = p

ReqOK == \A p \in Procs : pc[p] # "idle" => req[p] \in Request

(* Row ids are given out once.                                             *)
IdsOK ==
    /\ \A n \in Stored : nonce[n].id < next
    /\ \A a \in accepted : a[1] < next
    /\ \A m, n \in Stored : nonce[m].id = nonce[n].id => m = n

(* The stored count is one more than the last count let through, and than  *)
(* every other.                                                            *)
CountsOK == \A n \in Stored :
    /\ \A a \in accepted : a[1] = nonce[n].id => a[2] < nonce[n].count
    /\ nonce[n].count # 0 =>
         \E a \in accepted : a[1] = nonce[n].id /\ a[2] + 1 = nonce[n].count

(* What was checked in a transaction still holds when it writes.           *)
CheckedOK == \A p \in Procs : pc[p] = "write" => Fresh(p)

NInv == TypeOK /\ LockOK /\ ReqOK /\ IdsOK /\ CountsOK /\ CheckedOK

LEMMA InitInv ==
  ASSUME Init
  PROVE  NInv
<1>1. Stored = {}
  BY DEF Init, Stored
<1>2. TypeOK
  BY DEF Init, TypeOK, Pcs, Answers
<1>3. LockOK /\ ReqOK /\ CheckedOK
  BY NonceAssumption DEF Init, LockOK, ReqOK, CheckedOK
<1>4. IdsOK /\ CountsOK
  BY <1>1 DEF Init, IdsOK, CountsOK
<1>5. QED
  BY <1>2, <1>3, <1>4 DEF NInv

-----------------------------------------------------------------------------
(* One process moves to another label, or ends.                            *)
Moves(p, labels) ==
    /\ \A q \in Procs \ {p} : pc'[q] = pc[q] /\ req'[q] = req[q]
    /\ pc'[p] \in labels
    /\ pc'[p] = "idle" \/ req'[p] = req[p]
    /\ pc' \in [Procs -> Pcs] /\ req' \in [Procs -> Request \cup {None}]

LEMMA GotoMoves ==
  ASSUME TypeOK, NEW p \in Procs, NEW label \in Pcs, Goto(p, label)
  PROVE  Moves(p, {label})
  BY DEF Goto, Moves, TypeOK

LEMMA ExitMoves ==
  ASSUME TypeOK, NEW p \in Procs, Exit(p)
  PROVE  Moves(p, {"idle"})
  BY DEF Exit, Moves, TypeOK, Pcs

LEMMA VerdictMoves ==
  ASSUME TypeOK, NEW p \in Procs, NEW a \in Answers, Verdict(p, a)
  PROVE  /\ Moves(p, IF a = "ok" THEN {"page"} ELSE {"idle"})
         /\ answer' = [answer EXCEPT ![p] = a]
<1>1. CASE a = "ok"
  BY <1>1, GotoMoves DEF Verdict, Pcs
<1>2. CASE a # "ok"
  BY <1>2, ExitMoves DEF Verdict
<1>3. QED
  BY <1>1, <1>2

(* A step that leaves the table and the history of requests let through    *)
(* alone: only the lock and the labels matter.                             *)
LEMMA QuietInv ==
  ASSUME NInv, NEW p \in Procs, NEW labels \in SUBSET Pcs, Moves(p, labels),
         UNCHANGED <<nonce, next, accepted>>,
         answer' \in [Procs -> Answers],
         reqs' \in Nat, faults' \in Nat,
         \/ /\ lock' = lock
            /\ pc'[p] \in {"check", "write", "insert"}
                 <=> pc[p] \in {"check", "write", "insert"}
         \/ lock' = p /\ lock = None /\ pc'[p] \in {"check", "insert"}
         \/ lock' = None /\ lock = p /\ pc'[p] \notin {"check", "write", "insert"},
         pc[p] = "idle" => pc'[p] = "idle",
         pc'[p] = "write" => Fresh(p)
  PROVE  NInv'
<1>1. TypeOK'
  BY DEF NInv, TypeOK, Moves
<1>2. LockOK'
  BY NonceAssumption DEF NInv, LockOK, Moves
<1>3. ReqOK'
  BY DEF NInv, ReqOK, Moves
<1>4. IdsOK' /\ CountsOK'
  BY DEF NInv, IdsOK, CountsOK, Stored
<1>5. CheckedOK'
  BY DEF NInv, CheckedOK, Moves, Fresh, Replayed, Stored
<1>6. QED
  BY <1>1, <1>2, <1>3, <1>4, <1>5 DEF NInv

LEMMA ArriveInv ==
  ASSUME NInv, NEW p \in Procs, Arrive(p)
  PROVE  NInv'
<1>1. PICK r \in Request : req' = [req EXCEPT ![p] = r]
  BY DEF Arrive
<1>2. /\ pc' = [pc EXCEPT ![p] = "validate"] /\ pc[p] = "idle"
      /\ UNCHANGED <<nonce, next, lock, accepted, faults>>
      /\ reqs' = reqs + 1 /\ answer' = [answer EXCEPT ![p] = "none"]
  BY DEF Arrive
<1>3. TypeOK'
  BY <1>1, <1>2 DEF NInv, TypeOK, Pcs, Answers
<1>4. LockOK' /\ ReqOK'
  BY <1>1, <1>2 DEF NInv, TypeOK, LockOK, ReqOK
<1>5. IdsOK' /\ CountsOK'
  BY <1>2 DEF NInv, IdsOK, CountsOK, Stored
<1>6. CheckedOK'
  BY <1>1, <1>2 DEF NInv, TypeOK, CheckedOK, Fresh, Replayed, Stored
<1>7. QED
  BY <1>3, <1>4, <1>5, <1>6 DEF NInv

LEMMA ReadInv ==
  ASSUME NInv, NEW p \in Procs,
         \/ nonce_validate(p) \/ update_open(p) \/ update_check(p)
         \/ new_open(p) \/ OtherPage(p)
  PROVE  NInv'
<1> DEFINE Keep == /\ UNCHANGED <<nonce, next, accepted>>
                   /\ answer' \in [Procs -> Answers]
                   /\ reqs' \in Nat /\ faults' \in Nat
<1>1. TypeOK
  BY DEF NInv
<1>2. ASSUME UNCHANGED <<nonce, next, accepted, bounds>>,
             answer' = answer \/ \E a \in Answers : answer' = [answer EXCEPT ![p] = a]
      PROVE  Keep
  BY <1>1, <1>2 DEF TypeOK, bounds
<1>3. CASE nonce_validate(p)
  <2>1. \/ Moves(p, {"idle"}) /\ answer' = [answer EXCEPT ![p] = "replay"]
        \/ Moves(p, {"new"}) /\ answer' = answer
        \/ Moves(p, {"update"}) /\ answer' = answer
    BY <1>1, <1>3, VerdictMoves, GotoMoves DEF nonce_validate, Pcs, Answers
  <2>2. Keep
    BY <1>2, <1>3, <2>1 DEF nonce_validate, Answers
  <2>3. /\ pc[p] = "validate" /\ lock' = lock
        /\ pc'[p] \in {"idle", "new", "update"}
        /\ Moves(p, {"idle", "new", "update"})
    BY <1>3, <2>1 DEF nonce_validate, Moves
  <2>4. QED
    BY <2>2, <2>3, QuietInv DEF Pcs
<1>4. CASE update_open(p) \/ new_open(p)
  <2>1. Moves(p, {"check", "insert"}) /\ answer' = answer
    BY <1>1, <1>4, GotoMoves DEF update_open, new_open, Pcs, Moves
  <2>2. Keep
    BY <1>2, <1>4, <2>1 DEF update_open, new_open
  <2>3. pc[p] \in {"update", "new"} /\ lock = None /\ lock' = p
    BY <1>4 DEF update_open, new_open
  <2>4. QED
    BY <2>1, <2>2, <2>3, QuietInv DEF Pcs, Moves
<1>5. CASE update_check(p)
  <2>1. pc[p] = "check" /\ lock = p
    BY <1>5 DEF update_check, NInv, LockOK
  <2>2. \/ Moves(p, {"write"}) /\ answer' = answer /\ lock' = lock /\ Fresh(p)
        \/ Moves(p, {"idle"}) /\ answer' = [answer EXCEPT ![p] = "replay"] /\ lock' = None
        \/ Moves(p, {"new"}) /\ answer' = answer /\ lock' = None
    BY <1>1, <1>5, VerdictMoves, GotoMoves DEF update_check, Pcs, Answers
  <2>3. Keep
    BY <1>2, <1>5, <2>2 DEF update_check, Answers
  <2>4. CASE Moves(p, {"write"}) /\ answer' = answer /\ lock' = lock /\ Fresh(p)
    BY <2>1, <2>3, <2>4, QuietInv DEF Pcs, Moves
  <2>5. CASE Moves(p, {"idle", "new"}) /\ lock' = None
    BY <2>1, <2>3, <2>5, QuietInv DEF Pcs, Moves
  <2>6. QED
    BY <2>2, <2>4, <2>5 DEF Moves
<1>6. CASE OtherPage(p)
  <2>1. Moves(p, {"idle"}) /\ answer' = answer /\ lock' = lock /\ pc[p] = "page"
    BY <1>1, <1>6, ExitMoves DEF OtherPage
  <2>2. Keep
    BY <1>2, <1>6, <2>1 DEF OtherPage
  <2>3. QED
    BY <2>1, <2>2, QuietInv DEF Pcs, Moves
<1>7. QED
  BY <1>3, <1>4, <1>5, <1>6

-----------------------------------------------------------------------------
(* A step that writes the table, by the process that holds the lock or     *)
(* while nobody does: nobody is left inside a transaction.                 *)
LEMMA WriteInv ==
  ASSUME NInv, NEW p \in Procs, NEW labels \in SUBSET Pcs, Moves(p, labels),
         labels \cap {"check", "write", "insert"} = {},
         lock \in {None, p}, lock' = None, pc[p] # "idle",
         TypeOK', IdsOK', CountsOK'
  PROVE  NInv'
<1>1. \A q \in Procs : pc'[q] \notin {"check", "write", "insert"}
  BY NonceAssumption DEF NInv, LockOK, Moves
<1>2. LockOK' /\ CheckedOK'
  BY <1>1, NonceAssumption DEF LockOK, CheckedOK
<1>3. ReqOK'
  BY DEF NInv, ReqOK, Moves
<1>4. QED
  BY <1>2, <1>3 DEF NInv

LEMMA UpdateInv ==
  ASSUME NInv, NEW p \in Procs, update_write(p)
  PROVE  NInv'
<1> DEFINE n == req[p].nonce
           r == nonce[n]
           k == req[p].count
           R == [r EXCEPT !.count = k + 1]
<1>1. /\ pc[p] = "write" /\ lock' = None /\ Verdict(p, "ok")
      /\ UNCHANGED <<next, reqs, faults>>
  BY DEF update_write, Accept, bounds
<1>2. lock = p /\ n \in Stored /\ k >= r.count
  <2>1. req[p] \in Request /\ Fresh(p)
    BY <1>1 DEF NInv, ReqOK, CheckedOK
  <2>2. k \in Nat /\ (n \in Stored => r.count \in Nat)
    BY <2>1 DEF Request, NInv, TypeOK, Row, Stored
  <2>3. QED
    BY <1>1, <2>1, <2>2 DEF Fresh, Replayed, NInv, LockOK
<1>3. /\ n \in Nonces /\ r # None /\ k \in Nat /\ r \in Row
  <2>1. req[p] \in Request
    BY <1>1 DEF NInv, ReqOK
  <2>2. QED
    BY <1>2, <2>1 DEF Request, NInv, TypeOK, Stored
<1>4. /\ R \in Row /\ R.id = r.id /\ R.count = k + 1 /\ R # None
  BY <1>3, NonceAssumption DEF Row
<1>5. nonce' = [nonce EXCEPT ![n] = R]
  BY <1>3 DEF update_write, Used
<1>6. RowId(p) = {r.id}
  BY <1>2 DEF RowId
<1>7. accepted' = accepted \cup {<<r.id, k>>}
  BY <1>6 DEF update_write, Accept
<1> HIDE DEF R
<1>8. /\ \A m \in Nonces : nonce'[m] = IF m = n THEN R ELSE nonce[m]
      /\ Stored' = Stored
  BY <1>3, <1>4, <1>5 DEF NInv, TypeOK, Stored
<1>9. Moves(p, {"page"}) /\ answer' \in [Procs -> Answers]
  BY <1>1, VerdictMoves DEF NInv, TypeOK, Answers
<1>10. TypeOK'
  <2>1. accepted' \subseteq Nat \X Nat
    BY <1>3, <1>7 DEF NInv, TypeOK, Row
  <2>2. nonce' \in [Nonces -> Row \cup {None}]
    BY <1>4, <1>5 DEF NInv, TypeOK
  <2>3. QED
    BY <1>1, <1>9, <2>1, <2>2 DEF NInv, TypeOK, Moves
<1>11. IdsOK'
  <2>1. r.id < next
    BY <1>2 DEF NInv, IdsOK
  <2>2. \A m \in Stored : nonce'[m].id = nonce[m].id
    BY <1>4, <1>8 DEF Stored
  <2>3. QED
    BY <1>1, <1>7, <1>8, <2>1, <2>2 DEF NInv, IdsOK
<1>12. CountsOK'
  <2> SUFFICES ASSUME NEW m \in Stored
               PROVE  /\ \A a \in accepted' : a[1] = nonce'[m].id => a[2] < nonce'[m].count
                      /\ nonce'[m].count # 0 =>
                           \E a \in accepted' :
                              a[1] = nonce'[m].id /\ a[2] + 1 = nonce'[m].count
    BY <1>8 DEF CountsOK
  <2>1. CASE m = n
    <3>1. nonce'[m].id = r.id /\ nonce'[m].count = k + 1
      BY <1>3, <1>4, <1>8, <2>1
    <3>2. \A a \in accepted : a[1] = r.id => a[2] < r.count
      BY <1>2 DEF NInv, CountsOK
    <3>3. \A a \in accepted : a[2] \in Nat
      BY DEF NInv, TypeOK
    <3>4. \A a \in accepted : a[1] = r.id => a[2] < k + 1
      BY <1>2, <1>3, <3>2, <3>3 DEF Row
    <3>5. <<r.id, k>>[1] = r.id /\ <<r.id, k>>[2] = k /\ k < k + 1
      BY <1>3
    <3>6. QED
      BY <1>7, <3>1, <3>4, <3>5
  <2>2. CASE m # n
    <3>1. nonce'[m] = nonce[m] /\ m \in Nonces
      BY <1>8, <2>2 DEF Stored
    <3>2. nonce[m].id # r.id
      BY <1>2, <2>2 DEF NInv, IdsOK
    <3>3. QED
      BY <1>7, <3>1, <3>2 DEF NInv, CountsOK
  <2>3. QED
    BY <2>1, <2>2
<1>13. QED
  BY <1>1, <1>2, <1>9, <1>10, <1>11, <1>12, WriteInv DEF Pcs

LEMMA InsertInv ==
  ASSUME NInv, NEW p \in Procs, new_insert(p)
  PROVE  NInv'
<1>1. /\ pc[p] = "insert" /\ lock' = None /\ Verdict(p, "stale") /\ next' = next + 1
      /\ UNCHANGED <<accepted, reqs, faults>>
  BY DEF new_insert, bounds
<1>2. lock = p
  BY <1>1 DEF NInv, LockOK
<1> DEFINE R == [count |-> 0, id |-> next]
<1>3. PICK culled \in SUBSET Stored, n \in Nonces :
        nonce' = [m \in Nonces |-> IF m = n THEN R
                                   ELSE IF m \in culled THEN None ELSE nonce[m]]
  <2>1. \A culled \in Culls : culled \in SUBSET Stored
    BY DEF Culls
  <2>2. QED
    BY <2>1 DEF new_insert, Stored
<1>4. R \in Row /\ R # None /\ R.id = next /\ R.count = 0
  BY NonceAssumption DEF Row, NInv, TypeOK
<1> HIDE DEF R
<1>5. \A m \in Nonces : nonce'[m] = R \/ nonce'[m] = None \/ nonce'[m] = nonce[m]
  BY <1>3
<1>6. \A m \in Stored' : m = n \/ (m \in Stored /\ nonce'[m] = nonce[m])
  BY <1>3 DEF Stored
<1>7. nonce'[n] = R
  BY <1>3
<1>8. Moves(p, {"idle"}) /\ answer' \in [Procs -> Answers]
  BY <1>1, VerdictMoves DEF NInv, TypeOK, Answers
<1>9. TypeOK'
  <2>1. nonce' \in [Nonces -> Row \cup {None}]
    BY <1>3, <1>4 DEF NInv, TypeOK
  <2>2. QED
    BY <1>1, <1>8, <2>1 DEF NInv, TypeOK, Moves
<1>10. next \in Nat /\ \A m \in Stored : nonce[m].id \in Nat
  BY DEF NInv, TypeOK, Stored, Row
<1>11. \A a \in accepted : a[1] \in Nat /\ a[1] < next
  BY DEF NInv, TypeOK, IdsOK
<1>12. IdsOK'
  BY <1>1, <1>4, <1>6, <1>7, <1>10, <1>11 DEF NInv, IdsOK
<1>13. CountsOK'
  BY <1>1, <1>4, <1>6, <1>7, <1>10, <1>11 DEF NInv, CountsOK
<1>14. QED
  BY <1>1, <1>2, <1>8, <1>9, <1>12, <1>13, WriteInv DEF Pcs

LEMMA LogoutInv ==
  ASSUME NInv, NEW p \in Procs, json_logout(p)
  PROVE  NInv'
<1>1. /\ pc[p] = "page" /\ lock = None /\ lock' = None /\ Exit(p)
      /\ nonce' = [nonce EXCEPT ![req[p].nonce] = None]
      /\ UNCHANGED <<next, answer, accepted, reqs, faults>>
  BY DEF json_logout, bounds
<1>2. \A m \in Stored' : m \in Stored /\ nonce'[m] = nonce[m]
  BY <1>1 DEF NInv, TypeOK, Stored
<1>3. Moves(p, {"idle"})
  BY <1>1, ExitMoves DEF NInv
<1>4. TypeOK'
  BY <1>1, <1>3 DEF NInv, TypeOK, Moves
<1>5. IdsOK' /\ CountsOK'
  BY <1>1, <1>2 DEF NInv, IdsOK, CountsOK
<1>6. QED
  BY <1>1, <1>3, <1>4, <1>5, WriteInv DEF Pcs

LEMMA BreakInv ==
  ASSUME NInv, NEW p \in Procs, Break(p)
  PROVE  NInv'
<1>1. UNCHANGED <<nonce, next, accepted, reqs>> /\ faults' = faults + 1
  BY DEF Break, Crash, StatementFails, LogoutFails, CommitFails, Fault
<1>2. /\ Moves(p, {"idle", "page"}) /\ answer' \in [Procs -> Answers]
      /\ pc[p] # "idle"
  <2>1. CASE Crash(p)
    <3>1. Moves(p, {"idle"})
      BY <2>1, ExitMoves DEF Crash, NInv
    <3>2. QED
      BY <2>1, <3>1 DEF Moves, Crash, NInv, TypeOK
  <2>2. CASE StatementFails(p)
    <3>1. Moves(p, {"idle"}) /\ answer' = [answer EXCEPT ![p] = "error"]
      BY <2>2, VerdictMoves DEF StatementFails, NInv, Answers
    <3>2. QED
      BY <2>2, <3>1 DEF Moves, StatementFails, NInv, TypeOK, Answers
  <2>3. CASE LogoutFails(p)
    <3>1. Moves(p, {"idle"})
      BY <2>3, ExitMoves DEF LogoutFails, NInv
    <3>2. QED
      BY <2>3, <3>1 DEF Moves, LogoutFails, NInv, TypeOK
  <2>4. CASE CommitFails(p)
    <3> DEFINE a == IF pc[p] = "write" THEN "ok" ELSE "stale"
    <3>1. a \in Answers /\ Verdict(p, a)
      BY <2>4 DEF CommitFails, Answers
    <3>2. /\ Moves(p, IF a = "ok" THEN {"page"} ELSE {"idle"})
          /\ answer' = [answer EXCEPT ![p] = a]
      BY <3>1, VerdictMoves DEF NInv
    <3> HIDE DEF a
    <3>3. QED
      BY <2>4, <3>1, <3>2 DEF Moves, CommitFails, NInv, TypeOK
  <2>5. QED
    BY <2>1, <2>2, <2>3, <2>4 DEF Break
<1>3. \/ lock = p /\ lock' = None
      \/ lock' = lock /\ pc[p] \notin {"check", "write", "insert"}
  BY DEF Break, Crash, StatementFails, LogoutFails, CommitFails, Release, NInv, LockOK
<1>4. reqs' \in Nat /\ faults' \in Nat
  BY <1>1 DEF NInv, TypeOK
<1>5. pc'[p] \in {"idle", "page"}
  BY <1>2 DEF Moves
<1>6. QED
  BY <1>1, <1>2, <1>3, <1>4, <1>5, QuietInv DEF Pcs

LEMMA NextInv ==
  ASSUME NInv, [Next]_vars
  PROVE  NInv'
<1>1. ASSUME NEW p \in Procs, Serve(p)
      PROVE  NInv'
  BY <1>1, ReadInv, UpdateInv, InsertInv, LogoutInv DEF Serve
<1>2. CASE UNCHANGED vars
  BY <1>2 DEF NInv, TypeOK, LockOK, ReqOK, IdsOK, CountsOK, CheckedOK, Fresh, Replayed,
              Stored, vars
<1>3. QED
  BY <1>1, <1>2, ArriveInv, BreakInv DEF Next

LEMMA Reachable == Spec => []NInv
<1>1. Init => NInv
  BY InitInv
<1>2. NInv /\ [Next]_vars => NInv'
  BY NextInv
<1>3. QED
  BY <1>1, <1>2, PTL DEF Spec

-----------------------------------------------------------------------------
(* The steps that let a request through, and those that refuse it.         *)
LEMMA Letting ==
  ASSUME NInv, [Next]_vars, NEW p \in Procs, LetThrough(p)
  PROVE  pc[p] = "write"
<1>1. answer'[p] # answer[p]
  BY DEF LetThrough
<1>2. PICK q \in Procs : Arrive(q) \/ Serve(q) \/ Break(q)
  BY <1>1 DEF Next, vars
<1>3. answer \in [Procs -> Answers]
  BY DEF NInv, TypeOK
<1>4. ASSUME NEW a \in {"none", "replay", "stale", "error"},
             answer' = [answer EXCEPT ![q] = a]
      PROVE  FALSE
  BY <1>1, <1>3, <1>4 DEF LetThrough
<1>5. ~Arrive(q)
  BY <1>4 DEF Arrive
<1>6. ~Crash(q) /\ ~StatementFails(q) /\ ~LogoutFails(q)
  BY <1>1, <1>4 DEF Crash, StatementFails, LogoutFails, Verdict
<1>7. ~nonce_validate(q) /\ ~update_check(q) /\ ~new_insert(q)
  BY <1>1, <1>4 DEF nonce_validate, update_check, new_insert, Verdict
<1>8. ~update_open(q) /\ ~new_open(q) /\ ~json_logout(q) /\ ~OtherPage(q)
  BY <1>1 DEF update_open, new_open, json_logout, OtherPage
<1>9. update_write(q) \/ CommitFails(q)
  BY <1>2, <1>5, <1>6, <1>7, <1>8 DEF Serve, Break
<1>10. pc[q] = "write"
  BY <1>4, <1>9 DEF update_write, CommitFails, Verdict
<1>11. q = p
  BY <1>1, <1>3, <1>9 DEF update_write, CommitFails, Accept, Verdict
<1>12. QED
  BY <1>10, <1>11

LEMMA Refusing ==
  ASSUME NInv, [Next]_vars, NEW p \in Procs, TurnedAway(p)
  PROVE  Replayed(p) /\ pc[p] # "idle"
<1>1. answer'[p] # answer[p] /\ answer'[p] = "replay"
  BY DEF TurnedAway
<1>2. PICK q \in Procs : Arrive(q) \/ Serve(q) \/ Break(q)
  BY <1>1 DEF Next, vars
<1>3. answer \in [Procs -> Answers]
  BY DEF NInv, TypeOK
<1>4. ASSUME NEW a \in {"none", "ok", "stale", "error"},
             answer' = [answer EXCEPT ![q] = a]
      PROVE  FALSE
  BY <1>1, <1>3, <1>4
<1>5. ~Arrive(q)
  BY <1>4 DEF Arrive
<1>6. ~Break(q)
  BY <1>1, <1>4 DEF Break, Crash, StatementFails, LogoutFails, CommitFails, Fault, Verdict
<1>7. ~update_write(q) /\ ~new_insert(q)
  BY <1>4 DEF update_write, Accept, new_insert, Verdict
<1>8. ~update_open(q) /\ ~new_open(q) /\ ~json_logout(q) /\ ~OtherPage(q)
  BY <1>1 DEF update_open, new_open, json_logout, OtherPage
<1>9. nonce_validate(q) \/ update_check(q)
  BY <1>2, <1>5, <1>6, <1>7, <1>8 DEF Serve
<1>10. Replayed(q) /\ answer' = [answer EXCEPT ![q] = "replay"] /\ pc[q] # "idle"
  BY <1>1, <1>9 DEF nonce_validate, update_check, Verdict
<1>11. QED
  BY <1>1, <1>3, <1>10

(* Every nonce, count and request keeps the type that the schema and the   *)
(* parser of the Authorization header give it.                             *)
THEOREM NonceTypes == Spec => []TypeOK
<1>1. NInv => TypeOK
  BY DEF NInv
<1>2. QED
  BY <1>1, Reachable, PTL

(* db_nonce_update validates again inside its transaction: of the requests *)
(* with one nonce, those let through have ever larger counts.              *)
THEOREM AtMostOnce == Spec => CountsIncrease
<1> DEFINE Step == \A p \in Procs : LetThrough(p)
                     => \A a \in accepted : a[1] \in RowId(p) => a[2] < req[p].count
<1>1. NInv /\ [Next]_vars => Step
  <2> SUFFICES ASSUME NInv, [Next]_vars, NEW p \in Procs, LetThrough(p),
                      NEW a \in accepted, a[1] \in RowId(p)
               PROVE  a[2] < req[p].count
    OBVIOUS
  <2>1. pc[p] = "write"
    BY Letting
  <2>2. Fresh(p) /\ req[p] \in Request
    BY <2>1 DEF NInv, CheckedOK, ReqOK
  <2> DEFINE r == nonce[req[p].nonce]
  <2>3. req[p].nonce \in Stored /\ a[1] = r.id
    BY <2>2 DEF Fresh, RowId
  <2>4. a[2] < r.count
    BY <2>3 DEF NInv, CountsOK
  <2>5. r.count \in Nat /\ req[p].count \in Nat /\ a[2] \in Nat
    BY <2>2, <2>3 DEF NInv, TypeOK, Row, Stored, Request
  <2>6. r.count <= req[p].count
    BY <2>2, <2>5 DEF Fresh, Replayed
  <2>7. QED
    BY <2>4, <2>5, <2>6
<1>2. NInv /\ [Next]_vars => [Step]_vars
  BY <1>1
<1>3. Spec => [][Step]_vars
  BY <1>2, Reachable, PTL DEF Spec
<1>4. QED
  BY <1>3 DEF CountsIncrease

(* A logout or a cull between a request's two looks turns it away.         *)
THEOREM NoStaleNonce == Spec => LetThroughOnlyIfStored
<1> DEFINE Step == \A p \in Procs : LetThrough(p) => req[p].nonce \in Stored
<1>1. NInv /\ [Next]_vars => Step
  <2> SUFFICES ASSUME NInv, [Next]_vars, NEW p \in Procs, LetThrough(p)
               PROVE  req[p].nonce \in Stored
    OBVIOUS
  <2>1. pc[p] = "write"
    BY Letting
  <2>2. QED
    BY <2>1 DEF NInv, CheckedOK, Fresh
<1>2. NInv /\ [Next]_vars => [Step]_vars
  BY <1>1
<1>3. Spec => [][Step]_vars
  BY <1>2, Reachable, PTL DEF Spec
<1>4. QED
  BY <1>3 DEF LetThroughOnlyIfStored

(* NONCE_REPLAY is returned only after a request with the same nonce and   *)
(* at least the same count was let through.                                *)
THEOREM RefusalJustified == Spec => RefusedOnlyIfOvertaken
<1> DEFINE Step == \A p \in Procs : TurnedAway(p)
                     => \E a \in accepted : a[1] \in RowId(p) /\ a[2] >= req[p].count
<1>1. NInv /\ [Next]_vars => Step
  <2> SUFFICES ASSUME NInv, [Next]_vars, NEW p \in Procs, TurnedAway(p)
               PROVE  \E a \in accepted : a[1] \in RowId(p) /\ a[2] >= req[p].count
    OBVIOUS
  <2> DEFINE r == nonce[req[p].nonce]
  <2>1. Replayed(p) /\ req[p] \in Request
    BY Refusing DEF NInv, ReqOK
  <2>2. /\ req[p].nonce \in Stored /\ r.count \in Nat /\ req[p].count \in Nat
        /\ req[p].count < r.count /\ RowId(p) = {r.id}
    BY <2>1 DEF Replayed, RowId, NInv, TypeOK, Row, Stored, Request
  <2>3. PICK a \in accepted : a[1] = r.id /\ a[2] + 1 = r.count
    BY <2>2 DEF NInv, CountsOK
  <2>4. a[2] \in Nat
    BY DEF NInv, TypeOK
  <2>5. QED
    BY <2>2, <2>3, <2>4
<1>2. NInv /\ [Next]_vars => [Step]_vars
  BY <1>1
<1>3. Spec => [][Step]_vars
  BY <1>2, Reachable, PTL DEF Spec
<1>4. QED
  BY <1>3 DEF RefusedOnlyIfOvertaken

-----------------------------------------------------------------------------
(* The size of the table.                                                  *)

BInv == IsFiniteSet(Stored) /\ Cardinality(Stored) <= MaxNonces

LEMMA InsertBounded ==
  ASSUME BInv, NEW p \in Procs, new_insert(p)
  PROVE  BInv'
<1>1. PICK culled \in Culls, n \in Nonces :
        nonce' = [m \in Nonces |-> IF m = n THEN [count |-> 0, id |-> next]
                                   ELSE IF m \in culled THEN None ELSE nonce[m]]
  <2>1. \A culled \in Culls : culled \in SUBSET Stored
    BY DEF Culls
  <2>2. QED
    BY <2>1 DEF new_insert, Stored
<1> DEFINE T == Stored \ culled
<1>2. /\ IsFiniteSet(Stored) /\ Cardinality(Stored) \in Nat
      /\ Cardinality(Stored) <= MaxNonces
      /\ MaxNonces \in Nat \ {0} /\ CullSize \in Nat \ {0}
  BY FS_CardinalityType, NonceAssumption DEF BInv
<1>3. culled \subseteq Stored
  BY DEF Culls
<1>4. /\ IsFiniteSet(T) /\ Cardinality(T) = Cardinality(Stored) - Cardinality(culled)
  <2>1. Stored \cap culled = culled
    BY <1>3
  <2>2. QED
    BY <1>2, <2>1, FS_Difference
<1>5. Cardinality(T) \in Nat /\ Cardinality(T) < MaxNonces
  <2>1. CASE Cardinality(Stored) < MaxNonces
    <3>1. Cardinality(culled) = 0
      BY <2>1, FS_EmptySet DEF Culls
    <3>2. QED
      BY <1>2, <1>4, <2>1, <3>1
  <2>2. CASE ~(Cardinality(Stored) < MaxNonces)
    <3> DEFINE size == IF CullSize < Cardinality(Stored) THEN CullSize
                                                         ELSE Cardinality(Stored)
    <3>1. Cardinality(culled) = size
      BY <2>2 DEF Culls
    <3>2. size \in Nat \ {0} /\ size <= Cardinality(Stored)
      BY <1>2, <2>2
    <3> HIDE DEF size
    <3>3. QED
      BY <1>2, <1>4, <3>1, <3>2
  <2>3. QED
    BY <2>1, <2>2
<1>6. /\ IsFiniteSet(T \cup {n})
      /\ Cardinality(T \cup {n}) <= MaxNonces
  <2>1. IsFiniteSet(T)
    BY <1>4
  <2>2. Cardinality(T) \in Nat /\ Cardinality(T) + 1 <= MaxNonces
    BY <1>2, <1>5
  <2> HIDE DEF T
  <2>3. /\ IsFiniteSet(T \cup {n})
        /\ \/ Cardinality(T \cup {n}) = Cardinality(T)
           \/ Cardinality(T \cup {n}) = Cardinality(T) + 1
    BY <2>1, FS_AddElement
  <2>4. QED
    BY <1>2, <2>2, <2>3
<1>7. Stored' \subseteq T \cup {n}
  BY <1>1 DEF Stored
<1> DEFINE U == T \cup {n}
           V == Stored'
<1>8. IsFiniteSet(V) /\ Cardinality(V) <= Cardinality(U)
  <2>1. IsFiniteSet(U) /\ V \in SUBSET U
    BY <1>6, <1>7
  <2> HIDE DEF U, V
  <2>2. QED
    BY <2>1, FS_Subset
<1>9. Cardinality(Stored') \in Nat /\ Cardinality(T \cup {n}) \in Nat
  BY <1>6, <1>8, FS_CardinalityType
<1>10. QED
  BY <1>2, <1>6, <1>8, <1>9 DEF BInv

LEMMA ShrinkBounded ==
  ASSUME BInv, Stored' \subseteq Stored
  PROVE  BInv'
<1>1. IsFiniteSet(Stored') /\ Cardinality(Stored') <= Cardinality(Stored)
  BY FS_Subset DEF BInv
<1>2. Cardinality(Stored') \in Nat /\ Cardinality(Stored) \in Nat /\ MaxNonces \in Nat
  BY <1>1, FS_CardinalityType, NonceAssumption DEF BInv
<1>3. QED
  BY <1>1, <1>2 DEF BInv

(* NONCEMAX: COUNT, cull and INSERT run in one transaction, so that the    *)
(* table never outgrows it, however many requests ask for a nonce at once. *)
THEOREM Bounded == Spec => []TableBounded
<1>1. Init => BInv
  <2> SUFFICES ASSUME Init
               PROVE  BInv
    OBVIOUS
  <2>1. Stored = {}
    BY DEF Init, Stored
  <2>2. QED
    BY <2>1, FS_EmptySet, NonceAssumption DEF BInv
<1>2. BInv /\ [Next]_vars => BInv'
  <2> SUFFICES ASSUME BInv, [Next]_vars
               PROVE  BInv'
    OBVIOUS
  <2>1. CASE UNCHANGED vars
    BY <2>1, ShrinkBounded DEF vars, Stored
  <2>2. ASSUME NEW p \in Procs, Arrive(p) \/ Break(p)
        PROVE  BInv'
    <3>1. nonce' = nonce
      BY <2>2 DEF Arrive, Break, Crash, StatementFails, LogoutFails, CommitFails
    <3>2. QED
      BY <3>1, ShrinkBounded DEF Stored
  <2>3. ASSUME NEW p \in Procs, Serve(p), ~new_insert(p)
        PROVE  BInv'
    <3>1. CASE nonce' = nonce
      BY <3>1, ShrinkBounded DEF Stored
    <3>2. CASE update_write(p)
      <4>1. Stored' \subseteq Stored
        BY <3>2 DEF update_write, Stored
      <4>2. QED
        BY <4>1, ShrinkBounded
    <3>3. CASE json_logout(p)
      <4>1. Stored' \subseteq Stored
        BY <3>3 DEF json_logout, Stored
      <4>2. QED
        BY <4>1, ShrinkBounded
    <3>4. QED
      BY <2>3, <3>1, <3>2, <3>3 DEF Serve, nonce_validate, update_open, update_check,
         new_open, OtherPage
  <2>4. QED
    BY <2>1, <2>2, <2>3, InsertBounded DEF Next
<1>3. BInv => TableBounded
  BY DEF BInv, TableBounded
<1>4. QED
  BY <1>1, <1>2, <1>3, PTL DEF Spec
=============================================================================
