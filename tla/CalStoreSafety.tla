--------------------------- MODULE CalStoreSafety ---------------------------
(***************************************************************************)
(* The inductive invariant of CalStore is preserved by every step, whence  *)
(* its safety properties, for every value of the constants.                *)
(***************************************************************************)
EXTENDS CalStoreProofs

(* Only the process of c takes the step.                                   *)
Only(c) == \A b \in Clients \ {c} :
               pc'[b] = pc[b] /\ job'[b] = job[b] /\ cfg'[b] = cfg[b]

DataOK == RowsOK(db) /\ SnapshotsOK /\ TargetsOK /\ UnchangedCtagMeansUnchanged

LEMMA AnswerOnly ==
  ASSUME TInv, NEW c \in Clients, NEW status, Answer(c, status)
  PROVE  Only(c) /\ pc'[c] = "idle" /\ cfg'[c] = None
  BY DEF TInv, ProcType, Answer, Only

LEMMA GotoOnly ==
  ASSUME TInv, NEW c \in Clients, NEW label, Goto(c, label)
  PROVE  Only(c) /\ pc'[c] = label /\ job' = job /\ cfg' = cfg
  BY DEF TInv, ProcType, Goto, Only

-----------------------------------------------------------------------------
(* The write lock and the writer's view.                                   *)

(* A step outside any transaction that leaves the store alone.             *)
LEMMA LockQuiet ==
  ASSUME TInv, LockOK, TransOK, NEW c \in Clients, Only(c), UNCHANGED store,
         pc[c] \notin InTransPcs, pc'[c] \notin InTransPcs
  PROVE  LockOK' /\ TransOK'
<1>1. db' = db /\ wal' = wal /\ lock' = lock
  BY DEF store
<1>2. LockOK'
  <2>1. \A b \in Clients : pc'[b] \in InTransPcs <=> lock' = b
    <3> TAKE b \in Clients
    <3>1. CASE b = c
      BY <1>1, <3>1 DEF LockOK
    <3>2. CASE b # c
      BY <1>1, <3>2 DEF LockOK, Only
    <3>3. QED
      BY <3>1, <3>2
  <2>2. QED
    BY <1>1, <2>1 DEF LockOK
<1>3. TransOK'
  <2> SUFFICES ASSUME NEW b \in Clients, pc'[b] \in InTransPcs
               PROVE  LET k == cfg'[b].id
                          n == job'[b].name
                      IN /\ pc'[b] \in {"check", "write"} => wal' = db'
                         /\ pc'[b] # "check" => /\ db'.res[k][n] # None
                                                /\ db'.res[k][n].etag = job'[b].digest
                         /\ wal'.next = db'.next
                         /\ pc'[b] = "wbump"  => wal'.coln = db'.coln
                         /\ pc'[b] = "commit" => wal'.coln = BumpCtag(db', k).coln
                         /\ \A i \in Ids, m \in Names :
                               i # k \/ m # n => wal'.res[i][m] = db'.res[i][m]
    BY DEF TransOK, BumpCtag
  <2>1. b # c
    OBVIOUS
  <2>2. pc'[b] = pc[b] /\ job'[b] = job[b] /\ cfg'[b] = cfg[b]
    BY <2>1 DEF Only
  <2>3. QED
    BY <1>1, <2>2 DEF TransOK
<1>4. QED
  BY <1>2, <1>3

(* A step that leaves nobody inside a transaction: an autocommit write, a  *)
(* COMMIT or a ROLLBACK.                                                   *)
LEMMA LockFree ==
  ASSUME TInv, LockOK, NEW c \in Clients, Only(c), lock \in {None, c},
         lock' = None, wal' = db', pc'[c] \notin InTransPcs
  PROVE  LockOK' /\ TransOK'
<1>1. \A b \in Clients : pc'[b] \notin InTransPcs
  <2> TAKE b \in Clients
  <2>1. CASE b = c
    BY <2>1
  <2>2. CASE b # c
    BY <2>2, CalStoreAssumption DEF LockOK, Only
  <2>3. QED
    BY <2>1, <2>2
<1>2. QED
  BY <1>1, CalStoreAssumption DEF LockOK, TransOK

(* A step inside c's transaction.                                          *)
LEMMA LockInside ==
  ASSUME TInv, LockOK, NEW c \in Clients, Only(c), lock \in {None, c}, lock' = c,
         pc'[c] \in InTransPcs,
         LET k == cfg'[c].id
             n == job'[c].name
         IN /\ pc'[c] \in {"check", "write"} => wal' = db'
            /\ pc'[c] # "check" => /\ db'.res[k][n] # None
                                   /\ db'.res[k][n].etag = job'[c].digest
            /\ wal'.next = db'.next
            /\ pc'[c] = "wbump"  => wal'.coln = db'.coln
            /\ pc'[c] = "commit" => wal'.coln = BumpCtag(db', k).coln
            /\ \A i \in Ids, m \in Names :
                  i # k \/ m # n => wal'.res[i][m] = db'.res[i][m]
  PROVE  LockOK' /\ TransOK'
<1>1. \A b \in Clients : pc'[b] \in InTransPcs <=> b = c
  <2> TAKE b \in Clients
  <2>1. CASE b = c
    BY <2>1
  <2>2. CASE b # c
    BY <2>2, CalStoreAssumption DEF LockOK, Only
  <2>3. QED
    BY <2>1, <2>2
<1>2. LockOK'
  BY <1>1, CalStoreAssumption DEF LockOK
<1>3. \A b \in Clients : pc'[b] \in InTransPcs => b = c
  BY <1>1
<1>4. TransOK'
  <2> SUFFICES ASSUME NEW b \in Clients, pc'[b] \in InTransPcs
               PROVE  LET k == cfg'[b].id
                          n == job'[b].name
                      IN /\ pc'[b] \in {"check", "write"} => wal' = db'
                         /\ pc'[b] # "check" => /\ db'.res[k][n] # None
                                                /\ db'.res[k][n].etag = job'[b].digest
                         /\ wal'.next = db'.next
                         /\ pc'[b] = "wbump"  => wal'.coln = db'.coln
                         /\ pc'[b] = "commit" => wal'.coln = BumpCtag(db', k).coln
                         /\ \A i \in Ids, m \in Names :
                               i # k \/ m # n => wal'.res[i][m] = db'.res[i][m]
    BY DEF TransOK, BumpCtag
  <2>1. b = c
    BY <1>3
  <2>2. QED
    BY <2>1
<1>5. QED
  BY <1>2, <1>4
-----------------------------------------------------------------------------
(* The rows, and what processes and clients hold of them.                  *)

(* A listing of collection k becomes settled only by a step that raises    *)
(* its ctag: "still settled" is what every other step must keep.           *)
KeepsUnsettled(k) == Settled(k)' => Settled(k)

(* c goes on, or ends, without leaving a collection unbumped behind.       *)
LEMMA SettledLemma ==
  ASSUME TInv, NEW c \in Clients, Only(c), orphans \subseteq orphans',
         NEW k \in Ids,
         Unbumped(c) /\ cfg[c].id = k =>
             k \in orphans' \/ (Unbumped(c)' /\ cfg'[c].id = k)
  PROVE  KeepsUnsettled(k)
<1> SUFFICES ASSUME Settled(k)', ~Settled(k)
             PROVE  FALSE
  BY DEF KeepsUnsettled
<1>1. k \notin orphans' /\ k \notin orphans
  BY DEF Settled
<1>2. PICK b \in Clients : Unbumped(b) /\ cfg[b].id = k
  BY <1>1 DEF Settled
<1>3. ~(Unbumped(b)' /\ cfg'[b].id = k)
  BY DEF Settled
<1>4. b = c
  BY <1>2, <1>3 DEF Only, Unbumped
<1>5. QED
  BY <1>1, <1>2, <1>3, <1>4

(* A step that leaves the database and the listings alone.                 *)
LEMMA DataQuiet ==
  ASSUME TInv, DataOK, NEW c \in Clients, Only(c),
         db' = db, known' = known, \A k \in Ids : KeepsUnsettled(k),
         cfg'[c] = None \/ (cfg'[c] = cfg[c] /\ job'[c] = job[c])
  PROVE  DataOK'
<1>1. \A b \in Clients :
        cfg'[b] = None \/ (cfg'[b] = cfg[b] /\ job'[b] = job[b])
  BY DEF Only
<1>2. RowsOK(db)'
  BY DEF DataOK, RowsOK
<1>3. SnapshotsOK'
  BY <1>1 DEF DataOK, SnapshotsOK, Aged
<1>4. TargetsOK'
  BY <1>1 DEF DataOK, TargetsOK
<1>5. UnchangedCtagMeansUnchanged'
  <2> SUFFICES ASSUME NEW b \in Clients, known[b] # None, known[b].whole,
                      db.coln[known[b].id] # None,
                      db.coln[known[b].id].ctag = known[b].ctag,
                      Settled(known[b].id)'
               PROVE  known[b].list = db.res[known[b].id]
    BY DEF UnchangedCtagMeansUnchanged
  <2>1. known[b].id \in Ids
    BY DEF TInv, RestType, Listing
  <2>2. Settled(known[b].id)
    BY <2>1 DEF KeepsUnsettled
  <2>3. QED
    BY <2>2 DEF DataOK, UnchangedCtagMeansUnchanged
<1>6. QED
  BY <1>2, <1>3, <1>4, <1>5 DEF DataOK

(* A write: every collection is left alone; or its resources change and it *)
(* is not settled afterwards; or its ctag is raised; or it is dropped; or  *)
(* it is new.                                                              *)
Spared(k)  == /\ db'.res[k] = db.res[k] /\ KeepsUnsettled(k)
              /\ db.coln[k] = None <=> db'.coln[k] = None
              /\ db.coln[k] # None => /\ db'.coln[k].ctag = db.coln[k].ctag
                                      /\ db'.coln[k].url  = db.coln[k].url
Touched(k) == /\ db'.coln[k] = db.coln[k] /\ ~Settled(k)'
              /\ db.coln[k] = None => \A n \in Names : db'.res[k][n] = None
Raised(k)  == /\ db.coln[k] # None /\ db'.coln[k] # None
              /\ db'.coln[k].ctag = db.coln[k].ctag + 1
              /\ db'.coln[k].url  = db.coln[k].url
Dropped(k) == db'.coln[k] = None /\ \A n \in Names : db'.res[k][n] = None
Added(k)   == k = db.next /\ k < db'.next /\ db'.coln[k] # None

LEMMA DataWrite ==
  ASSUME TInv, TInv', DataOK, NEW c \in Clients, Only(c), known' = known,
         db'.next \in {db.next, db.next + 1},
         \A k \in Ids : Spared(k) \/ Touched(k) \/ Raised(k) \/ Dropped(k) \/ Added(k),
         cfg'[c] = None \/ (cfg'[c] = cfg[c] /\ job'[c] = job[c])
  PROVE  DataOK'
<1>1. \A b \in Clients :
        cfg'[b] = None \/ (cfg'[b] = cfg[b] /\ job'[b] = job[b])
  BY DEF Only
<1>2. db.next \in Nat /\ db'.next \in Nat /\ db.next <= db'.next
  BY DEF TInv, StoreType, Database
<1>3. \A k \in Ids : k \in Nat
  BY CalStoreAssumption DEF Ids
<1>4. \A k \in Ids : /\ db.coln[k] # None  => db.coln[k].ctag \in Nat
                     /\ db'.coln[k] # None => db'.coln[k].ctag \in Nat
  BY DEF TInv, StoreType, Database, Coln
<1>5. RowsOK(db)'
  <2>1. ASSUME NEW k \in Ids, k >= db'.next
        PROVE  db'.coln[k] = None
    <3>1. k >= db.next
      BY <1>2, <1>3, <2>1
    <3>2. db.coln[k] = None
      BY <3>1 DEF DataOK, RowsOK
    <3>3. ~Added(k)
      BY <1>2, <1>3, <2>1 DEF Added
    <3>4. QED
      BY <3>2, <3>3 DEF Spared, Touched, Raised, Dropped
  <2>2. ASSUME NEW k \in Ids, NEW n \in Names, db'.coln[k] = None
        PROVE  db'.res[k][n] = None
    <3>1. db.coln[k] = None => db.res[k][n] = None
      BY DEF DataOK, RowsOK
    <3>2. QED
      BY <2>2, <3>1 DEF Spared, Touched, Raised, Dropped, Added
  <2>3. QED
    BY <2>1, <2>2 DEF RowsOK
<1>6. ASSUME NEW k \in Ids, NEW t \in Nat, Aged(db, k, t)
      PROVE  Aged(db', k, t)
  <2>1. k < db.next /\ ~Added(k)
    BY <1>2, <1>3, <1>6 DEF Aged, Added
  <2>2. k < db'.next
    BY <1>2, <1>3, <2>1
  <2>3. ASSUME db'.coln[k] # None
        PROVE  db.coln[k] # None /\ db.coln[k].ctag <= db'.coln[k].ctag
    BY <1>4, <2>1, <2>3 DEF Spared, Touched, Raised, Dropped
  <2>4. QED
    BY <1>4, <1>6, <2>2, <2>3 DEF Aged
<1>7. SnapshotsOK'
  <2>1. ASSUME NEW b \in Clients, cfg'[b] # None
        PROVE  Aged(db', cfg'[b].id, cfg'[b].ctag)
    <3>1. cfg'[b] = cfg[b] /\ cfg[b] \in Snapshot
      BY <1>1, <2>1 DEF TInv, ProcType
    <3>2. QED
      BY <1>6, <2>1, <3>1 DEF Snapshot, DataOK, SnapshotsOK
  <2>2. ASSUME NEW b \in Clients, known[b] # None
        PROVE  Aged(db', known[b].id, known[b].ctag)
    <3>1. known[b] \in Listing
      BY <2>2 DEF TInv, RestType
    <3>2. QED
      BY <1>6, <2>2, <3>1 DEF Listing, DataOK, SnapshotsOK
  <2>3. QED
    BY <2>1, <2>2 DEF SnapshotsOK, Aged
<1>8. TargetsOK'
  <2> SUFFICES ASSUME NEW b \in Clients, cfg'[b] # None, db'.coln[cfg'[b].id] # None
               PROVE  \/ job'[b].url = db'.coln[cfg'[b].id].url
                      \/ job'[b].id = cfg'[b].id
    BY DEF TargetsOK
  <2>1. cfg'[b] = cfg[b] /\ job'[b] = job[b] /\ cfg[b] \in Snapshot
    BY <1>1 DEF TInv, ProcType
  <2> DEFINE k == cfg[b].id
  <2>2. k \in Ids /\ k < db.next
    BY <2>1 DEF Snapshot, DataOK, SnapshotsOK, Aged
  <2>3. ~Added(k)
    BY <1>2, <1>3, <2>2 DEF Added
  <2>4. db.coln[k] # None /\ db.coln[k].url = db'.coln[k].url
    BY <2>1, <2>2, <2>3 DEF Spared, Touched, Raised, Dropped
  <2>5. QED
    BY <2>1, <2>4 DEF DataOK, TargetsOK
<1>9. UnchangedCtagMeansUnchanged'
  <2> SUFFICES ASSUME NEW b \in Clients, known[b] # None, known[b].whole,
                      db'.coln[known[b].id] # None,
                      db'.coln[known[b].id].ctag = known[b].ctag,
                      Settled(known[b].id)'
               PROVE  known[b].list = db'.res[known[b].id]
    BY DEF UnchangedCtagMeansUnchanged
  <2> DEFINE k == known[b].id
             t == known[b].ctag
  <2>1. k \in Ids /\ t \in Nat /\ Aged(db, k, t)
    BY DEF TInv, RestType, Listing, DataOK, SnapshotsOK
  <2>2. ~Added(k) /\ ~Touched(k) /\ ~Dropped(k)
    BY <1>2, <1>3, <2>1 DEF Aged, Added, Touched, Dropped
  <2>3. ~Raised(k)
    BY <1>4, <2>1 DEF Aged, Raised
  <2>4. Spared(k)
    BY <2>1, <2>2, <2>3
  <2>5. Settled(k) /\ db.coln[k] # None /\ db.coln[k].ctag = t
    BY <2>4 DEF Spared, KeepsUnsettled
  <2>6. known[b].list = db.res[k]
    BY <2>5 DEF DataOK, UnchangedCtagMeansUnchanged
  <2>7. QED
    BY <2>4, <2>6 DEF Spared
<1>10. QED
  BY <1>5, <1>7, <1>8, <1>9 DEF DataOK
-----------------------------------------------------------------------------
(* Every step keeps the invariant.                                         *)

SInv == TInv /\ LockOK /\ TransOK /\ DataOK

(* A step outside transactions that touches neither the store nor the      *)
(* listings, and does not end between a write and its ctag.                *)
LEMMA Quiet ==
  ASSUME SInv, TInv', NEW c \in Clients, Only(c), UNCHANGED store, known' = known,
         orphans \subseteq orphans', Unbumped(c) => cfg[c].id \in orphans',
         pc[c] \notin InTransPcs, pc'[c] \notin InTransPcs,
         cfg'[c] = None \/ (cfg'[c] = cfg[c] /\ job'[c] = job[c])
  PROVE  SInv'
<1>1. \A k \in Ids : KeepsUnsettled(k)
  BY SettledLemma DEF SInv
<1>2. DataOK'
  BY <1>1, DataQuiet DEF SInv, store
<1>3. QED
  BY <1>2, LockQuiet DEF SInv

(* What Submit does, whatever the request.                                 *)
Begins(c) ==
    /\ UNCHANGED <<db, wal, lock, cfg, known, orphans>> /\ pc[c] = "idle"
    /\ Only(c) /\ pc'[c] \in {"load", "exec"}

LEMMA SubmitBegins ==
  ASSUME TInv, NEW c \in Clients, NEW j, NEW label \in {"load", "exec"},
         Submit(c, j, label)
  PROVE  Begins(c)
  BY DEF Submit, TInv, ProcType, Only, Begins

LEMMA StartSafe ==
  ASSUME SInv, NEW c \in Clients, Start(c)
  PROVE  SInv'
<1>1. TInv /\ TInv'
  BY StartType DEF SInv
<1>2. Begins(c)
  <2>1. StartPut(c) => Begins(c)
    BY <1>1, SubmitBegins DEF StartPut
  <2>2. StartDelete(c) => Begins(c)
    BY <1>1, SubmitBegins DEF StartDelete
  <2>3. StartDelcoln(c) => Begins(c)
    BY <1>1, SubmitBegins DEF StartDelcoln
  <2>4. StartGet(c) => Begins(c)
    BY <1>1, SubmitBegins DEF StartGet
  <2>5. StartPropfind(c) => Begins(c)
    BY <1>1, SubmitBegins DEF StartPropfind
  <2>6. StartProppatch(c) => Begins(c)
    BY <1>1, SubmitBegins DEF StartProppatch
  <2>7. StartNewcoln(c) => Begins(c)
    BY <1>1, SubmitBegins DEF StartNewcoln
  <2>8. StartJsonDelcoln(c) => Begins(c)
    BY <1>1, SubmitBegins DEF StartJsonDelcoln
  <2>9. StartSetcolnprops(c) => Begins(c)
    BY <1>1, SubmitBegins DEF StartSetcolnprops
  <2>10. QED
    BY <2>1, <2>2, <2>3, <2>4, <2>5, <2>6, <2>7, <2>8, <2>9 DEF Start
<1>3. cfg'[c] = None
  BY <1>2 DEF Begins, SInv, TInv, ProcType, JobOK, JobAt
<1>4. QED
  BY <1>1, <1>2, <1>3, Quiet DEF Begins, store, Unbumped, InTransPcs

LEMMA LoadSafe ==
  ASSUME SInv, NEW c \in Clients, load(c)
  PROVE  SInv'
<1>1. TInv'
  BY LoadType DEF SInv
<1>2. pc[c] = "load" /\ UNCHANGED store /\ known' = known /\ orphans' = orphans
  BY DEF load, clients
<1>3. CASE \E status \in Codes : Answer(c, status)
  <2>1. Only(c) /\ pc'[c] = "idle" /\ cfg'[c] = None
    BY <1>3, AnswerOnly DEF SInv
  <2>2. QED
    BY <1>1, <1>2, <2>1, Quiet DEF Unbumped, InTransPcs
<1>4. CASE \E k \in Ids : /\ Found(c, k) /\ db.coln[k] # None
                          /\ job[c].url = db.coln[k].url \/ job[c].id = k
  <2>1. PICK k \in Ids : /\ Found(c, k) /\ db.coln[k] # None
                         /\ job[c].url = db.coln[k].url \/ job[c].id = k
    BY <1>4
  <2>2. /\ Only(c) /\ pc'[c] = "exec" /\ job' = job
        /\ cfg'[c].id = k /\ cfg'[c].ctag = db.coln[k].ctag
    BY <2>1 DEF Found, Only, SInv, TInv, ProcType, SnapshotOf
  <2>3. \A i \in Ids : KeepsUnsettled(i)
    BY <1>2, <2>2, SettledLemma DEF SInv, Unbumped
  <2>4. LockOK' /\ TransOK'
    BY <1>2, <2>2, LockQuiet DEF SInv, InTransPcs
  <2>5. k < db.next /\ db.coln[k].ctag \in Nat
    <3>1. db.coln[k] \in Coln /\ db.next \in Nat
      BY <2>1 DEF SInv, TInv, StoreType, Database
    <3>2. ~(k >= db.next)
      BY <2>1 DEF SInv, DataOK, RowsOK
    <3>3. QED
      BY <3>1, <3>2, CalStoreAssumption DEF Coln, Ids
  <2>6. RowsOK(db)'
    BY <1>2 DEF SInv, DataOK, RowsOK, store
  <2>7. \A b \in Clients : b = c \/ (cfg'[b] = cfg[b] /\ job'[b] = job[b])
    BY <2>2 DEF Only
  <2>8. Aged(db, cfg'[c].id, cfg'[c].ctag)
    BY <2>2, <2>5 DEF Aged
  <2>9. SnapshotsOK'
    BY <1>2, <2>7, <2>8 DEF SInv, DataOK, SnapshotsOK, store, Aged
  <2>10. TargetsOK'
    BY <1>2, <2>1, <2>2, <2>7 DEF SInv, DataOK, TargetsOK, store
  <2>11. UnchangedCtagMeansUnchanged'
    <3> SUFFICES ASSUME NEW b \in Clients, known[b] # None, known[b].whole,
                        db.coln[known[b].id] # None,
                        db.coln[known[b].id].ctag = known[b].ctag,
                        Settled(known[b].id)'
                 PROVE  known[b].list = db.res[known[b].id]
      BY <1>2 DEF UnchangedCtagMeansUnchanged, store
    <3>1. Settled(known[b].id)
      BY <1>2, <2>3 DEF KeepsUnsettled, SInv, TInv, RestType, Listing
    <3>2. QED
      BY <3>1 DEF SInv, DataOK, UnchangedCtagMeansUnchanged
  <2>12. QED
    BY <1>1, <2>4, <2>6, <2>9, <2>10, <2>11 DEF SInv, DataOK
<1>5. QED
  BY <1>3, <1>4 DEF load, ColnAt, Codes

(* A listing, whole or cut short, of the collection loaded earlier.        *)
LEMMA ListSafe ==
  ASSUME SInv, TInv', NEW c \in Clients, At(c, "exec", {"propfind"}),
         UNCHANGED store, orphans' = orphans, Answer(c, 207),
         NEW s \in Listing, known' = [known EXCEPT ![c] = s],
         s.id = cfg[c].id, s.ctag = cfg[c].ctag, s.whole => s.list = db.res[s.id]
  PROVE  SInv'
<1>1. Only(c) /\ pc'[c] = "idle" /\ cfg'[c] = None
  BY AnswerOnly DEF SInv
<1>2. pc[c] = "exec" /\ ~Unbumped(c) /\ db' = db
  BY DEF At, Unbumped, store
<1>3. \A k \in Ids : KeepsUnsettled(k)
  BY <1>1, <1>2, SettledLemma DEF SInv
<1>4. LockOK' /\ TransOK'
  BY <1>1, <1>2, LockQuiet DEF SInv, InTransPcs
<1>5. \A b \in Clients : known'[b] = IF b = c THEN s ELSE known[b]
  BY DEF SInv, TInv, RestType
<1>6. cfg[c] # None
  BY <1>2, JobFacts, CalStoreAssumption DEF SInv, TInv, At
<1>7. RowsOK(db)'
  BY <1>2 DEF SInv, DataOK, RowsOK
<1>8. SnapshotsOK'
  <2>1. Aged(db, s.id, s.ctag)
    BY <1>6 DEF SInv, DataOK, SnapshotsOK
  <2>2. \A b \in Clients : cfg'[b] = None \/ cfg'[b] = cfg[b]
    BY <1>1 DEF Only
  <2>3. QED
    BY <1>2, <1>5, <2>1, <2>2 DEF SInv, DataOK, SnapshotsOK, Aged
<1>9. TargetsOK'
  <2>1. \A b \in Clients :
          cfg'[b] = None \/ (cfg'[b] = cfg[b] /\ job'[b] = job[b])
    BY <1>1 DEF Only
  <2>2. QED
    BY <1>2, <2>1 DEF SInv, DataOK, TargetsOK
<1>10. UnchangedCtagMeansUnchanged'
  <2> SUFFICES ASSUME NEW b \in Clients, known'[b] # None, known'[b].whole,
                      db.coln[known'[b].id] # None,
                      db.coln[known'[b].id].ctag = known'[b].ctag,
                      Settled(known[b].id)' 
               PROVE  known'[b].list = db.res[known'[b].id]
    BY <1>2 DEF UnchangedCtagMeansUnchanged
  <2>1. CASE b = c
    BY <1>5, <2>1
  <2>2. CASE b # c
    <3>1. known'[b] = known[b]
      BY <1>5, <2>2
    <3>2. known[b].id \in Ids
      BY <3>1 DEF SInv, TInv, RestType, Listing
    <3>3. Settled(known[b].id)
      BY <1>3, <3>1, <3>2 DEF KeepsUnsettled
    <3>4. QED
      BY <3>1, <3>3 DEF SInv, DataOK, UnchangedCtagMeansUnchanged
  <2>3. QED
    BY <2>1, <2>2
<1>11. QED
  BY <1>4, <1>7, <1>8, <1>9, <1>10 DEF SInv, DataOK

LEMMA ReadSafe ==
  ASSUME SInv, NEW c \in Clients,
         method_get(c) \/ method_propfind(c) \/ prop_reply(c)
  PROVE  SInv'
<1>1. TInv'
  BY ServeType DEF SInv, Serve
<1>2. CASE method_get(c)
  <2>1. \E status \in Codes : Answer(c, status)
    <3>1. Answer(c, 404) \/ Answer(c, 304) \/ Answer(c, 200)
      BY <1>2 DEF method_get
    <3>2. 404 \in Codes /\ 304 \in Codes /\ 200 \in Codes
      BY DEF Codes
    <3>3. QED
      BY <3>1, <3>2
  <2>2. Only(c) /\ pc'[c] = "idle" /\ cfg'[c] = None
    BY <2>1, AnswerOnly DEF SInv
  <2>3. QED
    BY <1>1, <1>2, <2>2, Quiet DEF method_get, At, Unbumped, InTransPcs
<1>3. CASE method_propfind(c)
  <2> DEFINE s == [id |-> cfg[c].id, ctag |-> cfg[c].ctag, whole |-> TRUE,
                   list |-> db.res[cfg[c].id]]
  <2>1. known' = [known EXCEPT ![c] = s]
    BY <1>3 DEF method_propfind
  <2>2. s = known'[c] /\ s \in Listing
    <3> HIDE DEF s
    <3>1. s = known'[c]
      BY <2>1 DEF SInv, TInv, RestType
    <3>2. cfg[c].id \in Ids /\ cfg[c] \in Snapshot
      BY <1>3, JobFacts DEF SInv, TInv, method_propfind, At
    <3>3. s \in Listing
      BY <3>2 DEF s, Snapshot, Listing, SInv, TInv, StoreType, Database
    <3>4. QED
      BY <3>1, <3>3
  <2>3. s.id = cfg[c].id /\ s.ctag = cfg[c].ctag /\ s.list = db.res[s.id]
    OBVIOUS
  <2> HIDE DEF s
  <2>4. QED
    BY <1>1, <1>3, <2>1, <2>2, <2>3, ListSafe DEF method_propfind
<1>4. CASE prop_reply(c)
  <2>1. /\ Only(c) /\ pc'[c] \in {"idle", "update"}
        /\ cfg'[c] = None \/ (cfg'[c] = cfg[c] /\ job'[c] = job[c])
    <3>1. CASE Answer(c, 207)
      BY <3>1, AnswerOnly DEF SInv
    <3>2. CASE pc' = [pc EXCEPT ![c] = "update"] /\ UNCHANGED <<job, cfg>>
      BY <3>2 DEF Only, SInv, TInv, ProcType
    <3>3. QED
      BY <1>4, <3>1, <3>2 DEF prop_reply
  <2>2. QED
    BY <1>1, <1>4, <2>1, Quiet DEF prop_reply, At, Unbumped, InTransPcs, clients
<1>5. QED
  BY <1>2, <1>3, <1>4

(* An autocommit write.                                                    *)
LEMMA Write ==
  ASSUME SInv, TInv', NEW c \in Clients, Only(c), NEW d, Autocommit(d), known' = known,
         pc[c] \notin InTransPcs, pc'[c] \notin InTransPcs,
         d.next \in {db.next, db.next + 1},
         \A k \in Ids : Spared(k) \/ Touched(k) \/ Raised(k) \/ Dropped(k) \/ Added(k),
         cfg'[c] = None \/ (cfg'[c] = cfg[c] /\ job'[c] = job[c])
  PROVE  SInv'
<1>1. lock = None /\ lock' = None /\ wal' = db' /\ db' = d
  BY DEF Autocommit
<1>2. LockOK' /\ TransOK'
  BY <1>1, LockFree DEF SInv
<1>3. DataOK'
  BY <1>1, DataWrite DEF SInv
<1>4. QED
  BY <1>2, <1>3 DEF SInv

(* The resource of a PUT or DELETE without condition changes, and the      *)
(* process goes on to the ctag.                                            *)
LEMMA ContentSafe ==
  ASSUME SInv, NEW c \in Clients, db_resource_new(c) \/ db_resource_remove(c)
  PROVE  SInv'
<1> DEFINE k == cfg[c].id
           j == job[c]
<1>1. TInv'
  BY ServeType DEF SInv, Serve
<1>2. /\ pc[c] = "exec" /\ j.method \in {"put", "delete"}
      /\ known' = known /\ orphans' = orphans
  BY DEF db_resource_new, db_resource_remove, At, clients
<1>3. k \in Ids /\ j.name \in Names /\ j.etag \in Nat /\ j.body \in Nat
  BY <1>2, JobFacts DEF SInv, TInv
<1>4. CASE Answer(c, 403) /\ UNCHANGED store
  <2>1. Only(c) /\ pc'[c] = "idle" /\ cfg'[c] = None
    BY <1>4, AnswerOnly DEF SInv
  <2>2. QED
    BY <1>1, <1>2, <1>4, <2>1, Quiet DEF Unbumped, InTransPcs
<1>5. ASSUME NEW d \in Database, Autocommit(d), Goto(c, "bump"),
             d.coln = db.coln, d.next = db.next,
             \A i \in Ids : i # k => d.res[i] = db.res[i],
             db.coln[k] = None => \A n \in Names : d.res[k][n] = None
      PROVE  SInv'
  <2>1. Only(c) /\ pc'[c] = "bump" /\ job' = job /\ cfg' = cfg /\ db' = d
    BY <1>5, GotoOnly DEF SInv, Autocommit
  <2>2. Unbumped(c)' /\ cfg'[c].id = k
    BY <1>2, <2>1 DEF Unbumped
  <2>3. \A i \in Ids : KeepsUnsettled(i)
    BY <1>2, <2>1, SettledLemma DEF SInv, Unbumped
  <2>4. ~Settled(k)'
    BY <2>2 DEF Settled
  <2>5. Touched(k)
    BY <1>5, <2>1, <2>4 DEF Touched
  <2>6. \A i \in Ids : i # k => Spared(i)
    BY <1>5, <2>1, <2>3 DEF Spared
  <2>7. QED
    BY <1>1, <1>2, <1>3, <1>5, <2>1, <2>5, <2>6, Write DEF InTransPcs
<1>6. CASE /\ db_resource_new(c) /\ ~InsertViolates(db, k, j.name)
           /\ Autocommit(InsertRes(db, k, j.name, j.etag, j.body)) /\ Goto(c, "bump")
  <2> DEFINE d == InsertRes(db, k, j.name, j.etag, j.body)
  <2>1. /\ d \in Database /\ d.coln = db.coln /\ d.next = db.next
        /\ \A i \in Ids : i # k => d.res[i] = db.res[i]
    BY <1>3 DEF InsertRes, Database, Res, SInv, TInv, StoreType
  <2>2. db.coln[k] # None
    BY <1>6 DEF InsertViolates
  <2> HIDE DEF d
  <2>3. QED
    BY <1>5, <1>6, <2>1, <2>2 DEF d
<1>7. CASE db_resource_remove(c)
  <2> DEFINE d == DropRes(db, k, j.name)
  <2>1. /\ d \in Database /\ d.coln = db.coln /\ d.next = db.next
        /\ d.res[k][j.name] = None
        /\ \A n \in Names : n # j.name => d.res[k][n] = db.res[k][n]
        /\ \A i \in Ids : i # k => d.res[i] = db.res[i]
    <3>1. db \in Database
      BY DEF SInv, TInv, StoreType
    <3>2. RowGone(d, db, k, j.name)
      BY <1>3, <3>1, DropResGone
    <3> HIDE DEF d
    <3>3. QED
      BY <3>2, Zenon DEF RowGone
  <2>2. Autocommit(d) /\ Goto(c, "bump")
    BY <1>7 DEF db_resource_remove
  <2> HIDE DEF d
  <2>3. db.coln[k] = None => \A n \in Names : d.res[k][n] = None
    BY <1>3, <2>1 DEF SInv, DataOK, RowsOK
  <2>4. QED
    BY <1>5, <2>1, <2>2, <2>3
<1>8. db_resource_new(c) =>
        \/ Answer(c, 403) /\ UNCHANGED store
        \/ /\ ~InsertViolates(db, k, j.name)
           /\ Autocommit(InsertRes(db, k, j.name, j.etag, j.body)) /\ Goto(c, "bump")
  BY DEF db_resource_new
<1>9. QED
  BY <1>4, <1>6, <1>7, <1>8

(* The ctag, the properties, and the collection itself.                    *)
LEMMA CollectionSafe ==
  ASSUME SInv, NEW c \in Clients,
         \/ db_collection_update_ctag(c) \/ db_collection_update(c)
         \/ db_collection_remove(c) \/ db_collection_new(c)
  PROVE  SInv'
<1> DEFINE k == cfg[c].id
           j == job[c]
<1>1. TInv'
  BY ServeType DEF SInv, Serve
<1>2. known' = known /\ orphans' = orphans /\ pc[c] \in {"exec", "update", "bump"}
  BY DEF db_collection_update_ctag, db_collection_update, db_collection_remove,
         db_collection_new, At, clients
<1>3. CASE db_collection_update_ctag(c)
  <2>1. Only(c) /\ pc'[c] = "idle" /\ cfg'[c] = None
    BY <1>3, AnswerOnly DEF SInv, db_collection_update_ctag
  <2>2. k \in Ids
    BY <1>3, JobFacts DEF SInv, TInv, db_collection_update_ctag, ProcType, JobOK, JobAt
  <2> DEFINE d == BumpCtag(db, k)
  <2>3. /\ d.res = db.res /\ d.next = db.next
        /\ \A i \in Ids : d.coln[i] = None <=> db.coln[i] = None
        /\ \A i \in Ids : i # k => d.coln[i] = db.coln[i]
        /\ db.coln[k] # None => /\ d.coln[k].ctag = db.coln[k].ctag + 1
                                /\ d.coln[k].url  = db.coln[k].url
    BY <2>2, BumpCtagLemma DEF SInv, TInv, StoreType
  <2>4. Autocommit(d)
    BY <1>3 DEF db_collection_update_ctag
  <2> HIDE DEF d
  <2>5. db' = d
    BY <2>4 DEF Autocommit
  <2>6. \A i \in Ids : i # k => KeepsUnsettled(i)
    BY <1>2, <2>1, SettledLemma DEF SInv
  <2>7. \A i \in Ids : i # k => Spared(i)
    BY <2>3, <2>5, <2>6 DEF Spared
  <2>8. CASE db.coln[k] # None
    BY <1>1, <1>2, <2>1, <2>2, <2>3, <2>4, <2>5, <2>7, <2>8, Write
    DEF Raised, InTransPcs
  <2>9. CASE db.coln[k] = None
    <3>1. \A n \in Names : db.res[k][n] = None
      BY <2>2, <2>9 DEF SInv, DataOK, RowsOK
    <3>2. Dropped(k)
      BY <2>2, <2>3, <2>5, <2>9, <3>1 DEF Dropped
    <3>3. QED
      BY <1>1, <1>2, <2>1, <2>3, <2>4, <2>7, <3>2, Write DEF InTransPcs
  <2>10. QED
    BY <2>8, <2>9
<1>4. CASE db_collection_update(c)
  <2>1. Only(c) /\ pc'[c] = "bump" /\ job' = job /\ cfg' = cfg
    BY <1>4, GotoOnly DEF SInv, db_collection_update
  <2>2. k \in Ids /\ Merged(c) \in Props
    BY <1>4, JobFacts, MergedType DEF SInv, TInv, db_collection_update, At
  <2> DEFINE d == SetProps(db, k, Merged(c))
  <2>3. /\ d.res = db.res /\ d.next = db.next
        /\ \A i \in Ids : d.coln[i] = None <=> db.coln[i] = None
        /\ \A i \in Ids : i # k => d.coln[i] = db.coln[i]
        /\ db.coln[k] # None => /\ d.coln[k].ctag = db.coln[k].ctag
                                /\ d.coln[k].url  = db.coln[k].url
    <3>1. db \in Database
      BY DEF SInv, TInv, StoreType
    <3>2. QED
      BY <2>2, <3>1, SetPropsLemma
  <2>4. Autocommit(d)
    BY <1>4 DEF db_collection_update
  <2> HIDE DEF d
  <2>5. db' = d
    BY <2>4 DEF Autocommit
  <2>6. \A i \in Ids : KeepsUnsettled(i)
    BY <1>2, <1>4, <2>1, SettledLemma DEF SInv, Unbumped, db_collection_update, At
  <2>7. \A i \in Ids : Spared(i)
    BY <2>3, <2>5, <2>6 DEF Spared
  <2>8. QED
    BY <1>1, <1>2, <1>4, <2>1, <2>3, <2>4, <2>7, Write
    DEF InTransPcs, db_collection_update, At
<1>5. CASE db_collection_remove(c)
  <2>1. Only(c) /\ pc'[c] = "idle" /\ cfg'[c] = None
    BY <1>5, AnswerOnly DEF SInv, db_collection_remove
  <2>2. k \in Ids
    BY <1>5, JobFacts DEF SInv, TInv, db_collection_remove, At
  <2> DEFINE d == DropColn(db, k)
  <2>3. /\ d.next = db.next /\ d.coln[k] = None /\ \A n \in Names : d.res[k][n] = None
        /\ \A i \in Ids : i # k => d.coln[i] = db.coln[i] /\ d.res[i] = db.res[i]
    BY <2>2, DropColnLemma DEF SInv, TInv, StoreType
  <2>4. Autocommit(d)
    BY <1>5 DEF db_collection_remove
  <2> HIDE DEF d
  <2>5. db' = d
    BY <2>4 DEF Autocommit
  <2>6. \A i \in Ids : KeepsUnsettled(i)
    BY <1>2, <1>5, <2>1, SettledLemma DEF SInv, Unbumped, db_collection_remove, At
  <2>7. Dropped(k) /\ \A i \in Ids : i # k => Spared(i)
    BY <2>3, <2>5, <2>6 DEF Spared, Dropped
  <2>8. QED
    BY <1>1, <1>2, <1>5, <2>1, <2>3, <2>4, <2>7, Write
    DEF InTransPcs, db_collection_remove, At
<1>6. CASE db_collection_new(c)
  <2>1. Only(c) /\ pc'[c] = "idle" /\ cfg'[c] = None /\ pc[c] = "exec" /\ ~Unbumped(c)
    BY <1>6, AnswerOnly DEF SInv, db_collection_new, At, Unbumped
  <2>2. CASE UNCHANGED store
    BY <1>1, <1>2, <2>1, <2>2, Quiet DEF InTransPcs
  <2>3. CASE db.next <= MaxColn /\ Autocommit(NewColn(db, j.url))
    <3>1. j.url \in Urls
      BY <1>6 DEF db_collection_new, At, SInv, TInv, ProcType, JobOK, JobAt, IdMethods
    <3>2. db.next \in Ids /\ db.next < db.next + 1
      BY <2>3, CalStoreAssumption DEF SInv, TInv, StoreType, Database, Ids
    <3> DEFINE d == NewColn(db, j.url)
    <3>3. /\ d.res = db.res /\ d.next = db.next + 1 /\ d.coln[db.next] # None
          /\ \A i \in Ids : i # db.next => d.coln[i] = db.coln[i]
      BY <3>1, <3>2, NewColnLemma DEF SInv, TInv, StoreType
    <3>4. Autocommit(d)
      BY <2>3
    <3> HIDE DEF d
    <3>5. db' = d
      BY <3>4 DEF Autocommit
    <3>6. \A i \in Ids : KeepsUnsettled(i)
      BY <1>2, <2>1, SettledLemma DEF SInv
    <3>7. Added(db.next) /\ \A i \in Ids : i # db.next => Spared(i)
      BY <3>2, <3>3, <3>5, <3>6 DEF Spared, Added
    <3>8. QED
      BY <1>1, <1>2, <2>1, <3>3, <3>4, <3>7, Write DEF InTransPcs
  <2>4. QED
    BY <1>6, <2>2, <2>3 DEF db_collection_new
<1>7. QED
  BY <1>3, <1>4, <1>5, <1>6

(* The transaction of a conditional PUT or DELETE up to its COMMIT: only   *)
(* the writer's view changes.                                              *)
LEMMA TransSafe ==
  ASSUME SInv, NEW c \in Clients,
         trans_open(c) \/ trans_check(c) \/ trans_write(c) \/ trans_update_ctag(c)
  PROVE  SInv'
<1> DEFINE k == cfg[c].id
           j == job[c]
<1>1. TInv'
  BY ServeType DEF SInv, Serve
<1>2. /\ db' = db /\ known' = known /\ orphans' = orphans
      /\ pc[c] \in {"exec", "check", "write", "wbump"}
      /\ lock \in {None, c} /\ ~Unbumped(c)
  BY DEF trans_open, trans_check, trans_write, trans_update_ctag, At, Unbumped, InTrans,
         db_trans_open, db_trans_rollback, TransWrite, clients, store
<1>3. ASSUME Only(c), cfg'[c] = None \/ (cfg'[c] = cfg[c] /\ job'[c] = job[c])
      PROVE  DataOK'
  <2>1. \A i \in Ids : KeepsUnsettled(i)
    BY <1>2, <1>3, SettledLemma DEF SInv
  <2>2. QED
    BY <1>2, <1>3, <2>1, DataQuiet DEF SInv
<1>4. j.method # "json_newcoln" /\ k \in Ids /\ j.name \in Names
  <2>1. pc[c] \notin {"idle", "load"} /\ j.method \in {"put", "delete"}
    BY <1>2 DEF trans_open, trans_check, trans_write, trans_update_ctag, At, SInv, TInv,
                ProcType, JobOK, JobAt, InTransPcs
  <2>2. QED
    BY <2>1, JobFacts DEF SInv, TInv
<1>5. CASE trans_open(c)
  <2>1. Only(c) /\ pc'[c] = "check" /\ job' = job /\ cfg' = cfg
    BY <1>5, GotoOnly DEF SInv, trans_open
  <2>2. lock = None /\ lock' = c /\ wal' = db'
    BY <1>5 DEF trans_open, db_trans_open, SInv, LockOK
  <2>3. LockOK' /\ TransOK'
    BY <2>1, <2>2, LockInside DEF SInv, InTransPcs
  <2>4. QED
    BY <1>1, <1>3, <2>1, <2>3 DEF SInv
<1>6. CASE trans_check(c)
  <2>1. lock = c /\ wal = db
    BY <1>6 DEF trans_check, InTrans, SInv, TransOK, InTransPcs
  <2>2. CASE Matches(c) /\ Goto(c, "write") /\ UNCHANGED store
    <3>1. Only(c) /\ pc'[c] = "write" /\ job' = job /\ cfg' = cfg
      BY <2>2, GotoOnly DEF SInv
    <3>2. lock' = c /\ wal' = db' /\ db' = db
      BY <2>1, <2>2 DEF store
    <3>3. db.res[k][j.name] # None /\ db.res[k][j.name].etag = j.digest
      BY <2>1, <2>2 DEF Matches, RowIn
    <3>4. LockOK' /\ TransOK'
      BY <2>1, <3>1, <3>2, <3>3, LockInside DEF SInv, InTransPcs
    <3>5. QED
      BY <1>1, <1>3, <3>1, <3>4 DEF SInv
  <2>3. CASE db_trans_rollback /\ \E status \in Codes : Answer(c, status)
    <3>1. Only(c) /\ pc'[c] = "idle" /\ cfg'[c] = None
      BY <2>3, AnswerOnly DEF SInv
    <3>2. LockOK' /\ TransOK'
      BY <2>1, <2>3, <3>1, LockFree DEF SInv, InTransPcs, db_trans_rollback
    <3>3. QED
      BY <1>1, <1>3, <3>1, <3>2 DEF SInv
  <2>4. QED
    BY <1>6, <2>2, <2>3 DEF trans_check, Codes
<1>7. CASE trans_write(c)
  <2>1. Only(c) /\ pc'[c] = "wbump" /\ job' = job /\ cfg' = cfg
    BY <1>7, GotoOnly DEF SInv, trans_write
  <2>2. /\ lock = c /\ lock' = c /\ wal = db
        /\ db.res[k][j.name] # None /\ db.res[k][j.name].etag = j.digest
    BY <1>7 DEF trans_write, InTrans, TransWrite, SInv, TransOK, InTransPcs
  <2>3. j.etag \in Nat /\ j.body \in Nat /\ db \in Database
    BY <1>4, <1>7, JobFacts DEF trans_write, SInv, TInv, StoreType
  <2>4. /\ wal'.coln = db.coln /\ wal'.next = db.next
        /\ \A i \in Ids, m \in Names :
              i # k \/ m # j.name => wal'.res[i][m] = db.res[i][m]
    <3>1. wal' = UpdateRes(db, k, j.name, j.etag, j.body) \/ wal' = DropRes(db, k, j.name)
      BY <1>7, <2>2 DEF trans_write, TransWrite
    <3>2. UpdateRes(db, k, j.name, j.etag, j.body)
            = InsertRes(db, k, j.name, j.etag, j.body)
      BY <2>2 DEF UpdateRes
    <3>3. CASE wal' = InsertRes(db, k, j.name, j.etag, j.body)
      BY <1>4, <2>3, <3>3 DEF InsertRes, Database, Res
    <3>4. CASE wal' = DropRes(db, k, j.name)
      BY <1>4, <2>3, <3>4 DEF DropRes, Database
    <3>5. QED
      BY <3>1, <3>2, <3>3, <3>4
  <2>5. LockOK' /\ TransOK'
    BY <1>2, <2>1, <2>2, <2>4, LockInside DEF SInv, InTransPcs
  <2>6. QED
    BY <1>1, <1>3, <2>1, <2>5 DEF SInv
<1>8. CASE trans_update_ctag(c)
  <2>1. Only(c) /\ pc'[c] = "commit" /\ job' = job /\ cfg' = cfg
    BY <1>8, GotoOnly DEF SInv, trans_update_ctag
  <2>2. /\ lock = c /\ lock' = c /\ wal.coln = db.coln /\ wal.next = db.next
        /\ db.res[k][j.name] # None /\ db.res[k][j.name].etag = j.digest
        /\ \A i \in Ids, m \in Names :
              i # k \/ m # j.name => wal.res[i][m] = db.res[i][m]
    BY <1>8 DEF trans_update_ctag, InTrans, TransWrite, SInv, TransOK, InTransPcs
  <2>3. wal' = BumpCtag(wal, k) /\ wal \in Database /\ db \in Database
    BY <1>8 DEF trans_update_ctag, TransWrite, SInv, TInv, StoreType
  <2>4. wal'.res = wal.res /\ wal'.next = wal.next
    BY <1>4, <2>3, BumpCtagLemma
  <2>5. wal'.coln = BumpCtag(db, k).coln
    <3>1. CASE db.coln[k] = None
      BY <2>2, <2>3, <3>1 DEF BumpCtag
    <3>2. CASE db.coln[k] # None
      <4>1. wal'.coln = [wal.coln EXCEPT ![k].ctag = @ + 1]
        BY <2>2, <2>3, <3>2 DEF BumpCtag, Database
      <4>2. BumpCtag(db, k).coln = [db.coln EXCEPT ![k].ctag = @ + 1]
        BY <2>3, <3>2 DEF BumpCtag, Database
      <4>3. QED
        BY <2>2, <4>1, <4>2
    <3>3. QED
      BY <3>1, <3>2
  <2>6. LockOK' /\ TransOK'
    BY <1>2, <2>1, <2>2, <2>4, <2>5, LockInside DEF SInv, InTransPcs
  <2>7. QED
    BY <1>1, <1>3, <2>1, <2>6 DEF SInv
<1>9. QED
  BY <1>5, <1>6, <1>7, <1>8

(* COMMIT: the resource and the ctag of its collection change together.    *)
LEMMA CommitSafe ==
  ASSUME SInv, NEW c \in Clients, trans_commit(c)
  PROVE  SInv'
<1> DEFINE k == cfg[c].id
           n == job[c].name
<1>1. TInv'
  BY ServeType DEF SInv, Serve
<1>2. Only(c) /\ pc'[c] = "idle" /\ cfg'[c] = None
  BY AnswerOnly DEF SInv, trans_commit
<1>3. /\ pc[c] = "commit" /\ lock = c /\ known' = known /\ orphans' = orphans
      /\ db' = wal /\ wal' = db' /\ lock' = None
  BY DEF trans_commit, InTrans, db_trans_commit, clients
<1>4. /\ wal.coln = BumpCtag(db, k).coln /\ wal.next = db.next
      /\ db.res[k][n] # None
      /\ \A i \in Ids, m \in Names : i # k \/ m # n => wal.res[i][m] = db.res[i][m]
  BY <1>3 DEF SInv, TransOK, InTransPcs
<1>5. k \in Ids /\ n \in Names
  BY <1>3, JobFacts DEF SInv, TInv, ProcType, JobOK, JobAt, InTransPcs
<1>6. db.coln[k] # None
  BY <1>4, <1>5 DEF SInv, DataOK, RowsOK
<1>7. /\ wal.coln[k] # None
      /\ wal.coln[k].ctag = db.coln[k].ctag + 1 /\ wal.coln[k].url = db.coln[k].url
      /\ \A i \in Ids : i # k => wal.coln[i] = db.coln[i]
  BY <1>4, <1>5, <1>6, BumpCtagLemma DEF SInv, TInv, StoreType
<1>8. \A i \in Ids : i # k => wal.res[i] = db.res[i]
  <2> SUFFICES ASSUME NEW i \in Ids, i # k
               PROVE  wal.res[i] = db.res[i]
    OBVIOUS
  <2>1. /\ wal.res[i] \in [Names -> Res \cup {None}]
        /\ db.res[i] \in [Names -> Res \cup {None}]
    BY DEF SInv, TInv, StoreType, Database
  <2>2. QED
    BY <1>4, <2>1
<1>9. \A i \in Ids : KeepsUnsettled(i)
  BY <1>2, <1>3, SettledLemma DEF SInv, Unbumped
<1>10. Raised(k) /\ \A i \in Ids : i # k => Spared(i)
  BY <1>3, <1>6, <1>7, <1>8, <1>9 DEF Raised, Spared
<1>11. DataOK'
  BY <1>1, <1>2, <1>3, <1>4, <1>5, <1>10, DataWrite DEF SInv
<1>12. LockOK' /\ TransOK'
  BY <1>2, <1>3, LockFree DEF SInv, InTransPcs
<1>13. QED
  BY <1>1, <1>11, <1>12 DEF SInv

(* A process that dies or fails: its transaction is rolled back, and what  *)
(* it left unbumped is recorded.                                           *)
LEMMA BreakSafe ==
  ASSUME SInv, NEW c \in Clients, Break(c)
  PROVE  SInv'
<1>1. TInv'
  BY BreakType DEF SInv
<1>2. CASE Crash(c) \/ StatementFails(c) \/ CommitFails(c)
  <2>1. Only(c) /\ pc'[c] = "idle" /\ cfg'[c] = None
    BY <1>2, AnswerOnly DEF SInv, Crash, StatementFails, CommitFails
  <2>2. /\ Abandon(c) /\ known' = known /\ orphans \subseteq orphans'
        /\ Unbumped(c) => cfg[c].id \in orphans'
    BY <1>2 DEF Crash, StatementFails, CommitFails, Orphan, Unbumped, clients
  <2>3. CASE InTrans(c)
    <3>1. lock = c /\ lock' = None /\ wal' = db' /\ db' = db
      BY <2>2, <2>3 DEF Abandon, InTrans, db_trans_rollback
    <3>2. LockOK' /\ TransOK'
      BY <2>1, <3>1, LockFree DEF SInv, InTransPcs
    <3>3. \A i \in Ids : KeepsUnsettled(i)
      BY <2>1, <2>2, SettledLemma DEF SInv
    <3>4. DataOK'
      BY <2>1, <2>2, <3>1, <3>3, DataQuiet DEF SInv
    <3>5. QED
      BY <1>1, <3>2, <3>4 DEF SInv
  <2>4. CASE ~InTrans(c)
    <3>1. UNCHANGED store /\ pc[c] \notin InTransPcs
      BY <2>2, <2>4 DEF Abandon, InTrans, SInv, LockOK
    <3>2. QED
      BY <1>1, <2>1, <2>2, <3>1, Quiet DEF InTransPcs
  <2>5. QED
    BY <2>3, <2>4
<1>3. CASE ListingFails(c)
  <2>1. PICK ns \in SUBSET Names :
          known' = [known EXCEPT ![c] =
                    [id |-> cfg[c].id, ctag |-> cfg[c].ctag, whole |-> FALSE,
                     list |-> [n \in Names |-> IF n \in ns
                                   THEN db.res[cfg[c].id][n] ELSE None]]]
    BY <1>3 DEF ListingFails
  <2> DEFINE l == [n \in Names |-> IF n \in ns THEN db.res[cfg[c].id][n] ELSE None]
             s == [id |-> cfg[c].id, ctag |-> cfg[c].ctag, whole |-> FALSE, list |-> l]
  <2>2. cfg[c] \in Snapshot /\ cfg[c].id \in Ids
    BY <1>3, JobFacts DEF SInv, TInv, ListingFails, At
  <2>3. l \in [Names -> Res \cup {None}]
    BY <2>2 DEF SInv, TInv, StoreType, Database
  <2>4. known' = [known EXCEPT ![c] = s]
    BY <2>1
  <2> HIDE DEF l
  <2>5. s \in Listing /\ s.id = cfg[c].id /\ s.ctag = cfg[c].ctag /\ ~s.whole
    BY <2>2, <2>3 DEF Snapshot, Listing
  <2> HIDE DEF s
  <2>6. QED
    BY <1>1, <1>3, <2>4, <2>5, ListSafe DEF ListingFails
<1>4. QED
  BY <1>2, <1>3 DEF Break

LEMMA InitSafe ==
  ASSUME Init
  PROVE  SInv
<1>1. TInv
  BY InitType
<1>2. NoColns \in Database /\ NoColns.next = 1
  BY DEF NoColns, Database
<1>3. PICK u \in Urls : db = NewColn(NoColns, u)
  BY DEF Init
<1>4. 1 \in Ids
  BY CalStoreAssumption DEF Ids
<1>5. /\ db.res = NoColns.res /\ db.next = 2
      /\ \A i \in Ids : i # 1 => db.coln[i] = NoColns.coln[i]
  BY <1>2, <1>3, <1>4, NewColnLemma
<1>6. \A k \in Ids : k # 1 => db.coln[k] = None
  BY <1>5 DEF NoColns
<1>7. \A k \in Ids, n \in Names : db.res[k][n] = None
  BY <1>5 DEF NoColns
<1>8. RowsOK(db)
  BY <1>5, <1>6, <1>7 DEF RowsOK
<1>9. SnapshotsOK /\ TargetsOK /\ UnchangedCtagMeansUnchanged
  BY DEF Init, SnapshotsOK, TargetsOK, UnchangedCtagMeansUnchanged
<1>10. LockOK /\ TransOK
  BY CalStoreAssumption DEF Init, LockOK, TransOK, InTransPcs
<1>11. QED
  BY <1>1, <1>8, <1>9, <1>10 DEF SInv, DataOK

LEMMA StutterSafe ==
  ASSUME SInv, UNCHANGED vars
  PROVE  SInv'
<1>1. TInv'
  BY StutterType DEF SInv
<1>2. LockOK' /\ RowsOK(db)' /\ SnapshotsOK' /\ TargetsOK'
  BY DEF SInv, DataOK, LockOK, RowsOK, SnapshotsOK, Aged, TargetsOK, vars
<1>3. TransOK'
  <2>1. pc' = pc /\ job' = job /\ cfg' = cfg /\ db' = db /\ wal' = wal
    BY DEF store, clients, vars
  <2>2. TransOK
    BY DEF SInv
  <2>3. SUFFICES ASSUME NEW b \in Clients, pc'[b] \in InTransPcs
                 PROVE  LET k == cfg'[b].id
                            n == job'[b].name
                        IN /\ pc'[b] \in {"check", "write"} => wal' = db'
                           /\ pc'[b] # "check" => /\ db'.res[k][n] # None
                                                  /\ db'.res[k][n].etag = job'[b].digest
                           /\ wal'.next = db'.next
                           /\ pc'[b] = "wbump"  => wal'.coln = db'.coln
                           /\ pc'[b] = "commit" => wal'.coln = BumpCtag(db', k).coln
                           /\ \A i \in Ids, m \in Names :
                                 i # k \/ m # n => wal'.res[i][m] = db'.res[i][m]
    BY DEF TransOK, BumpCtag
  <2>4. /\ pc'[b] = pc[b] /\ job'[b] = job[b] /\ cfg'[b] = cfg[b]
        /\ db' = db /\ wal' = wal
    BY <2>1
  <2>5. QED
    BY <2>2, <2>3, <2>4 DEF TransOK
<1>4. UnchangedCtagMeansUnchanged'
  BY DEF SInv, DataOK, UnchangedCtagMeansUnchanged, Settled, Unbumped, vars
<1>5. QED
  BY <1>1, <1>2, <1>3, <1>4 DEF SInv, DataOK

LEMMA NextSafe ==
  ASSUME SInv, [Next]_vars
  PROVE  SInv'
<1>1. ASSUME NEW c \in Clients, Serve(c)
      PROVE  SInv'
  BY <1>1, LoadSafe, ContentSafe, TransSafe, CommitSafe, CollectionSafe, ReadSafe
  DEF Serve
<1>2. QED
  BY <1>1, StartSafe, BreakSafe, StutterSafe DEF Next

-----------------------------------------------------------------------------
(* What a transaction has written stays as it is until its COMMIT.         *)

(* A step is one process's.                                                *)
LEMMA StepOnly ==
  ASSUME TInv, NEW c \in Clients, Start(c) \/ Serve(c) \/ Break(c)
  PROVE  Only(c)
<1>1. CASE Start(c)
  BY <1>1, SubmitBegins
     DEF Start, Begins, StartPut, StartDelete, StartDelcoln, StartGet, StartPropfind,
         StartProppatch, StartNewcoln, StartJsonDelcoln, StartSetcolnprops
<1>2. CASE Serve(c)
  <2>1. CASE load(c)
    BY <2>1, AnswerOnly, GotoOnly DEF load, Found, TInv, ProcType, Only
  <2>2. CASE db_resource_new(c)
    BY <2>2, AnswerOnly, GotoOnly DEF db_resource_new, TInv, ProcType, Only
  <2>3. CASE db_resource_remove(c)
    BY <2>3, AnswerOnly, GotoOnly DEF db_resource_remove, TInv, ProcType, Only
  <2>4. CASE trans_open(c)
    BY <2>4, AnswerOnly, GotoOnly DEF trans_open, TInv, ProcType, Only
  <2>5. CASE trans_check(c)
    BY <2>5, AnswerOnly, GotoOnly DEF trans_check, TInv, ProcType, Only
  <2>6. CASE trans_write(c)
    BY <2>6, AnswerOnly, GotoOnly DEF trans_write, TInv, ProcType, Only
  <2>7. CASE trans_update_ctag(c)
    BY <2>7, AnswerOnly, GotoOnly DEF trans_update_ctag, TInv, ProcType, Only
  <2>8. CASE trans_commit(c)
    BY <2>8, AnswerOnly, GotoOnly DEF trans_commit, TInv, ProcType, Only
  <2>9. CASE db_collection_remove(c)
    BY <2>9, AnswerOnly, GotoOnly DEF db_collection_remove, TInv, ProcType, Only
  <2>10. CASE db_collection_new(c)
    BY <2>10, AnswerOnly, GotoOnly DEF db_collection_new, TInv, ProcType, Only
  <2>11. CASE method_get(c)
    BY <2>11, AnswerOnly, GotoOnly DEF method_get, TInv, ProcType, Only
  <2>12. CASE method_propfind(c)
    BY <2>12, AnswerOnly, GotoOnly DEF method_propfind, TInv, ProcType, Only
  <2>13. CASE prop_reply(c)
    BY <2>13, AnswerOnly, GotoOnly DEF prop_reply, TInv, ProcType, Only
  <2>14. CASE db_collection_update(c)
    BY <2>14, AnswerOnly, GotoOnly DEF db_collection_update, TInv, ProcType, Only
  <2>15. CASE db_collection_update_ctag(c)
    BY <2>15, AnswerOnly, GotoOnly DEF db_collection_update_ctag, TInv, ProcType, Only
  <2>16. QED
    BY <1>2, <2>1, <2>2, <2>3, <2>4, <2>5, <2>6, <2>7, <2>8,
       <2>9, <2>10, <2>11, <2>12, <2>13, <2>14, <2>15 DEF Serve
<1>3. CASE Break(c)
  BY <1>3, AnswerOnly DEF Break, Crash, StatementFails, CommitFails, ListingFails
<1>4. QED
  BY <1>1, <1>2, <1>3

(* The uncommitted database belongs to the process inside the transaction. *)
LEMMA WalKept ==
  ASSUME NEW c \in Clients, Start(c) \/ Serve(c) \/ Break(c), lock \notin {None, c}
  PROVE  wal' = wal
<1>1. CASE Start(c)
  BY <1>1 DEF Start, StartPut, StartDelete, StartDelcoln, StartGet, StartPropfind,
         StartProppatch, StartNewcoln, StartJsonDelcoln, StartSetcolnprops, Submit
<1>2. CASE Break(c)
  BY <1>2 DEF Break, Crash, StatementFails, CommitFails, ListingFails, Abandon,
         InTrans, store
<1>3. CASE Serve(c)
  BY <1>3 DEF Serve, load, db_resource_new, db_resource_remove, trans_open, trans_check,
         trans_write, trans_update_ctag, trans_commit, db_collection_remove,
         db_collection_new, method_get, method_propfind, prop_reply,
         db_collection_update, db_collection_update_ctag, Autocommit, InTrans,
         db_trans_open, store
<1>4. QED
  BY <1>1, <1>2, <1>3

(* Only two steps lead past the write.                                     *)
LEMMA PastWrite ==
  ASSUME TInv, NEW c \in Clients, Start(c) \/ Serve(c) \/ Break(c),
         pc'[c] \in {"wbump", "commit"}
  PROVE  trans_write(c) \/ trans_update_ctag(c)
<1>1. ~Start(c)
  BY SubmitBegins
     DEF Start, Begins, StartPut, StartDelete, StartDelcoln, StartGet, StartPropfind,
         StartProppatch, StartNewcoln, StartJsonDelcoln, StartSetcolnprops
<1>2. ~Break(c)
  BY AnswerOnly DEF Break, Crash, StatementFails, CommitFails, ListingFails
<1>3. ~load(c)
  BY AnswerOnly, GotoOnly DEF load, Found, TInv, ProcType
<1>4. ~db_resource_new(c)
  BY AnswerOnly, GotoOnly DEF db_resource_new, TInv, ProcType
<1>5. ~db_resource_remove(c)
  BY AnswerOnly, GotoOnly DEF db_resource_remove, TInv, ProcType
<1>6. ~trans_open(c)
  BY AnswerOnly, GotoOnly DEF trans_open, TInv, ProcType
<1>7. ~trans_check(c)
  BY AnswerOnly, GotoOnly DEF trans_check, TInv, ProcType
<1>8. ~trans_commit(c)
  BY AnswerOnly, GotoOnly DEF trans_commit, TInv, ProcType
<1>9. ~db_collection_remove(c)
  BY AnswerOnly, GotoOnly DEF db_collection_remove, TInv, ProcType
<1>10. ~db_collection_new(c)
  BY AnswerOnly, GotoOnly DEF db_collection_new, TInv, ProcType
<1>11. ~method_get(c)
  BY AnswerOnly, GotoOnly DEF method_get, TInv, ProcType
<1>12. ~method_propfind(c)
  BY AnswerOnly, GotoOnly DEF method_propfind, TInv, ProcType
<1>13. ~prop_reply(c)
  BY AnswerOnly, GotoOnly DEF prop_reply, TInv, ProcType
<1>14. ~db_collection_update(c)
  BY AnswerOnly, GotoOnly DEF db_collection_update, TInv, ProcType
<1>15. ~db_collection_update_ctag(c)
  BY AnswerOnly, GotoOnly DEF db_collection_update_ctag, TInv, ProcType
<1>16. QED
  BY <1>1, <1>2, <1>3, <1>4, <1>5, <1>6, <1>7, <1>8,
     <1>9, <1>10, <1>11, <1>12, <1>13, <1>14, <1>15 DEF Serve

LEMMA WrittenSafe ==
  ASSUME SInv, WrittenOK, NEW c \in Clients, Start(c) \/ Serve(c) \/ Break(c)
  PROVE  WrittenOK'
<1>1. TInv /\ Only(c)
  BY StepOnly DEF SInv
<1> SUFFICES ASSUME NEW b \in Clients, pc'[b] \in {"wbump", "commit"}
             PROVE  wal'.res[cfg'[b].id][job'[b].name]
                      = IF job'[b].method = "put"
                        THEN [etag |-> job'[b].etag, data |-> job'[b].body]
                        ELSE None
  BY DEF WrittenOK
<1>2. CASE b # c
  <2>1. pc'[b] = pc[b] /\ job'[b] = job[b] /\ cfg'[b] = cfg[b]
    BY <1>1, <1>2 DEF Only
  <2>2. lock = b
    BY <2>1 DEF SInv, LockOK, InTransPcs
  <2>3. wal' = wal
    BY <1>2, <2>2, WalKept, CalStoreAssumption
  <2>4. QED
    BY <2>1, <2>3 DEF WrittenOK
<1>3. CASE b = c
  <2> DEFINE k == cfg[c].id
             j == job[c]
  <2>1. trans_write(c) \/ trans_update_ctag(c)
    BY <1>1, <1>3, PastWrite
  <2>2. /\ k \in Ids /\ j.name \in Names /\ j.etag \in Nat /\ j.body \in Nat
        /\ j.method \in {"put", "delete"} /\ wal \in Database
        /\ pc[c] \in {"write", "wbump"}
    <3>1. pc[c] \in {"write", "wbump"}
      BY <2>1 DEF trans_write, trans_update_ctag
    <3>2. j.method \in {"put", "delete"}
      BY <1>1, <3>1 DEF TInv, ProcType, JobOK, JobAt, InTransPcs
    <3>3. QED
      BY <1>1, <3>1, <3>2, JobFacts DEF TInv, StoreType
  <2>3. job' = job /\ cfg' = cfg
    BY <2>1 DEF trans_write, trans_update_ctag, Goto
  <2>4. CASE trans_write(c)
    <3>1. wal = db /\ db.res[k][j.name] # None
      BY <2>4 DEF trans_write, SInv, TransOK, InTransPcs
    <3>2. wal' = IF j.method = "put"
                 THEN InsertRes(wal, k, j.name, j.etag, j.body)
                 ELSE DropRes(wal, k, j.name)
      BY <2>4, <3>1 DEF trans_write, TransWrite, UpdateRes
    <3>3. CASE j.method = "put"
      <4>1. wal'.res[k][j.name] = [etag |-> j.etag, data |-> j.body]
        BY <2>2, <3>2, <3>3, InsertResLemma
      <4>2. QED
        BY <1>3, <2>3, <3>3, <4>1
    <3>4. CASE j.method # "put"
      <4>1. wal'.res[k][j.name] = None
        BY <2>2, <3>2, <3>4, DropResLemma
      <4>2. QED
        BY <1>3, <2>3, <3>4, <4>1
    <3>5. QED
      BY <3>3, <3>4
  <2>5. CASE trans_update_ctag(c)
    <3>1. wal'.res = wal.res
      BY <2>2, <2>5, BumpCtagLemma DEF trans_update_ctag, TransWrite
    <3>2. pc[c] = "wbump"
      BY <2>5 DEF trans_update_ctag
    <3>3. wal.res[k][j.name] = IF j.method = "put"
                               THEN [etag |-> j.etag, data |-> j.body]
                               ELSE None
      BY <3>2 DEF WrittenOK
    <3>4. QED
      BY <1>3, <2>3, <3>1, <3>3
  <2>6. QED
    BY <2>1, <2>4, <2>5
<1>4. QED
  BY <1>2, <1>3

-----------------------------------------------------------------------------
(* What a step may do to the committed database.                           *)

(* The seven steps that change it.                                         *)
LEMMA Writers ==
  ASSUME [Next]_vars, db' # db
  PROVE  \E c \in Clients :
            \/ db_resource_new(c) \/ db_resource_remove(c) \/ trans_commit(c)
            \/ db_collection_remove(c) \/ db_collection_new(c)
            \/ db_collection_update(c) \/ db_collection_update_ctag(c)
<1>1. PICK c \in Clients : Start(c) \/ Serve(c) \/ Break(c)
  BY DEF Next, vars
<1>2. ~Start(c)
  BY DEF Start, StartPut, StartDelete, StartDelcoln, StartGet, StartPropfind,
         StartProppatch, StartNewcoln, StartJsonDelcoln, StartSetcolnprops, Submit
<1>3. ~Break(c)
  BY DEF Break, Crash, StatementFails, CommitFails, ListingFails, Abandon,
         db_trans_rollback, store
<1>4. /\ ~load(c) /\ ~method_get(c) /\ ~method_propfind(c) /\ ~prop_reply(c)
      /\ ~trans_open(c) /\ ~trans_check(c) /\ ~trans_write(c) /\ ~trans_update_ctag(c)
  BY DEF load, method_get, method_propfind, prop_reply, trans_open, trans_check,
         trans_write, trans_update_ctag, db_trans_open, db_trans_rollback, TransWrite,
         store
<1>5. QED
  BY <1>1, <1>2, <1>3, <1>4 DEF Serve

(* A row that was not there before is the one a request carried.           *)
LEMMA NewRows ==
  ASSUME SInv, WrittenOK, NEW c \in Clients,
         \/ db_resource_new(c) \/ db_resource_remove(c) \/ trans_commit(c)
         \/ db_collection_remove(c) \/ db_collection_new(c)
         \/ db_collection_update(c) \/ db_collection_update_ctag(c),
         NEW k \in Ids, NEW n \in Names
  PROVE  \/ db'.res[k][n] \in {None, db.res[k][n]}
         \/ /\ pc[c] # "idle" /\ job[c] \in Job
            /\ db'.res[k][n] = [etag |-> job[c].etag, data |-> job[c].body]
<1> DEFINE i == cfg[c].id
           j == job[c]
<1>1. db \in Database /\ wal \in Database
  BY DEF SInv, TInv, StoreType
<1>2. CASE db_collection_new(c)
  <2>1. CASE db.next <= MaxColn /\ db' = NewColn(db, j.url)
    <3>1. j.url \in Urls
      BY <1>2 DEF db_collection_new, At, SInv, TInv, ProcType, JobOK, JobAt, IdMethods
    <3>2. db.next \in Ids
      BY <1>1, <2>1, CalStoreAssumption DEF Database, Ids
    <3>3. db'.res = db.res
      BY <1>1, <2>1, <3>1, <3>2, NewColnLemma
    <3>4. QED
      BY <3>3
  <2>2. QED
    BY <1>2, <2>1 DEF db_collection_new, Autocommit, store
<1>3. CASE ~ db_collection_new(c)
  <2>1. pc[c] \notin {"idle", "load"} /\ j.method # "json_newcoln"
    BY <1>3 DEF db_resource_new, db_resource_remove, trans_commit, db_collection_remove,
       db_collection_update, db_collection_update_ctag, At, SInv, TInv, ProcType, JobOK,
       JobAt, InTransPcs
  <2>2. /\ i \in Ids /\ j \in Job /\ j.etag \in Nat /\ j.body \in Nat
        /\ j.method \in {"put", "delete", "get"} => j.name \in Names
    BY <2>1, JobFacts DEF SInv, TInv
  <2>3. CASE db_resource_new(c)
    <3>1. db' = db \/ db' = InsertRes(db, i, j.name, j.etag, j.body)
      BY <2>3 DEF db_resource_new, Autocommit, store
    <3>2. j.name \in Names
      BY <2>2, <2>3 DEF db_resource_new, At
    <3>3. CASE db' = db
      BY <3>3
    <3>4. CASE db' = InsertRes(db, i, j.name, j.etag, j.body)
      <4>1. /\ db'.res[i][j.name] = [etag |-> j.etag, data |-> j.body]
            /\ \A a \in Ids, b \in Names :
                 a # i \/ b # j.name => db'.res[a][b] = db.res[a][b]
        BY <1>1, <2>2, <3>2, <3>4 DEF InsertRes, Database, Res
      <4>2. QED
        BY <2>1, <2>2, <4>1
    <3>5. QED
      BY <3>1, <3>3, <3>4
  <2>4. CASE db_resource_remove(c)
    <3>1. db' = DropRes(db, i, j.name) /\ j.name \in Names
      BY <2>2, <2>4 DEF db_resource_remove, Autocommit, At
    <3>2. QED
      <4>1. /\ db'.res[i][j.name] = None
            /\ \A a \in Ids, b \in Names :
                 a # i \/ b # j.name => db'.res[a][b] = db.res[a][b]
        <5>1. db \in Database /\ i \in Ids /\ j.name \in Names
          BY <1>1, <2>2, <3>1
        <5>2. db' = DropRes(db, i, j.name)
          BY <3>1
        <5> HIDE DEF i, j
        <5>3. QED
          <6>1. RowGone(db', db, i, j.name)
            BY <5>1, <5>2, DropResGone
          <6>2. QED
            BY <6>1, Zenon DEF RowGone
      <4>2. QED
        BY <2>1, <2>2, <4>1
  <2>5. CASE trans_commit(c)
    <3>1. pc[c] = "commit" /\ db' = wal
      BY <2>5 DEF trans_commit, db_trans_commit
    <3>2. \A a \in Ids, b \in Names :
             a # i \/ b # j.name => wal.res[a][b] = db.res[a][b]
      <4>1. TransOK /\ pc[c] \in InTransPcs
        BY <3>1 DEF SInv, InTransPcs
      <4>2. QED
        BY <3>1, <4>1 DEF TransOK
    <3>3. wal.res[i][j.name] \in {None, [etag |-> j.etag, data |-> j.body]}
      BY <3>1 DEF WrittenOK
    <3>4. QED
      BY <2>1, <2>2, <3>1, <3>2, <3>3
  <2>6. CASE db_collection_remove(c)
    <3>1. db' = DropColn(db, i)
      BY <2>6 DEF db_collection_remove, Autocommit
    <3>2. QED
      BY <1>1, <2>2, <3>1, DropColnLemma
  <2>7. CASE db_collection_update(c)
    <3>1. db' = SetProps(db, i, Merged(c)) /\ Merged(c) \in Props
      BY <2>7, MergedType DEF SInv, TInv, db_collection_update, Autocommit, At
    <3>2. db'.res = db.res
      BY <1>1, <2>2, <3>1, SetPropsLemma
    <3>3. QED
      BY <3>2
  <2>8. CASE db_collection_update_ctag(c)
    <3>1. db' = BumpCtag(db, i)
      BY <2>8 DEF db_collection_update_ctag, Autocommit
    <3>2. db'.res = db.res
      BY <1>1, <2>2, <3>1, BumpCtagLemma
    <3>3. QED
      BY <3>2
  <2>9. QED
    BY <1>3, <2>3, <2>4, <2>5, <2>6, <2>7, <2>8
<1>4. QED
  BY <1>2, <1>3

(* The request stays what it is until it ends.                             *)
LEMMA JobKept ==
  ASSUME TInv, NEW c \in Clients, Serve(c) \/ Break(c), pc'[c] # "idle"
  PROVE  job'[c] = job[c] /\ pc[c] # "idle"
<1>1. ~Break(c)
  BY AnswerOnly DEF Break, Crash, StatementFails, CommitFails, ListingFails
<1>2. CASE Serve(c)
  <2>1. CASE load(c)
    BY <2>1, AnswerOnly, GotoOnly DEF load, Found, At
  <2>2. CASE db_resource_new(c)
    BY <2>2, AnswerOnly, GotoOnly DEF db_resource_new, At
  <2>3. CASE db_resource_remove(c)
    BY <2>3, AnswerOnly, GotoOnly DEF db_resource_remove, At
  <2>4. CASE trans_open(c)
    BY <2>4, AnswerOnly, GotoOnly DEF trans_open, At
  <2>5. CASE trans_check(c)
    BY <2>5, AnswerOnly, GotoOnly DEF trans_check, At
  <2>6. CASE trans_write(c)
    BY <2>6, AnswerOnly, GotoOnly DEF trans_write, At
  <2>7. CASE trans_update_ctag(c)
    BY <2>7, AnswerOnly, GotoOnly DEF trans_update_ctag, At
  <2>8. CASE trans_commit(c)
    BY <2>8, AnswerOnly, GotoOnly DEF trans_commit, At
  <2>9. CASE db_collection_remove(c)
    BY <2>9, AnswerOnly, GotoOnly DEF db_collection_remove, At
  <2>10. CASE db_collection_new(c)
    BY <2>10, AnswerOnly, GotoOnly DEF db_collection_new, At
  <2>11. CASE method_get(c)
    BY <2>11, AnswerOnly, GotoOnly DEF method_get, At
  <2>12. CASE method_propfind(c)
    BY <2>12, AnswerOnly, GotoOnly DEF method_propfind, At
  <2>13. CASE prop_reply(c)
    BY <2>13, AnswerOnly, GotoOnly DEF prop_reply, At
  <2>14. CASE db_collection_update(c)
    BY <2>14, AnswerOnly, GotoOnly DEF db_collection_update, At
  <2>15. CASE db_collection_update_ctag(c)
    BY <2>15, AnswerOnly, GotoOnly DEF db_collection_update_ctag, At
  <2>16. QED
    BY <1>2, <2>1, <2>2, <2>3, <2>4, <2>5, <2>6, <2>7, <2>8,
       <2>9, <2>10, <2>11, <2>12, <2>13, <2>14, <2>15 DEF Serve
<1>3. QED
  BY <1>1, <1>2

(* With arc4random a request makes an etag no other request makes.         *)
LEMMA StartEtag ==
  ASSUME TInv, TInv', NEW c \in Clients, Start(c), Arc4Random
  PROVE  job'[c].etag = job'[c].body
<1>1. PICK j : job' = [job EXCEPT ![c] = [j EXCEPT !.etag = reqs + 1, !.body = reqs + 1]]
  BY DEF Start, StartPut, StartDelete, StartDelcoln, StartGet, StartPropfind,
         StartProppatch, StartNewcoln, StartJsonDelcoln, StartSetcolnprops, Submit
<1> DEFINE J == [j EXCEPT !.etag = reqs + 1, !.body = reqs + 1]
<1>2. job'[c] = J
  BY <1>1 DEF TInv, ProcType
<1>3. pc'[c] # "idle"
  BY SubmitBegins
     DEF Start, Begins, StartPut, StartDelete, StartDelcoln, StartGet, StartPropfind,
         StartProppatch, StartNewcoln, StartJsonDelcoln, StartSetcolnprops
<1>4. J \in Job
  BY <1>2, <1>3 DEF TInv, ProcType, JobOK, JobAt
<1>5. "etag" \in DOMAIN j /\ "body" \in DOMAIN j
  BY <1>4 DEF Job
<1>6. QED
  BY <1>2, <1>5

LEMMA EtagsSafe ==
  ASSUME SInv, WrittenOK, EtagsOK, Arc4Random, [Next]_vars
  PROVE  EtagsOK'
<1>1. TInv /\ TInv'
  BY NextSafe DEF SInv
<1>2. CASE UNCHANGED vars
  BY <1>2 DEF vars, EtagsOK
<1>3. CASE Next
  <2>1. PICK c \in Clients : Start(c) \/ Serve(c) \/ Break(c)
    BY <1>3 DEF Next
  <2>2. Only(c)
    BY <1>1, <2>1, StepOnly
  <2>3. ASSUME NEW b \in Clients, pc'[b] # "idle"
        PROVE  job'[b].etag = job'[b].body
    <3>1. CASE b # c
      BY <2>2, <2>3, <3>1 DEF Only, EtagsOK
    <3>2. CASE b = c /\ Start(c)
      BY <1>1, <3>2, StartEtag
    <3>3. CASE b = c /\ (Serve(c) \/ Break(c))
      BY <1>1, <2>3, <3>3, JobKept DEF EtagsOK
    <3>4. QED
      BY <2>1, <3>1, <3>2, <3>3
  <2>4. ASSUME NEW k \in Ids, NEW n \in Names, db'.res[k][n] # None
        PROVE  db'.res[k][n].etag = db'.res[k][n].data
    <3>1. CASE db' = db
      BY <2>4, <3>1 DEF EtagsOK
    <3>2. CASE db' # db
      <4>1. PICK b \in Clients :
              \/ db_resource_new(b) \/ db_resource_remove(b) \/ trans_commit(b)
              \/ db_collection_remove(b) \/ db_collection_new(b)
              \/ db_collection_update(b) \/ db_collection_update_ctag(b)
        BY <3>2, Writers
      <4>2. CASE db'.res[k][n] = db.res[k][n]
        BY <2>4, <4>2 DEF EtagsOK
      <4>3. CASE db'.res[k][n] # db.res[k][n]
        <5>1. /\ pc[b] # "idle"
              /\ db'.res[k][n] = [etag |-> job[b].etag, data |-> job[b].body]
          BY <2>4, <4>1, <4>3, NewRows
        <5>2. QED
          BY <5>1 DEF EtagsOK
      <4>4. QED
        BY <4>2, <4>3
    <3>3. QED
      BY <3>1, <3>2
  <2>5. ASSUME NEW b \in Clients, copy'[b] # None
        PROVE  copy'[b].etag = copy'[b].data
    <3>1. CASE copy' = copy
      BY <2>5, <3>1 DEF EtagsOK
    <3>2. CASE method_get(c)
      <4> DEFINE r == db.res[cfg[c].id][job[c].name]
      <4>1. cfg[c].id \in Ids /\ job[c].name \in Names
        <5>1. pc[c] = "exec" /\ job[c].method = "get"
          BY <3>2 DEF method_get, At
        <5>2. QED
          BY <1>1, <5>1, JobFacts DEF TInv
      <4>2. CASE copy' # copy
        <5>1. /\ r # None
              /\ copy' = [copy EXCEPT ![c] = [url |-> job[c].url, name |-> job[c].name,
                                              etag |-> r.etag, data |-> r.data]]
          BY <3>2, <4>2 DEF method_get
        <5>2. r.etag = r.data
          BY <4>1, <5>1 DEF EtagsOK
        <5>3. QED
          BY <1>1, <2>5, <5>1, <5>2 DEF EtagsOK, TInv, RestType
      <4>3. QED
        BY <3>1, <4>2
    <3>3. CASE ~method_get(c)
      <4>1. copy' = copy
        <5>1. CASE Start(c)
          BY <5>1 DEF Start, StartPut, StartDelete, StartDelcoln, StartGet, StartPropfind,
             StartProppatch, StartNewcoln, StartJsonDelcoln, StartSetcolnprops, Submit
        <5>2. CASE Break(c)
          BY <5>2 DEF Break, Crash, StatementFails, CommitFails, ListingFails, clients
        <5>3. CASE Serve(c)
          BY <3>3, <5>3 DEF Serve, load, db_resource_new, db_resource_remove, trans_open,
             trans_check, trans_write, trans_update_ctag, trans_commit,
             db_collection_remove, db_collection_new, method_propfind,
             prop_reply, db_collection_update, db_collection_update_ctag, clients
        <5>4. QED
          BY <2>1, <5>1, <5>2, <5>3
      <4>2. QED
        BY <3>1, <4>1
    <3>4. QED
      BY <3>2, <3>3
  <2>6. QED
    BY <2>3, <2>4, <2>5 DEF EtagsOK
<1>4. QED
  BY <1>2, <1>3

-----------------------------------------------------------------------------
LEMMA SInvIsIInv == SInv /\ WrittenOK /\ (Arc4Random => EtagsOK) <=> IInv
  BY TInvIsTypeOK DEF SInv, DataOK, IInv

(* The inductive invariant, which TLC also checks on a small instance.     *)
THEOREM Inductive == Spec => []IInv
<1> DEFINE All == SInv /\ WrittenOK /\ (Arc4Random => EtagsOK)
<1>1. Init => All
  <2>1. ASSUME Init
        PROVE  WrittenOK /\ EtagsOK
    <3>1. PICK u \in Urls : db = NewColn(NoColns, u)
      BY <2>1 DEF Init
    <3>2. \A k \in Ids, n \in Names : db.res[k][n] = None
      BY <3>1 DEF NewColn, NoColns
    <3>3. QED
      BY <2>1, <3>2 DEF Init, WrittenOK, EtagsOK
  <2>2. QED
    BY <2>1, InitSafe
<1>2. All /\ [Next]_vars => All'
  <2>1. SInv /\ WrittenOK /\ Next => WrittenOK'
    BY WrittenSafe DEF Next
  <2>2. WrittenOK /\ UNCHANGED vars => WrittenOK'
    BY DEF WrittenOK, vars
  <2>3. QED
    BY <2>1, <2>2, NextSafe, EtagsSafe
<1>3. All => IInv
  BY SInvIsIInv
<1>4. QED
  BY <1>1, <1>2, <1>3, PTL DEF Spec

(* db_resource_new, db_resource_remove, db_resource_update and             *)
(* db_resource_delete against propfind_directory: an unchanged ctag means  *)
(* an unchanged listing unless a writer is, or died, between its two       *)
(* statements.                                                             *)
THEOREM CtagSync == Spec => []UnchangedCtagMeansUnchanged
<1>1. IInv => UnchangedCtagMeansUnchanged
  BY DEF IInv
<1>2. QED
  BY <1>1, Inductive, PTL

(* An etag answers for the body it was given with (304, If-Match), when the *)
(* program is built with arc4random.                                       *)
THEOREM Etags == ASSUME Arc4Random PROVE Spec => []EtagIdentifiesBody
<1>1. ASSUME IInv
      PROVE  EtagIdentifiesBody
  <2> SUFFICES ASSUME NEW c \in Clients, NEW k \in Ids, copy[c] # None,
                      db.res[k][copy[c].name] # None,
                      db.res[k][copy[c].name].etag = copy[c].etag
               PROVE  db.res[k][copy[c].name].data = copy[c].data
    BY DEF EtagIdentifiesBody
  <2>1. copy[c].name \in Names
    BY <1>1 DEF IInv, TypeOK, Copy
  <2>2. QED
    BY <1>1, <2>1 DEF IInv, EtagsOK
<1>2. QED
  BY <1>1, Inductive, PTL

(* The foreign key and its ON DELETE CASCADE, against a PUT in flight.     *)
THEOREM NoStray == Spec => []NoStrayResources
<1>1. IInv => NoStrayResources
  BY DEF IInv, RowsOK, NoStrayResources
<1>2. QED
  BY <1>1, Inductive, PTL

(* The steps that write one resource: which, and on what condition.        *)
LEMMA ResourceWriters ==
  ASSUME SInv, NEW c \in Clients, NEW k \in Ids, NEW n \in Names,
         db_resource_new(c) \/ db_resource_remove(c) \/ trans_commit(c),
         db.res[k][n] # None, db'.res[k][n] # db.res[k][n]
  PROVE  Replaces(c, k, n)
<1> DEFINE i == cfg[c].id
           m == job[c].name
<1>1. i \in Ids /\ m \in Names /\ job[c].etag \in Nat /\ job[c].body \in Nat
  BY JobFacts DEF SInv, TInv, ProcType, JobOK, JobAt, InTransPcs, At,
                  db_resource_new, db_resource_remove, trans_commit
<1>2. db \in Database /\ pc \in [Clients -> Pcs]
  BY DEF SInv, TInv, StoreType, ProcType
<1>3. ~db_resource_new(c)
  <2> SUFFICES ASSUME db_resource_new(c)
               PROVE  FALSE
    OBVIOUS
  <2>1. /\ db' = InsertRes(db, i, m, job[c].etag, job[c].body)
        /\ db.res[i][m] = None
    BY DEF db_resource_new, Autocommit, store, InsertViolates
  <2>2. QED
    BY <1>1, <1>2, <2>1 DEF InsertRes, Database
<1>4. CASE db_resource_remove(c)
  <2>1. db' = DropRes(db, i, m)
    BY <1>4 DEF db_resource_remove, Autocommit
  <2>2. i = k /\ m = n
    BY <1>1, <1>2, <2>1 DEF DropRes, Database
  <2>3. QED
    BY <1>2, <1>4, <2>2 DEF db_resource_remove, Replaces, At, Goto
<1>5. CASE trans_commit(c)
  <2>1. /\ db' = wal /\ db.res[i][m].etag = job[c].digest
        /\ \A a \in Ids, b \in Names : a # i \/ b # m => wal.res[a][b] = db.res[a][b]
    BY <1>5 DEF trans_commit, db_trans_commit, SInv, TransOK, InTransPcs
  <2>2. i = k /\ m = n
    BY <2>1
  <2>3. QED
    BY <1>2, <1>5, <2>1, <2>2 DEF trans_commit, Replaces, Answer
<1>6. QED
  BY <1>3, <1>4, <1>5

(* The steps that write a collection row leave resources alone, unless it  *)
(* is dropped.                                                             *)
LEMMA CollectionWriters ==
  ASSUME SInv, NEW c \in Clients, NEW k \in Ids,
         \/ db_collection_remove(c) \/ db_collection_new(c)
         \/ db_collection_update(c) \/ db_collection_update_ctag(c)
  PROVE  \/ db'.coln[k] = None
         \/ /\ db'.res[k] = db.res[k]
            /\ db'.coln[k] = db.coln[k] \/ db.coln[k] = None
         \/ /\ db'.res[k] = db.res[k] /\ cfg[c].id = k
            /\ cfg[c] \in Snapshot /\ pc[c] # "idle" /\ pc'[c] # pc[c]
<1>1. db \in Database /\ pc \in [Clients -> Pcs]
  BY DEF SInv, TInv, StoreType, ProcType
<1> DEFINE i == cfg[c].id
<1>2. CASE db_collection_new(c)
  <2>1. CASE db' = db
    BY <2>1
  <2>2. CASE db.next <= MaxColn /\ db' = NewColn(db, job[c].url)
    <3>1. job[c].url \in Urls
      BY <1>2 DEF db_collection_new, At, SInv, TInv, ProcType, JobOK, JobAt, IdMethods
    <3>2. db.next \in Ids
      BY <1>1, <2>2, CalStoreAssumption DEF Database, Ids
    <3>3. db.coln[db.next] = None
      BY <1>1, <3>2 DEF SInv, DataOK, RowsOK, Database
    <3>4. db'.res = db.res /\ \A a \in Ids : a # db.next => db'.coln[a] = db.coln[a]
      BY <1>1, <2>2, <3>1, <3>2, NewColnLemma
    <3>5. QED
      BY <3>3, <3>4
  <2>3. QED
    BY <1>2, <2>1, <2>2 DEF db_collection_new, Autocommit, store
<1>3. ASSUME ~db_collection_new(c)
      PROVE  i \in Ids /\ cfg[c] \in Snapshot
  BY <1>3, JobFacts DEF SInv, TInv, ProcType, JobOK, JobAt, At, db_collection_remove,
       db_collection_update, db_collection_update_ctag
<1>4. CASE db_collection_remove(c)
  <2>1. i \in Ids
    BY <1>4, JobFacts DEF SInv, TInv, db_collection_remove, At
  <2>2. db' = DropColn(db, i)
    BY <1>4 DEF db_collection_remove, Autocommit
  <2>3. QED
    BY <1>1, <2>1, <2>2, DropColnLemma
<1>5. CASE db_collection_update(c)
  <2>1. /\ i \in Ids /\ cfg[c] \in Snapshot /\ Merged(c) \in Props
    BY <1>5, JobFacts, MergedType DEF SInv, TInv, db_collection_update, At
  <2>2. db' = SetProps(db, i, Merged(c)) /\ pc[c] = "update" /\ pc'[c] = "bump"
    BY <1>1, <1>5 DEF db_collection_update, Autocommit, At, Goto
  <2>3. db'.res = db.res /\ \A a \in Ids : a # i => db'.coln[a] = db.coln[a]
    BY <1>1, <2>1, <2>2, SetPropsLemma
  <2>4. QED
    BY <2>1, <2>2, <2>3
<1>6. CASE db_collection_update_ctag(c)
  <2>1. /\ i \in Ids /\ cfg[c] \in Snapshot
    BY <1>6, JobFacts DEF SInv, TInv, db_collection_update_ctag, ProcType, JobOK, JobAt
  <2>2. db' = BumpCtag(db, i) /\ pc[c] = "bump" /\ pc'[c] = "idle"
    BY <1>1, <1>6 DEF db_collection_update_ctag, Autocommit, Answer
  <2>3. db'.res = db.res /\ \A a \in Ids : a # i => db'.coln[a] = db.coln[a]
    BY <1>1, <2>1, <2>2, BumpCtagLemma
  <2>4. QED
    BY <2>1, <2>2, <2>3
<1>7. QED
  BY <1>2, <1>4, <1>5, <1>6

(* Conditional PUT and DELETE (If-Match): whatever the interleaving, no    *)
(* resource is replaced but by a request that named its present etag.      *)
THEOREM ConditionalWrites == Spec => NoLostUpdate
<1> DEFINE Step == \A k \in Ids, n \in Names :
                     (db.res[k][n] # None /\ db'.res[k][n] # db.res[k][n])
                     => db'.coln[k] = None \/ \E c \in Clients : Replaces(c, k, n)
<1>1. IInv /\ [Next]_vars => Step
  <2> SUFFICES ASSUME SInv, [Next]_vars, NEW k \in Ids, NEW n \in Names,
                      db.res[k][n] # None, db'.res[k][n] # db.res[k][n]
               PROVE  db'.coln[k] = None \/ \E c \in Clients : Replaces(c, k, n)
    BY SInvIsIInv
  <2>1. PICK c \in Clients :
            \/ db_resource_new(c) \/ db_resource_remove(c) \/ trans_commit(c)
            \/ db_collection_remove(c) \/ db_collection_new(c)
            \/ db_collection_update(c) \/ db_collection_update_ctag(c)
    BY Writers
  <2>2. CASE db_resource_new(c) \/ db_resource_remove(c) \/ trans_commit(c)
    BY <2>2, ResourceWriters
  <2>3. CASE \/ db_collection_remove(c) \/ db_collection_new(c)
             \/ db_collection_update(c) \/ db_collection_update_ctag(c)
    BY <2>3, CollectionWriters
  <2>4. QED
    BY <2>1, <2>2, <2>3
<1>2. IInv /\ [Next]_vars => [Step]_vars
  BY <1>1
<1>3. Spec => [][Step]_vars
  BY <1>2, Inductive, PTL DEF Spec
<1>4. QED
  BY <1>3 DEF NoLostUpdate

(* A resource writer stays in the collection it addressed.                 *)
LEMMA ResourceTargets ==
  ASSUME SInv, NEW c \in Clients, NEW k \in Ids,
         db_resource_new(c) \/ db_resource_remove(c) \/ trans_commit(c),
         \/ db'.res[k] # db.res[k]
         \/ db.coln[k] # None /\ db'.coln[k] # db.coln[k]
  PROVE  cfg[c].id = k /\ cfg[c] \in Snapshot /\ pc[c] # "idle" /\ pc'[c] # pc[c]
<1> DEFINE i == cfg[c].id
           m == job[c].name
<1>1. /\ i \in Ids /\ m \in Names /\ cfg[c] \in Snapshot
      /\ job[c].etag \in Nat /\ job[c].body \in Nat
  BY JobFacts DEF SInv, TInv, ProcType, JobOK, JobAt, InTransPcs, At,
                  db_resource_new, db_resource_remove, trans_commit
<1>2. db \in Database /\ wal \in Database /\ pc \in [Clients -> Pcs]
  BY DEF SInv, TInv, StoreType, ProcType
<1>3. CASE db_resource_new(c)
  <2>1. db' = db \/ db' = InsertRes(db, i, m, job[c].etag, job[c].body)
    BY <1>3 DEF db_resource_new, Autocommit, store
  <2>2. i = k
    BY <1>1, <1>2, <2>1 DEF InsertRes, Database
  <2>3. pc[c] = "exec" /\ pc'[c] \in {"idle", "bump"}
    BY <1>2, <1>3 DEF db_resource_new, At, Goto, Answer
  <2>4. QED
    BY <1>1, <2>2, <2>3
<1>4. CASE db_resource_remove(c)
  <2>1. db' = DropRes(db, i, m)
    BY <1>4 DEF db_resource_remove, Autocommit
  <2>2. i = k
    BY <1>1, <1>2, <2>1 DEF DropRes, Database
  <2>3. QED
    BY <1>1, <1>2, <1>4, <2>2 DEF db_resource_remove, At, Goto
<1>5. CASE trans_commit(c)
  <2>1. /\ db' = wal /\ wal.coln = BumpCtag(db, i).coln
        /\ \A a \in Ids, b \in Names : a # i \/ b # m => wal.res[a][b] = db.res[a][b]
    BY <1>5 DEF trans_commit, db_trans_commit, SInv, TransOK, InTransPcs
  <2>2. ASSUME i # k
        PROVE  wal.res[k] = db.res[k] /\ wal.coln[k] = db.coln[k]
    <3>1. /\ wal.res[k] \in [Names -> Res \cup {None}]
          /\ db.res[k] \in [Names -> Res \cup {None}]
      BY <1>2 DEF Database
    <3>2. wal.res[k] = db.res[k]
      BY <2>1, <2>2, <3>1
    <3>3. wal.coln[k] = db.coln[k]
      BY <1>1, <1>2, <2>1, <2>2, BumpCtagLemma
    <3>4. QED
      BY <3>2, <3>3
  <2>3. i = k
    BY <2>1, <2>2
  <2>4. QED
    BY <1>1, <1>2, <1>5, <2>3 DEF trans_commit, Answer
<1>6. QED
  BY <1>3, <1>4, <1>5

(* A collection is new under an identifier that nobody has loaded.         *)
LEMMA NewIsUnknown ==
  ASSUME SInv, [Next]_vars, NEW k \in Ids, db.coln[k] = None, db'.coln[k] # None,
         NEW c \in Clients, cfg[c] # None
  PROVE  cfg[c].id # k
<1>1. db \in Database
  BY DEF SInv, TInv, StoreType
<1>2. PICK b \in Clients :
          \/ db_resource_new(b) \/ db_resource_remove(b) \/ trans_commit(b)
          \/ db_collection_remove(b) \/ db_collection_new(b)
          \/ db_collection_update(b) \/ db_collection_update_ctag(b)
  BY Writers
<1> DEFINE i == cfg[b].id
           j == job[b]
<1>a. \A x, y, z, w : InsertRes(db, x, y, z, w).coln = db.coln
  BY <1>1 DEF InsertRes, Database
<1>b. \A x, y : DropRes(db, x, y).coln = db.coln
  BY <1>1 DEF DropRes, Database
<1>3. ~ db_resource_new(b)
  BY <1>a DEF db_resource_new, Autocommit, store
<1>4. ~ db_resource_remove(b)
  BY <1>b DEF db_resource_remove, Autocommit
<1>5. BumpCtag(db, i).coln[k] = None
  BY <1>1 DEF BumpCtag, Database
<1>6. ~ trans_commit(b)
  BY <1>5 DEF trans_commit, db_trans_commit, SInv, TransOK, InTransPcs
<1>7. ~ db_collection_update_ctag(b)
  BY <1>5 DEF db_collection_update_ctag, Autocommit
<1>8. SetProps(db, i, Merged(b)).coln[k] = None
  BY <1>1 DEF SetProps, Database
<1>9. ~ db_collection_update(b)
  BY <1>8 DEF db_collection_update, Autocommit
<1>10. DropColn(db, i).coln[k] = None
  BY <1>1 DEF DropColn, Database
<1>11. ~ db_collection_remove(b)
  BY <1>10 DEF db_collection_remove, Autocommit
<1>12. db_collection_new(b)
  BY <1>2, <1>3, <1>4, <1>6, <1>7, <1>9, <1>11
<1>13. db' = NewColn(db, j.url)
  BY <1>12 DEF db_collection_new, Autocommit, store
<1>14. k = db.next
  BY <1>1, <1>13 DEF NewColn, Database
<1>15. cfg[c].id < db.next
  BY DEF SInv, DataOK, SnapshotsOK, Aged
<1>16. cfg[c].id \in Nat /\ db.next \in Nat
  BY <1>1, CalStoreAssumption DEF Database, SInv, TInv, ProcType, Snapshot, Ids
<1>17. QED
  BY <1>14, <1>15, <1>16

(* st->cfg is loaded once and used later: identifiers never come back      *)
(* (AUTOINCREMENT), so a write meets the collection its request named or   *)
(* none, even when the URL has been given to a new collection since.       *)
THEOREM Targets == Spec => NoMisdirectedWrite
<1> DEFINE Fresh(k) ==
      db.coln[k] = None /\ db'.coln[k] # None
      => \A c \in Clients : cfg[c] # None => cfg[c].id # k
    Aimed(k) ==
      (/\ db.coln[k] # None /\ db'.coln[k] # None
       /\ db'.coln[k] # db.coln[k] \/ db'.res[k] # db.res[k])
      => \E c \in Clients :
           /\ pc[c] # "idle" /\ pc'[c] # pc[c] /\ cfg[c].id = k
           /\ job[c].url = db.coln[k].url \/ job[c].id = k
    Step ==
      \A k \in Ids :
         /\ db.coln[k] = None /\ db'.coln[k] # None
            => \A c \in Clients : cfg[c] # None => cfg[c].id # k
         /\ (/\ db.coln[k] # None /\ db'.coln[k] # None
             /\ db'.coln[k] # db.coln[k] \/ db'.res[k] # db.res[k])
            => \E c \in Clients :
                 /\ pc[c] # "idle" /\ pc'[c] # pc[c] /\ cfg[c].id = k
                 /\ job[c].url = db.coln[k].url \/ job[c].id = k
<1>1. ASSUME SInv, [Next]_vars, NEW k \in Ids
      PROVE  Aimed(k)
  <2> SUFFICES ASSUME db.coln[k] # None, db'.coln[k] # None,
                      db'.coln[k] # db.coln[k] \/ db'.res[k] # db.res[k]
               PROVE  \E c \in Clients :
                        /\ pc[c] # "idle" /\ pc'[c] # pc[c] /\ cfg[c].id = k
                        /\ job[c].url = db.coln[k].url \/ job[c].id = k
    OBVIOUS
  <2>1. PICK c \in Clients :
            \/ db_resource_new(c) \/ db_resource_remove(c) \/ trans_commit(c)
            \/ db_collection_remove(c) \/ db_collection_new(c)
            \/ db_collection_update(c) \/ db_collection_update_ctag(c)
    BY <1>1, Writers
  <2>2. cfg[c].id = k /\ cfg[c] \in Snapshot /\ pc[c] # "idle" /\ pc'[c] # pc[c]
    BY <1>1, <2>1, ResourceTargets, CollectionWriters
  <2>3. cfg[c] # None
    BY <2>2, CalStoreAssumption
  <2>4. job[c].url = db.coln[k].url \/ job[c].id = k
    BY <1>1, <2>2, <2>3 DEF SInv, DataOK, TargetsOK
  <2>5. QED
    BY <2>2, <2>4
<1>2. ASSUME SInv, [Next]_vars, NEW k \in Ids
      PROVE  Fresh(k)
  BY <1>2, NewIsUnknown
<1>3. IInv /\ [Next]_vars => [Step]_vars
  BY <1>1, <1>2, SInvIsIInv
<1>4. Spec => [][Step]_vars
  BY <1>3, Inductive, PTL DEF Spec
<1>5. QED
  BY <1>4 DEF NoMisdirectedWrite
=============================================================================
