--------------------------- MODULE AccountsProofs ---------------------------
(***************************************************************************)
(* Proofs about Accounts, for every number of processes, principals, jobs  *)
(* and faults.                                                             *)
(***************************************************************************)
EXTENDS AccountsInv, WellFoundedInduction, TLAPS

(* The statements that insert a principal find the smallest id not used.   *)
LEMMA FreeIdLemma ==
  ASSUME \E i \in Ids : prncpl[i] = None
  PROVE  FreeId \in Ids /\ prncpl[FreeId] = None
<1> DEFINE Free == {i \in Ids : prncpl[i] = None}
<1>1. Free # {} /\ Free \subseteq Nat
  BY AccountsAssumption DEF Ids
<1>2. \E i \in Free : \A k \in Free : ~ (<<k, i>> \in OpToRel(<, Nat))
  BY <1>1, NatLessThanWellFounded, WFMin
<1>3. PICK i \in Free : \A k \in Free : ~ (<<k, i>> \in OpToRel(<, Nat))
  BY <1>2
<1>4. \A k \in Free : ~ (k < i)
  BY <1>1, <1>3 DEF OpToRel
<1>5. \A k \in 1 .. i - 1 : prncpl[k] # None
  BY <1>1, <1>4, AccountsAssumption DEF Ids
<1>6. QED
  BY <1>3, <1>5 DEF FreeId

-----------------------------------------------------------------------------
(* A step of p: the others stay where they are, and all stays typed.       *)
Only(p) ==
    /\ \A q \in Procs \ {p} : /\ pc'[q] = pc[q] /\ job'[q] = job[q]
                              /\ me'[q] = me[q] /\ arg'[q] = arg[q]
    /\ pc' \in [Procs -> Pcs] /\ job' \in [Procs -> Job \cup {None}]
    /\ me' \in [Procs -> Loaded \cup {None}]
    /\ arg' \in [Procs -> Ids \cup Bits \cup {None}]
    /\ answer' \in [Procs -> Answers]

Ends(p) == pc'[p] = "idle" /\ job'[p] = None /\ me'[p] = None /\ arg'[p] = None

LEMMA ReplyEnds ==
  ASSUME StateOK, NEW p \in Procs, NEW a \in Answers, Reply(p, a)
  PROVE  Only(p) /\ Ends(p)
BY DEF Reply, StateOK, Only, Ends, Pcs

LEMMA GotoMoves ==
  ASSUME StateOK, NEW p \in Procs, NEW label \in Pcs, Goto(p, label)
  PROVE  /\ Only(p) /\ pc'[p] = label
         /\ job'[p] = job[p] /\ me'[p] = me[p] /\ arg'[p] = arg[p]
BY DEF Goto, StateOK, Only

(* Each conjunct of the invariant, as a step of p can disturb it.          *)
LEMMA StageKept ==
  ASSUME StageOK, NEW p \in Procs, Only(p),
         StageOf(job'[p], me'[p], arg'[p], pc'[p])
  PROVE  StageOK'
<1>1. ASSUME NEW q \in Procs \ {p}
      PROVE  StageOf(job'[q], me'[q], arg'[q], pc'[q])
  BY <1>1 DEF StageOK, Only
<1>2. QED
  BY <1>1 DEF StageOK

LEMMA ManagerKept ==
  ASSUME ManagerOK, NEW p \in Procs, Only(p),
         owner' = owner \/ owner = None,
         /\ pc'[p] \notin {"idle"} \cup Claiming
         /\ job'[p].page = "adduser" \/ job'[p].alt
         => owner' # None /\ (MayManage(job[p].uid))'
  PROVE  ManagerOK'
<1> SUFFICES ASSUME NEW q \in Procs, pc'[q] \notin {"idle"} \cup Claiming,
                    job'[q].page = "adduser" \/ job'[q].alt
             PROVE  owner' # None /\ (MayManage(job[q].uid))'
  BY DEF ManagerOK
<1>1. CASE q = p
  BY <1>1
<1>2. CASE q # p
  BY <1>2 DEF ManagerOK, Only, MayManage
<1>3. QED
  BY <1>1, <1>2

LEMMA RowsKept ==
  ASSUME NamesUnique, LoadedOK, ActOK, NEW p \in Procs, Only(p),
         UNCHANGED <<prncpl, proxy>>,
         \A q \in Procs \ {p} : q \in overtaken => q \in overtaken',
         pc'[p] \in LoadedPcs => /\ prncpl[me'[p].id] # None
                                 /\ prncpl[me'[p].id].name = me'[p].name,
         pc'[p] = "act" =>
           /\ Named(job'[p].other) # {}
           /\ \A i \in Named(job'[p].other) \ {me'[p].id} :
                /\ arg'[p] = proxy[i][me'[p].id]
                /\ Suffices(arg'[p], job'[p].write)
           /\ arg'[p] = None => \A i \in Named(job'[p].other) : i = me'[p].id
  PROVE  NamesUnique' /\ LoadedOK' /\ ActOK'
<1>1. NamesUnique'
  BY DEF NamesUnique
<1>2. LoadedOK'
  BY DEF LoadedOK, Only
<1>3. ActOK'
  <2> SUFFICES ASSUME NEW q \in Procs, pc'[q] = "act"
               PROVE
        /\ Named(job'[q].other) # {}
        /\ \A i \in Named(job'[q].other) \ {me'[q].id} :
             q \in overtaken' \/ (/\ arg'[q] = proxy[i][me'[q].id]
                                 /\ Suffices(arg'[q], job'[q].write))
        /\ arg'[q] = None => \A i \in Named(job'[q].other) : i = me'[q].id
    BY DEF ActOK, Suffices, Named
  <2>1. CASE q = p
    BY <2>1
  <2>2. CASE q # p
    <3>1. pc'[q] = pc[q] /\ job'[q] = job[q] /\ me'[q] = me[q] /\ arg'[q] = arg[q]
      BY <2>2 DEF Only
    <3>2. q \in overtaken => q \in overtaken'
      BY <2>2
    <3>3. QED
      BY <3>1, <3>2 DEF ActOK
  <2>3. QED
    BY <2>1, <2>2
<1>4. QED
  BY <1>1, <1>2, <1>3

(* A process that ends gives up what it was asked and what it loaded.      *)
LEMMA EndsKept ==
  ASSUME RowsSound, NEW p \in Procs, Only(p), Ends(p), UNCHANGED <<schema, owner>>
  PROVE  StageOK' /\ ManagerOK' /\ SchemaOK'
<1>1. StageOf(None, None, None, "idle")
  BY AccountsAssumption DEF StageOf, Claiming, Making, LoadedPcs
<1>2. StageOK'
  BY <1>1, StageKept DEF RowsSound, Ends
<1>3. ManagerOK'
  BY ManagerKept DEF RowsSound, Ends
<1>4. SchemaOK'
  BY DEF RowsSound, SchemaOK, Only, Ends, Making
<1>5. QED
  BY <1>2, <1>3, <1>4

(* A process ends, and leaves the database as it is.                       *)
LEMMA QuitInv ==
  ASSUME RowsSound, NEW p \in Procs, Only(p), Ends(p),
         UNCHANGED <<tables, overtaken>>, jobs' \in Nat, faults' \in Nat
  PROVE  RowsSound'
<1>1. StateOK'
  BY DEF RowsSound, StateOK, tables, Only
<1>2. StageOK' /\ ManagerOK' /\ SchemaOK'
  BY EndsKept DEF tables
<1>3. NamesUnique' /\ LoadedOK' /\ ActOK'
  BY RowsKept DEF RowsSound, Ends, tables, LoadedPcs
<1>4. QED
  BY <1>1, <1>2, <1>3 DEF RowsSound

LEMMA ReplyInv ==
  ASSUME RowsSound, NEW p \in Procs, NEW a \in Answers, Reply(p, a),
         UNCHANGED <<tables, overtaken>>, jobs' \in Nat, faults' \in Nat
  PROVE  RowsSound'
BY ReplyEnds, QuitInv DEF RowsSound

(* A process goes on, and leaves the database as it is.                    *)
LEMMA AdvanceInv ==
  ASSUME RowsSound, NEW p \in Procs, Only(p),
         UNCHANGED <<tables, overtaken>>, jobs' \in Nat, faults' \in Nat,
         StageOf(job'[p], me'[p], arg'[p], pc'[p]), pc'[p] \notin Making,
         /\ pc'[p] \notin {"idle"} \cup Claiming
         /\ job'[p].page = "adduser" \/ job'[p].alt
         => owner # None /\ MayManage(job'[p].uid),
         pc'[p] \in LoadedPcs => /\ prncpl[me'[p].id] # None
                                 /\ prncpl[me'[p].id].name = me'[p].name,
         pc'[p] = "act" =>
           /\ Named(job'[p].other) # {}
           /\ \A i \in Named(job'[p].other) \ {me'[p].id} :
                /\ arg'[p] = proxy[i][me'[p].id]
                /\ Suffices(arg'[p], job'[p].write)
           /\ arg'[p] = None => \A i \in Named(job'[p].other) : i = me'[p].id
  PROVE  RowsSound'
<1>1. StateOK'
  BY DEF RowsSound, StateOK, tables, Only
<1>2. StageOK'
  BY StageKept DEF RowsSound
<1>3. ManagerOK'
  <2>1. (MayManage(job[p].uid))' <=> MayManage(job'[p].uid)
    BY DEF MayManage, tables
  <2>2. QED
    BY <2>1, ManagerKept DEF RowsSound, tables
<1>4. SchemaOK'
  BY DEF RowsSound, SchemaOK, Only, tables, Making
<1>5. NamesUnique' /\ LoadedOK' /\ ActOK'
  BY RowsKept DEF RowsSound, tables
<1>6. QED
  BY <1>1, <1>2, <1>3, <1>4, <1>5 DEF RowsSound

-----------------------------------------------------------------------------
(* A process starts with a job j.                                          *)
LEMMA RunInv ==
  ASSUME RowsSound, NEW p \in Procs, pc[p] = "idle",
         NEW j, Asked(j), job' = [job EXCEPT ![p] = j], Run(p)
  PROVE  RowsSound'
<1>1. j \in Job /\ StateOK /\ me[p] = None /\ arg[p] = None
  BY DEF RowsSound, StageOK, StageOf, Asked, LoadedPcs
<1>2. /\ job'[p] = j
      /\ pc'[p] = IF j.page = "adduser" \/ j.alt THEN "owner" ELSE "load"
  BY <1>1 DEF Run, StateOK
<1>3. /\ Only(p) /\ me'[p] = None /\ arg'[p] = None
      /\ jobs' \in Nat /\ faults' \in Nat
  BY <1>1, <1>2 DEF Run, StateOK, Only, Pcs, Answers
<1>4. /\ UNCHANGED <<owner, prncpl, proxy>>
      /\ schema' = IF schema = "absent" /\ j.page = "adduser" THEN "empty" ELSE schema
      /\ overtaken' = overtaken \ {p}
  BY <1>2 DEF Run, db_init
<1>5. StateOK'
  BY <1>1, <1>3, <1>4 DEF StateOK, Only
<1>6. pc'[p] \in {"owner", "load"}
  BY <1>2
<1>7. StageOK'
  <2>1. StageOf(j, None, None, pc'[p])
    BY <1>2, <1>6 DEF StageOf, Claiming, Making, LoadedPcs
  <2>2. QED
    BY <1>2, <1>3, <2>1, StageKept DEF RowsSound
<1>8. ManagerOK'
  <2>1. ~ (/\ pc'[p] \notin {"idle"} \cup Claiming
           /\ job'[p].page = "adduser" \/ job'[p].alt)
    BY <1>2 DEF Claiming
  <2>2. QED
    BY <1>3, <1>4, <2>1, ManagerKept DEF RowsSound
<1>9. SchemaOK'
  BY <1>3, <1>4, <1>6 DEF RowsSound, SchemaOK, Only, Making
<1>10. NamesUnique' /\ LoadedOK' /\ ActOK'
  BY <1>3, <1>4, <1>6, RowsKept DEF RowsSound, LoadedPcs
<1>11. QED
  BY <1>5, <1>7, <1>8, <1>9, <1>10 DEF RowsSound

LEMMA StartInv ==
  ASSUME RowsSound, NEW p \in Procs, Start(p)
  PROVE  RowsSound'
<1>0. Root \in Uids
  BY AccountsAssumption
<1>1. CASE StartAdduser(p)
  <2>1. PICK uid \in Uids, user \in Users, new \in Hashes, mail \in Mails :
           /\ job' = [job EXCEPT ![p] = [Asks("adduser", user)
                        EXCEPT !.uid = uid, !.new = new, !.email = mail]]
           /\ Run(p)
    BY <1>1 DEF StartAdduser
  <2>2. Asked([Asks("adduser", user) EXCEPT !.uid = uid, !.new = new, !.email = mail])
    BY DEF Asked, Asks, Job, Pages
  <2>3. QED
    BY <2>1, <2>2, RunInv DEF Start
<1>2. CASE StartPasswd(p)
  <2>1. PICK user \in Users, old \in Hashes, new \in Hashes \cup {None},
             mail \in Mails \cup {None} :
           /\ job' = [job EXCEPT ![p] = [Asks("passwd", user)
                        EXCEPT !.hash = old, !.new = new, !.email = mail]]
           /\ Run(p)
    BY <1>2 DEF StartPasswd
  <2>2. Asked([Asks("passwd", user) EXCEPT !.hash = old, !.new = new, !.email = mail])
    BY <1>0 DEF Asked, Asks, Job, Pages
  <2>3. QED
    BY <2>1, <2>2, RunInv DEF Start
<1>3. CASE StartAltuser(p)
  <2>1. PICK uid \in Uids, user \in Users, new \in Hashes \cup {None},
             mail \in Mails \cup {None} :
           /\ job' = [job EXCEPT ![p] = [Asks("passwd", user)
                 EXCEPT !.alt = TRUE, !.uid = uid, !.new = new, !.email = mail]]
           /\ Run(p)
    BY <1>3 DEF StartAltuser
  <2>2. Asked([Asks("passwd", user)
                 EXCEPT !.alt = TRUE, !.uid = uid, !.new = new, !.email = mail])
    BY DEF Asked, Asks, Job, Pages
  <2>3. QED
    BY <2>1, <2>2, RunInv DEF Start
<1>4. CASE StartSetpass(p)
  <2>1. PICK user \in Users, h \in Hashes, new \in Hashes :
           /\ job' = [job EXCEPT ![p] =
                        [Asks("setpass", user) EXCEPT !.hash = h, !.new = new]]
           /\ Run(p)
    BY <1>4 DEF StartSetpass
  <2>2. Asked([Asks("setpass", user) EXCEPT !.hash = h, !.new = new])
    BY <1>0 DEF Asked, Asks, Job, Pages
  <2>3. QED
    BY <2>1, <2>2, RunInv DEF Start
<1>5. CASE StartSetemail(p)
  <2>1. PICK user \in Users, h \in Hashes, mail \in Mails :
           /\ job' = [job EXCEPT ![p] =
                        [Asks("setemail", user) EXCEPT !.hash = h, !.email = mail]]
           /\ Run(p)
    BY <1>5 DEF StartSetemail
  <2>2. Asked([Asks("setemail", user) EXCEPT !.hash = h, !.email = mail])
    BY <1>0 DEF Asked, Asks, Job, Pages
  <2>3. QED
    BY <2>1, <2>2, RunInv DEF Start
<1>6. CASE StartModproxy(p)
  <2>1. PICK user \in Users, h \in Hashes, mail \in Mails, bits \in {READ, WRITE} :
           /\ job' = [job EXCEPT ![p] = [Asks("modproxy", user)
                        EXCEPT !.hash = h, !.email = mail, !.bits = bits]]
           /\ Run(p)
    BY <1>6 DEF StartModproxy
  <2>2. Asked([Asks("modproxy", user) EXCEPT !.hash = h, !.email = mail, !.bits = bits])
    BY <1>0 DEF Asked, Asks, Job, Pages
  <2>3. QED
    BY <2>1, <2>2, RunInv DEF Start
<1>7. CASE StartDelproxy(p)
  <2>1. PICK user \in Users, h \in Hashes, mail \in Mails :
           /\ job' = [job EXCEPT ![p] =
                        [Asks("delproxy", user) EXCEPT !.hash = h, !.email = mail]]
           /\ Run(p)
    BY <1>7 DEF StartDelproxy
  <2>2. Asked([Asks("delproxy", user) EXCEPT !.hash = h, !.email = mail])
    BY <1>0 DEF Asked, Asks, Job, Pages
  <2>3. QED
    BY <2>1, <2>2, RunInv DEF Start
<1>8. CASE StartMethod(p)
  <2>1. PICK user \in Users, other \in Users, h \in Hashes, write \in BOOLEAN :
           /\ job' = [job EXCEPT ![p] = [Asks("method", user)
                        EXCEPT !.hash = h, !.other = other, !.write = write]]
           /\ Run(p)
    BY <1>8 DEF StartMethod
  <2>2. Asked([Asks("method", user) EXCEPT !.hash = h, !.other = other, !.write = write])
    BY <1>0 DEF Asked, Asks, Job, Pages
  <2>3. QED
    BY <2>1, <2>2, RunInv DEF Start
<1>9. QED
  BY <1>1, <1>2, <1>3, <1>4, <1>5, <1>6, <1>7, <1>8 DEF Start

-----------------------------------------------------------------------------
(* db_owner_check_or_set: the rows of principals are left alone.           *)
LEMMA ClaimInv ==
  ASSUME RowsSound, NEW p \in Procs, Only(p), pc[p] \in Claiming,
         pc'[p] \in Claiming \cup {"create", "load"},
         job'[p] = job[p], me'[p] = me[p], arg'[p] = arg[p],
         UNCHANGED <<prncpl, proxy, overtaken>>, jobs' \in Nat, faults' \in Nat,
         schema' \in {"absent", "empty", "partial", "full"},
         owner' \in Uids \cup {None}, owner' = owner \/ owner = None, SchemaOK',
         pc'[p] \notin Claiming =>
           /\ pc'[p] = AfterOwner(p)
           /\ owner' # None /\ (job[p].uid = Root \/ job[p].uid = owner')
  PROVE  RowsSound'
<1>1. StateOK'
  BY DEF RowsSound, StateOK, Only
<1>2. /\ Asked(job[p]) /\ me[p] = None /\ arg[p] = None
      /\ job[p].page = "adduser" \/ job[p].alt
  BY DEF RowsSound, StageOK, StageOf, Claiming, Making, LoadedPcs
<1>3. StageOK'
  <2>1. pc'[p] = "create" => job[p].page = "adduser"
    BY DEF AfterOwner, Claiming, Making
  <2>2. pc'[p] = "load" => job[p].page # "adduser"
    BY DEF AfterOwner, Claiming, Making
  <2>3. StageOf(job[p], None, None, pc'[p])
    BY <1>2, <2>1, <2>2 DEF StageOf, Claiming, Making, LoadedPcs
  <2>4. QED
    BY <1>2, <2>3, StageKept DEF RowsSound
<1>4. ManagerOK'
  <2>1. (MayManage(job[p].uid))' <=> job[p].uid = Root \/ job[p].uid = owner'
    BY DEF MayManage
  <2>2. QED
    BY <2>1, ManagerKept DEF RowsSound
<1>5. NamesUnique' /\ LoadedOK' /\ ActOK'
  BY RowsKept DEF RowsSound, Claiming, Making, LoadedPcs
<1>6. QED
  BY <1>1, <1>3, <1>4, <1>5 DEF RowsSound

LEMMA OwnerGetInv ==
  ASSUME RowsSound, NEW p \in Procs, owner_get(p)
  PROVE  RowsSound'
<1>1. /\ StateOK /\ UNCHANGED <<tables, overtaken>> /\ UNCHANGED <<jobs, faults>>
      /\ pc[p] = "owner" /\ jobs' \in Nat /\ faults' \in Nat
  BY DEF owner_get, bounds, RowsSound, StateOK
<1>2. ASSUME NEW a \in Answers, Reply(p, a)
      PROVE  RowsSound'
  BY <1>1, <1>2, ReplyInv
<1>3. ASSUME NEW label \in {"schema", "create", "load"}, Goto(p, label),
             label # "schema" => /\ label = AfterOwner(p)
                                 /\ owner # None /\ MayManage(job[p].uid)
      PROVE  RowsSound'
  <2>1. /\ Only(p) /\ pc'[p] = label
        /\ job'[p] = job[p] /\ me'[p] = me[p] /\ arg'[p] = arg[p]
    BY <1>1, <1>3, GotoMoves DEF Pcs
  <2>2. SchemaOK'
    BY <1>1, <2>1 DEF RowsSound, SchemaOK, Only, tables, Making
  <2>3. QED
    BY <1>1, <1>3, <2>1, <2>2, ClaimInv
       DEF StateOK, tables, Claiming, Making, MayManage
<1>4. QED
  BY <1>2, <1>3 DEF owner_get, Answers, AfterOwner

LEMMA SchemaBeginInv ==
  ASSUME RowsSound, NEW p \in Procs, schema_begin(p)
  PROVE  RowsSound'
<1>1. /\ StateOK /\ UNCHANGED <<owner, prncpl, proxy, overtaken, jobs, faults>>
      /\ pc[p] = "schema" /\ jobs' \in Nat /\ faults' \in Nat
  BY DEF schema_begin, bounds, RowsSound, StateOK
<1>2. CASE schema # "empty"
  BY <1>1, <1>2, ReplyInv DEF schema_begin, tables, Answers
<1>3. CASE schema = "empty"
  <2>1. /\ Only(p) /\ pc'[p] = "tables" /\ schema' = "partial"
        /\ job'[p] = job[p] /\ me'[p] = me[p] /\ arg'[p] = arg[p]
    BY <1>1, <1>3, GotoMoves DEF Pcs, schema_begin
  <2>2. SchemaOK'
    BY <1>1, <1>3, <2>1 DEF RowsSound, SchemaOK, Only, Making
  <2>3. QED
    BY <1>1, <2>1, <2>2, ClaimInv DEF StateOK, Claiming, Making
<1>4. QED
  BY <1>2, <1>3

LEMMA SchemaEndInv ==
  ASSUME RowsSound, NEW p \in Procs, schema_end(p)
  PROVE  RowsSound'
<1>1. /\ StateOK /\ UNCHANGED <<owner, prncpl, proxy, overtaken, jobs, faults>>
      /\ pc[p] = "tables" /\ jobs' \in Nat /\ faults' \in Nat
  BY DEF schema_end, bounds, RowsSound, StateOK
<1>2. /\ Only(p) /\ pc'[p] = "setowner" /\ schema' = "full"
      /\ job'[p] = job[p] /\ me'[p] = me[p] /\ arg'[p] = arg[p]
  BY <1>1, GotoMoves DEF Pcs, schema_end
<1>3. SchemaOK'
  BY <1>1, <1>2 DEF RowsSound, SchemaOK, Only, Making
<1>4. QED
  BY <1>1, <1>2, <1>3, ClaimInv DEF StateOK, Claiming, Making

LEMMA OwnerInsertInv ==
  ASSUME RowsSound, NEW p \in Procs, owner_insert(p)
  PROVE  RowsSound'
<1>1. /\ StateOK /\ UNCHANGED <<schema, prncpl, proxy, overtaken, jobs, faults>>
      /\ pc[p] = "setowner" /\ jobs' \in Nat /\ faults' \in Nat
      /\ schema = "full" /\ owner = None
  BY DEF owner_insert, bounds, RowsSound, StateOK, SchemaOK
<1>2. /\ owner' = job[p].uid /\ job[p] \in Job
  BY <1>1 DEF owner_insert, RowsSound, StageOK, StageOf, Asked
<1>3. /\ Only(p) /\ pc'[p] = AfterOwner(p) /\ AfterOwner(p) \in {"create", "load"}
      /\ job'[p] = job[p] /\ me'[p] = me[p] /\ arg'[p] = arg[p]
  BY <1>1, GotoMoves DEF Pcs, owner_insert, AfterOwner
<1>4. job[p].uid \in Uids /\ job[p].uid # None
  BY <1>2, AccountsAssumption DEF Job
<1>5. SchemaOK'
  BY <1>1, <1>2, <1>3 DEF RowsSound, SchemaOK, Only, Making
<1>6. QED
  BY <1>1, <1>2, <1>3, <1>4, <1>5, ClaimInv DEF StateOK, Claiming, Making

LEMMA SchemaBusyInv ==
  ASSUME RowsSound, NEW p \in Procs, SchemaBusy(p)
  PROVE  RowsSound'
<1>1. /\ StateOK /\ UNCHANGED <<tables, overtaken, jobs>>
      /\ pc[p] = "tables" /\ jobs' \in Nat /\ faults' \in Nat
  BY DEF SchemaBusy, Fault, bounds, RowsSound, StateOK
<1>2. /\ Only(p) /\ pc'[p] = "schema"
      /\ job'[p] = job[p] /\ me'[p] = me[p] /\ arg'[p] = arg[p]
  BY <1>1, GotoMoves DEF Pcs, SchemaBusy
<1>3. SchemaOK'
  BY <1>1, <1>2 DEF RowsSound, SchemaOK, Only, Making, tables
<1>4. QED
  BY <1>1, <1>2, <1>3, ClaimInv DEF StateOK, Claiming, Making, tables

-----------------------------------------------------------------------------
(* The principals: no statement renames or removes one.                    *)
LEMMA PrncplNewInv ==
  ASSUME RowsSound, NEW p \in Procs, db_prncpl_new(p)
  PROVE  RowsSound'
<1> DEFINE row == [name |-> job[p].user, hash |-> job[p].new, email |-> job[p].email]
<1>1. /\ StateOK /\ UNCHANGED <<schema, owner, proxy, overtaken, jobs, faults>>
      /\ pc[p] = "create" /\ jobs' \in Nat /\ faults' \in Nat
  BY DEF db_prncpl_new, bounds, RowsSound, StateOK
<1>2. CASE InsertViolates(row)
  BY <1>1, <1>2, ReplyInv DEF db_prncpl_new, tables, Answers
<1>3. CASE ~ InsertViolates(row)
  <2>1. /\ \E i \in Ids : prncpl[i] = None
        /\ prncpl' = [prncpl EXCEPT ![FreeId] = row] /\ Reply(p, "done")
    BY <1>3 DEF db_prncpl_new
  <2>2. FreeId \in Ids /\ prncpl[FreeId] = None
    BY <2>1, FreeIdLemma
  <2>3. Only(p) /\ Ends(p)
    BY <1>1, <2>1, ReplyEnds DEF Answers
  <2>4. row \in Prncpl /\ row # None
    BY <1>1, AccountsAssumption
       DEF RowsSound, StageOK, StageOf, Asked, Job, Prncpl
  <2>5. /\ \A i \in Ids : prncpl'[i] = IF i = FreeId THEN row ELSE prncpl[i]
        /\ prncpl' \in [Ids -> Prncpl \cup {None}]
    BY <1>1, <2>1, <2>2, <2>4 DEF StateOK
  <2>6. \A i \in Ids : prncpl[i] # None => prncpl[i].name # row.name
    BY <1>3 DEF InsertViolates, Named
  <2>7. StateOK'
    BY <1>1, <2>3, <2>5 DEF StateOK, Only
  <2>8. StageOK' /\ ManagerOK' /\ SchemaOK'
    BY <1>1, <2>3, EndsKept
  <2>9. NamesUnique'
    BY <2>4, <2>5, <2>6 DEF RowsSound, NamesUnique
  <2>10. ASSUME NEW q \in Procs, pc'[q] # "idle"
         PROVE  /\ q # p /\ pc'[q] = pc[q] /\ job'[q] = job[q] /\ me'[q] = me[q]
                /\ arg'[q] = arg[q]
    BY <2>3, <2>10 DEF Only, Ends
  <2>11. LoadedOK'
    <3> SUFFICES ASSUME NEW q \in Procs, pc'[q] \in LoadedPcs
                 PROVE  /\ prncpl'[me'[q].id] # None
                        /\ prncpl'[me'[q].id].name = me'[q].name
      BY DEF LoadedOK
    <3>1. pc[q] \in LoadedPcs /\ me'[q] = me[q]
      BY <2>10 DEF LoadedPcs
    <3>2. me[q].id \in Ids
      BY <3>1 DEF RowsSound, StageOK, StageOf, Loaded
    <3>3. prncpl[me[q].id] # None /\ prncpl[me[q].id].name = me[q].name
      BY <3>1 DEF RowsSound, LoadedOK
    <3>4. QED
      BY <2>2, <2>5, <3>1, <3>2, <3>3
  <2>12. ActOK'
    <3>1. ASSUME NEW q \in Procs, pc'[q] = "act"
          PROVE  Named(job[q].other)' = Named(job[q].other)
      <4>1. q # p /\ pc[q] = "act" /\ job'[q] = job[q]
        BY <2>10, <3>1
      <4>2. PICK i \in Ids : prncpl[i] # None /\ prncpl[i].name = job[q].other
        BY <4>1 DEF RowsSound, ActOK, Named
      <4>3. row.name # job[q].other
        BY <2>6, <4>2
      <4>4. QED
        BY <2>2, <2>5, <4>1, <4>3 DEF Named
    <3>2. QED
      BY <1>1, <2>10, <3>1 DEF RowsSound, ActOK
  <2>13. QED
    BY <2>7, <2>8, <2>9, <2>11, <2>12 DEF RowsSound
<1>4. QED
  BY <1>2, <1>3

LEMMA PrncplUpdateInv ==
  ASSUME RowsSound, NEW p \in Procs, db_prncpl_update(p)
  PROVE  RowsSound'
<1> DEFINE i == me[p].id
<1>1. /\ StateOK /\ UNCHANGED <<schema, owner, proxy, overtaken, jobs, faults>>
      /\ pc[p] = "update" /\ jobs' \in Nat /\ faults' \in Nat
  BY DEF db_prncpl_update, bounds, RowsSound, StateOK
<1>2. CASE UpdateViolates(i, Changed(p))
  BY <1>1, <1>2, ReplyInv DEF db_prncpl_update, tables, Answers
<1>3. CASE ~ UpdateViolates(i, Changed(p))
  <2>1. prncpl' = [prncpl EXCEPT ![i] = Changed(p)] /\ Reply(p, "done")
    BY <1>3 DEF db_prncpl_update
  <2>2. Only(p) /\ Ends(p)
    BY <1>1, <2>1, ReplyEnds DEF Answers
  <2>3. /\ me[p] \in Loaded /\ job[p] \in Job /\ i \in Ids
        /\ prncpl[i] # None /\ prncpl[i].name = me[p].name
    BY <1>1 DEF RowsSound, StageOK, StageOf, Asked, LoadedOK, Loaded, LoadedPcs
  <2>4. Changed(p) \in Prncpl /\ Changed(p) # None /\ Changed(p).name = me[p].name
    BY <2>3, AccountsAssumption DEF Changed, Prncpl, Loaded, Job
  <2>5. /\ \A k \in Ids : prncpl'[k] = IF k = i THEN Changed(p) ELSE prncpl[k]
        /\ prncpl' \in [Ids -> Prncpl \cup {None}]
    BY <1>1, <2>1, <2>3, <2>4 DEF StateOK
  <2>6. \A k \in Ids : /\ prncpl'[k] # None <=> prncpl[k] # None
                       /\ prncpl[k] # None => prncpl'[k].name = prncpl[k].name
    BY <2>3, <2>4, <2>5
  <2>7. StateOK'
    BY <1>1, <2>2, <2>5 DEF StateOK, Only
  <2>8. StageOK' /\ ManagerOK' /\ SchemaOK'
    BY <1>1, <2>2, EndsKept
  <2>9. NamesUnique'
    BY <2>6 DEF RowsSound, NamesUnique
  <2>10. ASSUME NEW q \in Procs, pc'[q] # "idle"
         PROVE  /\ q # p /\ pc'[q] = pc[q] /\ job'[q] = job[q] /\ me'[q] = me[q]
                /\ arg'[q] = arg[q]
    BY <2>2, <2>10 DEF Only, Ends
  <2>11. LoadedOK'
    <3> SUFFICES ASSUME NEW q \in Procs, pc'[q] \in LoadedPcs
                 PROVE  /\ prncpl'[me'[q].id] # None
                        /\ prncpl'[me'[q].id].name = me'[q].name
      BY DEF LoadedOK
    <3>1. pc[q] \in LoadedPcs /\ me'[q] = me[q]
      BY <2>10 DEF LoadedPcs
    <3>2. me[q].id \in Ids
      BY <3>1 DEF RowsSound, StageOK, StageOf, Loaded
    <3>3. prncpl[me[q].id] # None /\ prncpl[me[q].id].name = me[q].name
      BY <3>1 DEF RowsSound, LoadedOK
    <3>4. QED
      BY <2>6, <3>1, <3>2, <3>3
  <2>12. ActOK'
    <3>1. \A user : Named(user)' = Named(user)
      BY <2>6 DEF Named
    <3>2. ASSUME NEW q \in Procs
          PROVE  Named(job[q].other)' = Named(job'[q].other)
      BY <3>1, <2>6 DEF Named
    <3>3. QED
      BY <1>1, <2>10, <3>2 DEF RowsSound, ActOK
  <2>13. QED
    BY <2>7, <2>8, <2>9, <2>11, <2>12 DEF RowsSound
<1>4. QED
  BY <1>2, <1>3

(* What follows the loading of the principal, page by page.                *)
LEMMA RoutineLemma ==
  ASSUME NEW j
  PROVE  /\ j.page \in {"modproxy", "delproxy"} => Routine(j) = "identify"
         /\ j.page = "method" /\ j.other = j.user => Routine(j) = "act"
         /\ j.page = "method" /\ j.other # j.user => Routine(j) = "target"
         /\ j.page \notin {"modproxy", "delproxy", "method"} => Routine(j) = "update"
BY DEF Routine

LEMMA PrncplLoadInv ==
  ASSUME RowsSound, NEW p \in Procs, db_prncpl_load(p)
  PROVE  RowsSound'
<1>1. /\ StateOK /\ UNCHANGED <<tables, overtaken>> /\ UNCHANGED <<jobs, faults>>
      /\ pc[p] = "load" /\ jobs' \in Nat /\ faults' \in Nat
  BY DEF db_prncpl_load, bounds, RowsSound, StateOK
<1>2. ASSUME NEW a \in Answers, Reply(p, a)
      PROVE  RowsSound'
  BY <1>1, <1>2, ReplyInv
<1>3. ASSUME NEW i \in Named(job[p].user), Authentic(p, prncpl[i]),
             me' = [me EXCEPT ![p] = [id |-> i, name |-> prncpl[i].name,
                           hash |-> prncpl[i].hash, email |-> prncpl[i].email]],
             pc' = [pc EXCEPT ![p] = Routine(job[p])],
             UNCHANGED <<job, arg, answer>>
      PROVE  RowsSound'
  <2> DEFINE row == [id |-> i, name |-> prncpl[i].name,
                     hash |-> prncpl[i].hash, email |-> prncpl[i].email]
             j   == job[p]
  <2>1. i \in Ids /\ prncpl[i] # None /\ prncpl[i].name = j.user
    BY DEF Named
  <2>2. prncpl[i] \in Prncpl
    BY <1>1, <2>1 DEF StateOK
  <2>3. row \in Loaded
    BY <2>1, <2>2 DEF Prncpl, Loaded
  <2>4. Asked(j) /\ j.page # "adduser" /\ arg[p] = None
    BY <1>1 DEF RowsSound, StageOK, StageOf
  <2>5. j.page \in Pages \cup {"passwd"}
    BY <2>4 DEF Asked, Job
  <2>6. \/ j.page \in Changers /\ Routine(j) = "update"
        \/ j.page \in {"modproxy", "delproxy"} /\ Routine(j) = "identify"
        \/ j.page = "method" /\ j.other = j.user /\ Routine(j) = "act"
        \/ j.page = "method" /\ Routine(j) = "target"
    BY <2>5, RoutineLemma DEF Pages, Changers
  <2>7. /\ me'[p] = row /\ pc'[p] = Routine(j) /\ job'[p] = j /\ arg'[p] = None
        /\ Only(p)
    <3>1. Routine(j) \in Pcs
      BY <2>6 DEF Pcs
    <3>2. QED
      BY <1>1, <1>3, <2>3, <2>4, <3>1 DEF StateOK, Only
  <2>8. StageOf(j, row, None, Routine(j))
    <3>1. j.alt \/ row.hash = j.hash
      BY <1>3 DEF Authentic
    <3>2. j.page \in {"modproxy", "delproxy", "method"} => ~ j.alt
      BY <2>4 DEF Asked
    <3>3. Routine(j) \in {"update", "identify", "target", "act"}
      BY <2>6
    <3>4. /\ Routine(j) = "update" => j.page \in Changers
          /\ Routine(j) = "identify" => j.page \in {"modproxy", "delproxy"}
          /\ Routine(j) \in {"target", "act"} => j.page = "method"
      BY <2>6
    <3>5. QED
      BY <2>1, <2>3, <2>4, <3>1, <3>3, <3>4
         DEF StageOf, Claiming, Making, LoadedPcs
  <2>9. j.alt => owner # None /\ MayManage(j.uid)
    BY <1>1 DEF RowsSound, ManagerOK, Claiming, Making
  <2>10. Routine(j) = "act" => \A k \in Named(j.other) : k = i
    BY <2>1, <2>6 DEF RowsSound, NamesUnique, Named
  <2>11. Routine(j) = "act" => i \in Named(j.other)
    BY <2>1, <2>6 DEF Named
  <2>12. QED
    BY <1>1, <2>1, <2>4, <2>6, <2>7, <2>8, <2>9, <2>10, <2>11, AdvanceInv DEF Making
<1>4. QED
  BY <1>2, <1>3 DEF db_prncpl_load, Answers

-----------------------------------------------------------------------------
(* The proxies.                                                            *)
LEMMA IdentifyInv ==
  ASSUME RowsSound, NEW p \in Procs, identify(p)
  PROVE  RowsSound'
<1> DEFINE is == Bearing(job[p].email)
           allowed == is \ IF job[p].page = "modproxy" THEN {me[p].id} ELSE {}
           label == IF job[p].page = "modproxy" THEN "db_proxy" ELSE "db_proxy_remove"
<1>1. /\ StateOK /\ UNCHANGED <<tables, overtaken>> /\ UNCHANGED <<jobs, faults>>
      /\ pc[p] = "identify" /\ jobs' \in Nat /\ faults' \in Nat
  BY DEF identify, bounds, RowsSound, StateOK
<1>2. CASE allowed = {}
  BY <1>1, <1>2, ReplyInv DEF identify, Answers
<1>3. CASE allowed # {}
  <2>1. PICK i \in allowed : /\ arg' = [arg EXCEPT ![p] = i]
                             /\ pc' = [pc EXCEPT ![p] = label]
                             /\ UNCHANGED <<job, me, answer>>
    BY <1>3 DEF identify
  <2>2. i \in Ids /\ (job[p].page = "modproxy" => i # me[p].id)
    BY <2>1 DEF Bearing
  <2>3. /\ Only(p) /\ arg'[p] = i /\ pc'[p] = label
        /\ job'[p] = job[p] /\ me'[p] = me[p]
    BY <1>1, <2>1, <2>2 DEF StateOK, Only, Pcs
  <2>4. /\ Asked(job[p]) /\ job[p].page \in {"modproxy", "delproxy"}
        /\ me[p] \in Loaded /\ me[p].name = job[p].user
        /\ job[p].alt \/ me[p].hash = job[p].hash
    BY <1>1 DEF RowsSound, StageOK, StageOf, LoadedPcs
  <2>5. StageOf(job[p], me[p], i, label)
    BY <2>2, <2>4 DEF StageOf, Claiming, Making, LoadedPcs
  <2>6. ~ job[p].alt
    BY <2>4 DEF Asked
  <2>7. prncpl[me[p].id] # None /\ prncpl[me[p].id].name = me[p].name
    BY <1>1 DEF RowsSound, LoadedOK, LoadedPcs
  <2>8. QED
    BY <1>1, <2>3, <2>4, <2>5, <2>6, <2>7, AdvanceInv DEF Making
<1>4. QED
  BY <1>2, <1>3

(* A right changes: those it overtakes are marked.                         *)
LEMMA SetRightInv ==
  ASSUME RowsSound, NEW p \in Procs, NEW bits \in Bits,
         pc[p] \in {"db_proxy", "db_proxy_remove"},
         SetRight(me[p].id, arg[p], bits), Reply(p, "done"),
         UNCHANGED <<schema, owner, prncpl, jobs, faults>>
  PROVE  RowsSound'
<1> DEFINE i == me[p].id
           j == arg[p]
<1>1. StateOK /\ i \in Ids /\ j \in Ids
  BY DEF RowsSound, StageOK, StageOf, Loaded, LoadedPcs
<1>2. Only(p) /\ Ends(p)
  BY <1>1, ReplyEnds DEF Answers
<1>3. /\ \A k, l \in Ids : proxy'[k][l] = IF k = i /\ l = j THEN bits ELSE proxy[k][l]
      /\ proxy' \in [Ids -> [Ids -> Bits]]
  BY <1>1 DEF SetRight, StateOK
<1>4. overtaken \subseteq overtaken' /\ overtaken' \subseteq Procs
  BY <1>1 DEF SetRight, StateOK
<1>5. StateOK'
  BY <1>1, <1>2, <1>3, <1>4 DEF StateOK, Only
<1>6. StageOK' /\ ManagerOK' /\ SchemaOK'
  BY <1>2, EndsKept
<1>7. NamesUnique'
  BY DEF RowsSound, NamesUnique
<1>8. ASSUME NEW q \in Procs, pc'[q] # "idle"
      PROVE  /\ q # p /\ pc'[q] = pc[q] /\ job'[q] = job[q] /\ me'[q] = me[q]
             /\ arg'[q] = arg[q]
  BY <1>2, <1>8 DEF Only, Ends
<1>9. LoadedOK'
  BY <1>8 DEF RowsSound, LoadedOK, LoadedPcs
<1>10. ActOK'
  <2> SUFFICES ASSUME NEW q \in Procs, pc'[q] = "act"
               PROVE
        /\ Named(job[q].other) # {}
        /\ \A k \in Named(job[q].other) \ {me[q].id} :
             q \in overtaken' \/ (/\ arg[q] = proxy'[k][me[q].id]
                                 /\ Suffices(arg[q], job[q].write))
        /\ arg[q] = None => \A k \in Named(job[q].other) : k = me[q].id
    BY <1>8 DEF ActOK, Suffices, Named
  <2>1. pc[q] = "act"
    BY <1>8
  <2>2. me[q].id \in Ids
    BY <2>1 DEF RowsSound, StageOK, StageOf, Loaded, LoadedPcs
  <2>3. ASSUME NEW k \in Named(job[q].other) \ {me[q].id}, q \notin overtaken'
        PROVE  arg[q] = proxy'[k][me[q].id] /\ Suffices(arg[q], job[q].write)
    <3>1. k \in Ids /\ q \notin overtaken
      BY <1>4, <2>3 DEF Named
    <3>2. /\ arg[q] = proxy[k][me[q].id] /\ Suffices(arg[q], job[q].write)
          /\ arg[q] # None
      BY <2>1, <2>3, <3>1 DEF RowsSound, ActOK
    <3>3. CASE k = i /\ me[q].id = j
      <4>1. proxy[i][j] = bits
        BY <1>1, <2>1, <2>3, <3>2, <3>3 DEF SetRight
      <4>2. QED
        BY <1>3, <2>2, <3>1, <3>2, <3>3, <4>1
    <3>4. CASE ~ (k = i /\ me[q].id = j)
      BY <1>3, <2>2, <3>1, <3>2, <3>4
    <3>5. QED
      BY <3>3, <3>4
  <2>4. QED
    BY <2>1, <2>3 DEF RowsSound, ActOK
<1>11. QED
  BY <1>5, <1>6, <1>7, <1>9, <1>10 DEF RowsSound

LEMMA ProxyInv ==
  ASSUME RowsSound, NEW p \in Procs, db_proxy(p) \/ db_proxy_remove(p)
  PROVE  RowsSound'
<1>1. CASE db_proxy(p)
  <2>1. job[p].bits \in Bits
    BY <1>1 DEF db_proxy, RowsSound, StageOK, StageOf, Asked, Job, Bits, READ, WRITE
  <2>2. QED
    BY <1>1, <2>1, SetRightInv DEF db_proxy, bounds
<1>2. CASE db_proxy_remove(p)
  BY <1>2, SetRightInv DEF db_proxy_remove, bounds, Bits
<1>3. QED
  BY <1>1, <1>2

LEMMA ProxyCheckInv ==
  ASSUME RowsSound, NEW p \in Procs, proxy_check(p)
  PROVE  RowsSound'
<1>1. /\ StateOK /\ UNCHANGED <<tables, overtaken>> /\ UNCHANGED <<jobs, faults>>
      /\ pc[p] = "target" /\ jobs' \in Nat /\ faults' \in Nat
  BY DEF proxy_check, bounds, RowsSound, StateOK
<1>2. ASSUME NEW a \in Answers, Reply(p, a)
      PROVE  RowsSound'
  BY <1>1, <1>2, ReplyInv
<1>3. ASSUME NEW i \in Named(job[p].other),
             Suffices(proxy[i][me[p].id], job[p].write),
             arg' = [arg EXCEPT ![p] = proxy[i][me[p].id]],
             pc' = [pc EXCEPT ![p] = "act"], UNCHANGED <<job, me, answer>>
      PROVE  RowsSound'
  <2> DEFINE bits == proxy[i][me[p].id]
  <2>1. bits \in {READ, WRITE} /\ bits \in Bits /\ bits # None
    BY <1>3, AccountsAssumption DEF Suffices, READ, WRITE, Bits
  <2>2. /\ Only(p) /\ arg'[p] = bits /\ pc'[p] = "act"
        /\ job'[p] = job[p] /\ me'[p] = me[p]
    BY <1>1, <1>3, <2>1 DEF StateOK, Only, Pcs
  <2>3. /\ Asked(job[p]) /\ job[p].page = "method"
        /\ me[p] \in Loaded /\ me[p].name = job[p].user
        /\ job[p].alt \/ me[p].hash = job[p].hash
    BY <1>1 DEF RowsSound, StageOK, StageOf, LoadedPcs
  <2>4. StageOf(job[p], me[p], bits, "act")
    BY <2>1, <2>3 DEF StageOf, Claiming, Making, LoadedPcs
  <2>5. ~ job[p].alt
    BY <2>3 DEF Asked
  <2>6. prncpl[me[p].id] # None /\ prncpl[me[p].id].name = me[p].name
    BY <1>1 DEF RowsSound, LoadedOK, LoadedPcs
  <2>7. \A k \in Named(job[p].other) : k = i
    BY DEF RowsSound, NamesUnique, Named
  <2>8. QED
    BY <1>1, <1>3, <2>1, <2>2, <2>3, <2>4, <2>5, <2>6, <2>7, AdvanceInv DEF Making
<1>4. QED
  BY <1>2, <1>3 DEF proxy_check, Answers

-----------------------------------------------------------------------------
LEMMA BreakInv ==
  ASSUME RowsSound, NEW p \in Procs, Break(p)
  PROVE  RowsSound'
<1>1. CASE Crash(p)
  BY <1>1, ReplyInv DEF Crash, Fault, Answers, RowsSound, StateOK
<1>2. CASE StatementFails(p)
  BY <1>2, ReplyInv DEF StatementFails, Fault, Answers, RowsSound, StateOK
<1>3. CASE SchemaBusy(p)
  BY <1>3, SchemaBusyInv
<1>4. QED
  BY <1>1, <1>2, <1>3 DEF Break

LEMMA ServeInv ==
  ASSUME RowsSound, NEW p \in Procs, Serve(p)
  PROVE  RowsSound'
<1>1. CASE method(p)
  BY <1>1, ReplyInv DEF method, Answers, RowsSound, StateOK, bounds
<1>2. QED
  BY <1>1, OwnerGetInv, SchemaBeginInv, SchemaEndInv, OwnerInsertInv,
     PrncplNewInv, PrncplLoadInv, PrncplUpdateInv, IdentifyInv, ProxyInv,
     ProxyCheckInv
     DEF Serve

LEMMA NextInv ==
  ASSUME RowsSound, [Next]_vars
  PROVE  RowsSound'
<1>1. CASE UNCHANGED vars
  BY <1>1 DEF vars, RowsSound, StateOK, StageOK, ManagerOK, SchemaOK,
     NamesUnique, LoadedOK, ActOK, Named, Suffices, MayManage
<1>2. CASE Next
  BY <1>2, StartInv, ServeInv, BreakInv DEF Next
<1>3. QED
  BY <1>1, <1>2

LEMMA InitInv ==
  ASSUME Init
  PROVE  RowsSound
<1>1. \A p \in Procs : StageOf(None, None, None, "idle")
  BY AccountsAssumption DEF StageOf, Claiming, Making, LoadedPcs
<1>2. StageOK /\ ManagerOK /\ LoadedOK /\ ActOK
  BY <1>1 DEF Init, StageOK, ManagerOK, LoadedOK, ActOK, LoadedPcs
<1>3. SchemaOK
  BY AccountsAssumption DEF Init, SchemaOK, Making
<1>4. CASE schema = "absent"
  <2>1. owner = None /\ prncpl = [i \in Ids |-> None]
        /\ proxy = [i \in Ids |-> [j \in Ids |-> 0]]
    BY <1>4 DEF Init
  <2>2. StateOK
    BY <1>4, <2>1 DEF Init, StateOK, Pcs, Answers, Bits
  <2>3. NamesUnique
    BY <2>1 DEF NamesUnique
  <2>4. QED
    BY <1>2, <1>3, <2>2, <2>3 DEF RowsSound
<1>5. CASE schema = "full"
  <2>1. PICK first \in Prncpl, second \in Prncpl \cup {None}, bits \in Bits :
             /\ second = None => bits = 0
             /\ second # None => first.name # second.name /\ first.email # second.email
             /\ prncpl = [i \in Ids |-> CASE i = 1 -> first [] i = 2 -> second
                                          [] OTHER -> None]
             /\ proxy = [i \in Ids |-> [j \in Ids |-> IF i = 1 /\ j = 2 THEN bits ELSE 0]]
    BY <1>5 DEF Init
  <2>2. \A i \in Ids : prncpl[i] = CASE i = 1 -> first [] i = 2 -> second
                                     [] OTHER -> None
    BY <2>1
  <2>3. \A i \in Ids : /\ i = 1 => prncpl[i] = first
                       /\ i # 1 /\ i = 2 => prncpl[i] = second
                       /\ i # 1 /\ i # 2 => prncpl[i] = None
    BY <2>2
  <2>4. prncpl \in [Ids -> Prncpl \cup {None}]
    <3>1. \A i \in Ids : prncpl[i] \in Prncpl \cup {None}
      BY <2>1, <2>3
    <3>2. prncpl = [i \in Ids |-> prncpl[i]]
      BY <2>1
    <3>3. QED
      BY <3>1, <3>2
  <2>5. proxy \in [Ids -> [Ids -> Bits]]
    BY <2>1 DEF Bits
  <2>6. StateOK
    BY <1>5, <2>4, <2>5 DEF Init, StateOK, Pcs, Answers
  <2>7. NamesUnique
    BY <2>1, <2>3, AccountsAssumption DEF NamesUnique
  <2>8. QED
    BY <1>2, <1>3, <2>6, <2>7 DEF RowsSound
<1>6. QED
  BY <1>4, <1>5 DEF Init

THEOREM RowsInvariant == Spec => []RowsSound
<1>1. Init => RowsSound
  BY InitInv
<1>2. RowsSound /\ [Next]_vars => RowsSound'
  BY NextInv
<1>3. QED
  BY <1>1, <1>2, PTL DEF Spec

-----------------------------------------------------------------------------
(* Who bore the address that a right is given to.                          *)

(* What a step of p leads to: only identify leads to db_proxy, and only    *)
(* for one who bears the address now; the others stay.                     *)
ToProxy(p) ==
    /\ \A q \in Procs \ {p} : pc'[q] = pc[q] /\ job'[q] = job[q] /\ arg'[q] = arg[q]
    /\ pc'[p] = "db_proxy" =>
         /\ prncpl' = prncpl /\ job'[p] = job[p] /\ arg'[p] \in Ids
         /\ prncpl[arg'[p]] # None /\ prncpl[arg'[p]].email = job[p].email

LEMMA ReplyToProxy ==
  ASSUME StateOK, NEW p \in Procs, NEW a, Reply(p, a)
  PROVE  ToProxy(p)
BY DEF Reply, ToProxy, StateOK

LEMMA GotoToProxy ==
  ASSUME StateOK, NEW p \in Procs, NEW label, Goto(p, label), label # "db_proxy"
  PROVE  ToProxy(p)
BY DEF Goto, ToProxy, StateOK

LEMMA StepToProxy ==
  ASSUME StateOK, NEW p \in Procs, Start(p) \/ Serve(p) \/ Break(p)
  PROVE  ToProxy(p)
<1>1. /\ pc \in [Procs -> Pcs] /\ job \in [Procs -> Job \cup {None}]
      /\ arg \in [Procs -> Ids \cup Bits \cup {None}]
  BY DEF StateOK
<1>2. CASE Start(p)
  <2>1. Run(p) /\ \E j : job' = [job EXCEPT ![p] = j]
    BY <1>2 DEF Start, StartAdduser, StartPasswd, StartAltuser, StartSetpass,
       StartSetemail, StartModproxy, StartDelproxy, StartMethod
  <2>2. pc'[p] \in {"owner", "load"}
    BY <1>1, <2>1 DEF Run
  <2>3. QED
    BY <1>1, <2>1, <2>2 DEF ToProxy, Run
<1>3. CASE Break(p)
  BY <1>3, ReplyToProxy, GotoToProxy DEF Break, Crash, StatementFails, SchemaBusy
<1>4. CASE owner_get(p) \/ schema_begin(p) \/ schema_end(p) \/ owner_insert(p)
  BY <1>4, ReplyToProxy, GotoToProxy
     DEF owner_get, schema_begin, schema_end, owner_insert, AfterOwner
<1>5. CASE db_prncpl_new(p) \/ db_prncpl_update(p) \/ db_proxy(p) \/ db_proxy_remove(p)
           \/ method(p)
  BY <1>5, ReplyToProxy
     DEF db_prncpl_new, db_prncpl_update, db_proxy, db_proxy_remove, method
<1>6. CASE db_prncpl_load(p)
  <2>1. Routine(job[p]) # "db_proxy"
    BY DEF Routine
  <2>2. \/ Reply(p, "failed") \/ Reply(p, "refused")
        \/ pc' = [pc EXCEPT ![p] = Routine(job[p])] /\ job' = job /\ arg' = arg
    BY <1>6 DEF db_prncpl_load
  <2>3. QED
    BY <1>1, <2>1, <2>2, ReplyToProxy DEF ToProxy
<1>7. CASE proxy_check(p)
  <2>1. (\E a : Reply(p, a))
        \/ \E x : /\ pc' = [pc EXCEPT ![p] = "act"] /\ arg' = [arg EXCEPT ![p] = x]
                 /\ UNCHANGED job
    BY <1>7 DEF proxy_check
  <2>2. QED
    BY <1>1, <2>1, ReplyToProxy DEF ToProxy
<1>8. CASE identify(p)
  <2>1. prncpl' = prncpl
    BY <1>8 DEF identify, tables
  <2>2. (\E a : Reply(p, a))
        \/ \E i \in Bearing(job[p].email) :
             /\ arg' = [arg EXCEPT ![p] = i] /\ UNCHANGED job
             /\ \E label : pc' = [pc EXCEPT ![p] = label]
    BY <1>8 DEF identify
  <2>3. QED
    BY <1>1, <2>1, <2>2, ReplyToProxy DEF ToProxy, Bearing
<1>9. QED
  BY <1>2, <1>3, <1>4, <1>5, <1>6, <1>7, <1>8 DEF Serve

(* Whoever is found by the address joins those who bore it, and stays.     *)
LEMMA BearersInv ==
  ASSUME RowsSound, RowsSound', TypeOK, BearersOK, [Next]_vars
  PROVE  TypeOK' /\ BearersOK'
<1>1. CASE UNCHANGED vars
  BY <1>1 DEF vars, TypeOK, BearersOK, RowsSound
<1>2. CASE Next
  <2>1. PICK p \in Procs : (Start(p) \/ Serve(p) \/ Break(p)) /\ Noted
    BY <1>2 DEF Next
  <2>2. TypeOK'
    BY <2>1 DEF Noted, TypeOK, RowsSound
  <2>3. ToProxy(p)
    BY <2>1, StepToProxy DEF RowsSound
  <2>4. ASSUME NEW q \in Procs, pc'[q] = "db_proxy"
        PROVE  arg'[q] \in bore'[q]
    <3>1. job'[q].page = "modproxy"
      BY <2>4 DEF RowsSound, StageOK, StageOf
    <3>2. bore'[q] = {i \in Ids : prncpl'[i] # None /\ prncpl'[i].email = job'[q].email}
                     \cup IF pc[q] = "idle" THEN {} ELSE bore[q]
      BY <2>1, <2>4, <3>1 DEF Noted
    <3>3. CASE q = p
      BY <2>3, <2>4, <3>2, <3>3 DEF ToProxy
    <3>4. CASE q # p
      BY <2>3, <2>4, <3>2, <3>4 DEF ToProxy, BearersOK
    <3>5. QED
      BY <3>3, <3>4
  <2>5. QED
    BY <2>2, <2>4 DEF BearersOK
<1>3. QED
  BY <1>1, <1>2

(* What the accounts rely on holds in every state that can be reached.     *)
THEOREM Sound == Spec => []AccountsSound
<1>1. Init => TypeOK /\ BearersOK
  <2>1. Init => StateOK
    BY InitInv DEF RowsSound
  <2>2. QED
    BY <2>1 DEF Init, TypeOK, BearersOK
<1>2. TypeOK /\ BearersOK /\ RowsSound /\ RowsSound' /\ [Next]_vars
        => (TypeOK /\ BearersOK)'
  BY BearersInv
<1>3. RowsSound /\ TypeOK /\ BearersOK => AccountsSound
  BY DEF AccountsSound
<1>4. QED
  BY <1>1, <1>2, <1>3, RowsInvariant, PTL DEF Spec

(* Type correctness of the tables and of what each process holds.          *)
THEOREM TypesOK == Spec => []TypeOK
<1>1. AccountsSound => TypeOK
  BY DEF AccountsSound
<1>2. QED
  BY <1>1, Sound, PTL

-----------------------------------------------------------------------------
(* Which steps write which table.                                          *)
LEMMA WhoWrites ==
  ASSUME [Next]_vars
  PROVE  /\ UNCHANGED prncpl \/ \E p \in Procs : db_prncpl_new(p) \/ db_prncpl_update(p)
         /\ UNCHANGED owner \/ \E p \in Procs : owner_insert(p)
         /\ UNCHANGED proxy \/ \E p \in Procs : db_proxy(p) \/ db_proxy_remove(p)
<1>1. CASE UNCHANGED vars
  BY <1>1 DEF vars
<1>2. ASSUME NEW p \in Procs, Start(p)
      PROVE  UNCHANGED <<owner, prncpl, proxy>>
  BY <1>2 DEF Start, StartAdduser, StartPasswd, StartAltuser, StartSetpass,
     StartSetemail, StartModproxy, StartDelproxy, StartMethod, Run
<1>3. ASSUME NEW p \in Procs, Break(p)
      PROVE  UNCHANGED <<owner, prncpl, proxy>>
  BY <1>3 DEF Break, Crash, StatementFails, SchemaBusy, tables
<1>4. ASSUME NEW p \in Procs, Serve(p)
      PROVE  /\ UNCHANGED prncpl \/ db_prncpl_new(p) \/ db_prncpl_update(p)
             /\ UNCHANGED owner \/ owner_insert(p)
             /\ UNCHANGED proxy \/ db_proxy(p) \/ db_proxy_remove(p)
  <2>1. CASE owner_get(p) \/ db_prncpl_load(p) \/ identify(p) \/ proxy_check(p)
             \/ method(p)
    BY <2>1 DEF owner_get, db_prncpl_load, identify, proxy_check, method, tables
  <2>2. CASE schema_begin(p) \/ schema_end(p) \/ owner_insert(p)
    BY <2>2 DEF schema_begin, schema_end, owner_insert
  <2>3. CASE db_prncpl_new(p) \/ db_prncpl_update(p)
    BY <2>3 DEF db_prncpl_new, db_prncpl_update
  <2>4. CASE db_proxy(p) \/ db_proxy_remove(p)
    BY <2>4 DEF db_proxy, db_proxy_remove
  <2>5. QED
    BY <1>4, <2>1, <2>2, <2>3, <2>4 DEF Serve
<1>5. QED
  BY <1>1, <1>2, <1>3, <1>4 DEF Next

LEMMA ReplyMoves ==
  ASSUME StateOK, NEW p \in Procs, NEW a, Reply(p, a), pc[p] # "idle"
  PROVE  Moves(p)
BY DEF StateOK, Reply, Moves

(* Whoever races to create the database, it has one owner, for good, and   *)
(* only the owner or root adds principals.                                 *)
THEOREM OneOwner == Spec => OnlyOwnerCreates
<1>1. ASSUME RowsSound, [Next]_vars, owner # None
      PROVE  owner' = owner
  BY <1>1, WhoWrites DEF owner_insert, RowsSound, SchemaOK
<1>2. ASSUME RowsSound, [Next]_vars, NEW i \in Ids,
             prncpl[i] = None, prncpl'[i] # None
      PROVE  \E p \in Procs : /\ Moves(p) /\ job[p].page = "adduser"
                              /\ owner # None /\ MayManage(job[p].uid)
  <2>1. PICK p \in Procs : db_prncpl_new(p) \/ db_prncpl_update(p)
    BY <1>2, WhoWrites
  <2>2. CASE db_prncpl_update(p)
    <3>1. me[p].id \in Ids /\ prncpl[me[p].id] # None
      BY <1>2, <2>2
         DEF db_prncpl_update, RowsSound, LoadedOK, LoadedPcs, StageOK, StageOf, Loaded
    <3>2. prncpl'[i] = prncpl[i]
      BY <1>2, <2>2, <3>1 DEF db_prncpl_update, RowsSound, StateOK
    <3>3. QED
      BY <1>2, <3>2
  <2>3. CASE db_prncpl_new(p)
    <3>1. pc[p] = "create" /\ job[p].page = "adduser" /\ StateOK
      BY <1>2, <2>3 DEF db_prncpl_new, RowsSound, StageOK, StageOf
    <3>2. owner # None /\ MayManage(job[p].uid)
      BY <1>2, <3>1 DEF RowsSound, ManagerOK, Claiming, Making
    <3>3. Moves(p)
      BY <2>3, <3>1, ReplyMoves DEF db_prncpl_new
    <3>4. QED
      BY <3>1, <3>2, <3>3
  <2>4. QED
    BY <2>1, <2>2, <2>3
<1>3. RowsSound /\ [Next]_vars =>
        /\ owner # None => owner' = owner
        /\ \A i \in Ids : prncpl[i] = None /\ prncpl'[i] # None
             => \E p \in Procs : /\ Moves(p) /\ job[p].page = "adduser"
                                 /\ owner # None /\ MayManage(job[p].uid)
  BY <1>1, <1>2
<1>4. QED
  BY <1>3, RowsInvariant, PTL DEF Spec, OnlyOwnerCreates

(* A row changes only by the hand of its holder, whose password was asked  *)
(* for, or of the owner of the database.                                   *)
THEOREM HolderChanges == Spec => OnlyHolderChanges
<1> DEFINE By(p, i) ==
      /\ Moves(p) /\ job[p].user = prncpl[i].name /\ prncpl'[i] # None
      /\ \/ job[p].page \in {"passwd", "setpass", "setemail"}
              /\ ~job[p].alt /\ me[p].hash = job[p].hash
         \/ job[p].page = "passwd" /\ job[p].alt /\ MayManage(job[p].uid)
<1>1. ASSUME RowsSound, [Next]_vars, NEW i \in Ids,
             prncpl[i] # None, prncpl'[i] # prncpl[i]
      PROVE  \E p \in Procs : By(p, i)
  <2>1. PICK p \in Procs : db_prncpl_new(p) \/ db_prncpl_update(p)
    BY <1>1, WhoWrites
  <2>2. CASE db_prncpl_new(p)
    <3>1. ~ InsertViolates([name |-> job[p].user, hash |-> job[p].new,
                            email |-> job[p].email])
      BY <1>1, <2>2 DEF db_prncpl_new
    <3>2. /\ \E k \in Ids : prncpl[k] = None
          /\ prncpl' = [prncpl EXCEPT ![FreeId] = [name |-> job[p].user,
                          hash |-> job[p].new, email |-> job[p].email]]
      BY <2>2, <3>1 DEF db_prncpl_new
    <3>3. i # FreeId
      BY <1>1, <3>2, FreeIdLemma
    <3>4. QED
      BY <1>1, <3>2, <3>3 DEF RowsSound, StateOK
  <2>3. CASE db_prncpl_update(p)
    <3>1. /\ pc[p] = "update" /\ StateOK
          /\ ~ UpdateViolates(me[p].id, Changed(p))
          /\ prncpl' = [prncpl EXCEPT ![me[p].id] = Changed(p)]
          /\ Reply(p, "done")
      BY <1>1, <2>3 DEF db_prncpl_update, RowsSound
    <3>2. /\ Asked(job[p]) /\ job[p].page \in Changers /\ me[p] \in Loaded
          /\ me[p].name = job[p].user /\ (job[p].alt \/ me[p].hash = job[p].hash)
          /\ prncpl[me[p].id].name = me[p].name
      BY <1>1, <3>1 DEF RowsSound, StageOK, StageOf, LoadedOK, LoadedPcs
    <3>3. i = me[p].id
      BY <1>1, <3>1 DEF StateOK
    <3>4. prncpl'[i] # None
      <4>1. Changed(p) \in Prncpl
        BY <3>2 DEF Changed, Prncpl, Loaded, Asked, Job
      <4>2. QED
        BY <3>1, <3>3, <4>1, AccountsAssumption DEF StateOK
    <3>5. job[p].alt => job[p].page = "passwd" /\ MayManage(job[p].uid)
      BY <1>1, <3>1, <3>2 DEF RowsSound, ManagerOK, Claiming, Making, Asked
    <3>6. Moves(p)
      BY <3>1, ReplyMoves
    <3>7. QED
      BY <3>2, <3>3, <3>4, <3>5, <3>6 DEF Changers
  <2>4. QED
    BY <2>1, <2>2, <2>3
<1>2. RowsSound /\ [Next]_vars =>
        \A i \in Ids : prncpl[i] # None /\ prncpl'[i] # prncpl[i]
          => \E p \in Procs : By(p, i)
  BY <1>1
<1>3. QED
  BY <1>2, RowsInvariant, PTL DEF Spec, OnlyHolderChanges

(* Nobody acts on another's calendars without a right that was in the      *)
(* table when it was looked up, and still is unless withdrawn since.       *)
THEOREM ActsWithRight == Spec => ProxyActsWithRight
<1>1. RowsSound /\ [Next]_vars =>
        \A p \in Procs, i \in Ids :
          (/\ pc[p] = "act" /\ answer'[p] = "done"
           /\ i \in Named(job[p].other) /\ me[p].id # i)
          => Suffices(proxy[i][me[p].id], job[p].write) \/ p \in overtaken
  BY DEF RowsSound, ActOK
<1>2. QED
  BY <1>1, RowsInvariant, PTL DEF Spec, ProxyActsWithRight

(* A right is given by the principal it is about, and to another, who bore *)
(* the address that was given.                                             *)
THEOREM RightsGiven == Spec => RightsGivenByOwner
<1>1. ASSUME RowsSound, BearersOK, [Next]_vars, NEW i \in Ids, NEW j \in Ids,
             proxy'[i][j] \notin {0, proxy[i][j]}
      PROVE  i # j /\ \E p \in Procs : /\ Moves(p) /\ job[p].page = "modproxy"
                                       /\ job[p].user = prncpl[i].name
                                       /\ j \in bore[p]
  <2>1. PICK p \in Procs : db_proxy(p) \/ db_proxy_remove(p)
    BY <1>1, WhoWrites
  <2>2. /\ StateOK /\ pc[p] \in {"db_proxy", "db_proxy_remove"} /\ Reply(p, "done")
        /\ proxy' = [proxy EXCEPT ![me[p].id][arg[p]] =
                       IF pc[p] = "db_proxy" THEN job[p].bits ELSE 0]
    BY <1>1, <2>1 DEF db_proxy, db_proxy_remove, SetRight, RowsSound
  <2>3. /\ me[p].id \in Ids /\ arg[p] \in Ids /\ me[p].name = job[p].user
        /\ pc[p] = "db_proxy" => job[p].page = "modproxy" /\ arg[p] # me[p].id
        /\ prncpl[me[p].id].name = me[p].name
    BY <1>1, <2>2 DEF RowsSound, StageOK, StageOf, LoadedOK, LoadedPcs, Loaded
  <2>4. i = me[p].id /\ j = arg[p] /\ pc[p] = "db_proxy"
    BY <1>1, <2>2, <2>3 DEF StateOK
  <2>5. Moves(p)
    BY <2>2, ReplyMoves
  <2>6. j \in bore[p]
    BY <1>1, <2>4 DEF BearersOK
  <2>7. QED
    BY <2>3, <2>4, <2>5, <2>6
<1>2. AccountsSound /\ [Next]_vars =>
        \A i, j \in Ids : proxy'[i][j] \notin {0, proxy[i][j]}
          => i # j /\ \E p \in Procs : /\ Moves(p) /\ job[p].page = "modproxy"
                                       /\ job[p].user = prncpl[i].name
                                       /\ j \in bore[p]
  BY <1>1 DEF AccountsSound
<1>3. QED
  BY <1>2, Sound, PTL DEF Spec, RightsGivenByOwner
=============================================================================
