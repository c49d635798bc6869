------------------------------ MODULE Accounts ------------------------------
(***************************************************************************)
(* Principals, their credentials, the proxies they let act for them, and   *)
(* the owner of the database.  Runs of kcaldav.passwd create the database, *)
(* claim it, and create or change principals; web requests change the      *)
(* password, the e-mail address and the proxies of the principal they      *)
(* authenticate as, and read or write calendars, maybe another's.  Each    *)
(* works on the rows it loaded at its start.                               *)
(*                                                                         *)
(* A step is an autocommit statement or a whole transaction, since nobody  *)
(* sees the inside of one.  The collections and resources that these       *)
(* processes touch are those of CalStore.                                  *)
(***************************************************************************)
EXTENDS Naturals

CONSTANTS
    Procs,       \* runs of kcaldav.passwd and web requests
    Uids, Root,  \* real user ids; the privileged one
    Users,       \* names of principals
    Mails,       \* e-mail addresses
    Hashes,      \* password hashes
    MaxIds,      \* bound: principals
    MaxJobs,     \* bound: processes ever started
    FaultKinds,  \* "crash", "statement", "busy"
    MaxFaults,   \* bound: faults ever
    None         \* no row, no option, nobody

Ids   == 1 .. MaxIds
Bits  == {0, 1, 2}
READ  == 1
WRITE == 2

Prncpl == [name : Users, hash : Hashes, email : Mails]
Loaded == [id : Ids, name : Users, hash : Hashes, email : Mails]

Pages == {"setpass", "setemail", "modproxy", "delproxy", "method"}

(* The command line of kcaldav.passwd (adduser: -C, alt: -u, email: -e,    *)
(* new: None for -n) or a web request (other: the principal in its path).  *)
Job == [page : Pages \cup {"adduser", "passwd"}, uid : Uids, user : Users,
        alt : BOOLEAN, hash : Hashes \cup {None}, new : Hashes \cup {None},
        email : Mails \cup {None}, bits : {READ, WRITE},
        other : Users \cup {None}, write : BOOLEAN]

ASSUME AccountsAssumption ==
    /\ Root \in Uids /\ MaxIds \in Nat /\ MaxJobs \in Nat /\ MaxFaults \in Nat
    /\ FaultKinds \subseteq {"crash", "statement", "busy"}
    /\ None \notin Users /\ None \notin Mails /\ None \notin Hashes
    /\ None \notin Uids /\ None \notin Prncpl /\ None \notin Loaded
    /\ None \notin Job /\ None \notin Nat

VARIABLES
    schema,     \* how much of kcaldav.sql has been executed
    owner,      \* the row of table "database"
    prncpl,     \* table "principal"
    proxy,      \* proxy[i][j]: what principal j may do as i (0: no row)
    pc,         \* where each process is
    job,        \* what it was asked to do
    me,         \* the principal row it loaded
    arg,        \* the id it looked up, or the bits of its proxy right
    answer,     \* what it said last
    overtaken,  \* history: processes whose proxy right changed once loaded
    bore,       \* history: who bore the address that modproxy gives, since it came
    jobs,       \* processes started so far
    faults      \* faults so far

bounds == <<jobs, faults>>
vars == <<schema, owner, prncpl, proxy, pc, job, me, arg, answer, overtaken,
          bore, jobs, faults>>

Pcs == {"idle", "owner", "schema", "tables", "setowner", "create", "load",
        "update", "identify", "db_proxy", "db_proxy_remove", "target", "act"}
Answers == {"none", "done", "refused", "failed"}

-----------------------------------------------------------------------------
(* The statements on table "principal".                                    *)

Named(user)  == {i \in Ids : prncpl[i] # None /\ prncpl[i].name = user}
Bearing(mail) == {i \in Ids : prncpl[i] # None /\ prncpl[i].email = mail}

(* unique (email), unique (name).                                          *)
InsertViolates(row) == Named(row.name) \cup Bearing(row.email) # {}
UpdateViolates(i, row) == Bearing(row.email) \ {i} # {}

FreeId == CHOOSE i \in Ids : prncpl[i] = None /\ \A k \in 1 .. i - 1 : prncpl[k] # None

-----------------------------------------------------------------------------
Goto(p, label) == pc' = [pc EXCEPT ![p] = label] /\ UNCHANGED <<job, me, arg, answer>>

Reply(p, a) ==
    /\ pc'  = [pc EXCEPT ![p] = "idle"]
    /\ job' = [job EXCEPT ![p] = None]
    /\ me'  = [me EXCEPT ![p] = None]
    /\ arg' = [arg EXCEPT ![p] = None]
    /\ answer' = [answer EXCEPT ![p] = a]

tables == <<schema, owner, prncpl, proxy>>

(* Besides any step: the principals that bear the address a request has    *)
(* been given join those that bore it since the request came.              *)
Noted == bore' = [p \in Procs |->
    IF pc'[p] = "idle" \/ job'[p].page # "modproxy" THEN {}
    ELSE {i \in Ids : prncpl'[i] # None /\ prncpl'[i].email = job'[p].email}
         \cup IF pc[p] = "idle" THEN {} ELSE bore[p]]

(* A job with no option.                                                   *)
Asks(page, user) ==
    [page |-> page, uid |-> Root, user |-> user, alt |-> FALSE, hash |-> None,
     new |-> None, email |-> None, bits |-> READ, other |-> None, write |-> FALSE]

(* db_init: only kcaldav.passwd -C makes the file when there is none.      *)
(* Another process that finds none fails at its first statement below.     *)
db_init(j) == schema' = IF schema = "absent" /\ j.page = "adduser" THEN "empty" ELSE schema

(* A process starts with job'[p].                                          *)
Run(p) ==
    /\ jobs' = jobs + 1
    /\ db_init(job'[p])
    /\ pc' = [pc EXCEPT ![p] = IF job'[p].page = "adduser" \/ job'[p].alt
                               THEN "owner" ELSE "load"]
    /\ answer' = [answer EXCEPT ![p] = "none"]
    /\ overtaken' = overtaken \ {p}
    /\ UNCHANGED <<owner, prncpl, proxy, me, arg, faults>>

(* kcaldav.passwd -C: the address defaults to one made of the user's name. *)
StartAdduser(p) == \E uid \in Uids, user \in Users, new \in Hashes, mail \in Mails :
    /\ job' = [job EXCEPT ![p] =
      [Asks("adduser", user) EXCEPT !.uid = uid, !.new = new, !.email = mail]]
    /\ Run(p)

(* kcaldav.passwd of one's own login: the old password is asked for.       *)
StartPasswd(p) ==
    \E user \in Users, old \in Hashes, new \in Hashes \cup {None},
       mail \in Mails \cup {None} :
    /\ job' = [job EXCEPT ![p] =
      [Asks("passwd", user) EXCEPT !.hash = old, !.new = new, !.email = mail]]
    /\ Run(p)

(* kcaldav.passwd -u: of any principal.                                    *)
StartAltuser(p) ==
    \E uid \in Uids, user \in Users, new \in Hashes \cup {None},
       mail \in Mails \cup {None} :
    /\ job' = [job EXCEPT ![p] =
      [Asks("passwd", user) EXCEPT !.alt = TRUE, !.uid = uid, !.new = new,
                                          !.email = mail]]
    /\ Run(p)

(* A web request, whose digest proves knowledge of a hash.                 *)
StartSetpass(p) == \E user \in Users, h, new \in Hashes :
    /\ job' = [job EXCEPT ![p] =
      [Asks("setpass", user) EXCEPT !.hash = h, !.new = new]]
    /\ Run(p)
StartSetemail(p) == \E user \in Users, h \in Hashes, mail \in Mails :
    /\ job' = [job EXCEPT ![p] =
      [Asks("setemail", user) EXCEPT !.hash = h, !.email = mail]]
    /\ Run(p)
StartModproxy(p) ==
    \E user \in Users, h \in Hashes, mail \in Mails, bits \in {READ, WRITE} :
    /\ job' = [job EXCEPT ![p] =
      [Asks("modproxy", user) EXCEPT !.hash = h, !.email = mail, !.bits = bits]]
    /\ Run(p)
StartDelproxy(p) == \E user \in Users, h \in Hashes, mail \in Mails :
    /\ job' = [job EXCEPT ![p] =
      [Asks("delproxy", user) EXCEPT !.hash = h, !.email = mail]]
    /\ Run(p)
StartMethod(p) == \E user, other \in Users, h \in Hashes, write \in BOOLEAN :
    /\ job' = [job EXCEPT ![p] =
      [Asks("method", user) EXCEPT !.hash = h, !.other = other, !.write = write]]
    /\ Run(p)

Start(p) ==
    /\ pc[p] = "idle" /\ jobs < MaxJobs
    /\ \/ StartAdduser(p) \/ StartPasswd(p) \/ StartAltuser(p)
       \/ StartSetpass(p) \/ StartSetemail(p) \/ StartModproxy(p)
       \/ StartDelproxy(p) \/ StartMethod(p)

-----------------------------------------------------------------------------
(* db_owner_check_or_set.                                                  *)

AfterOwner(p) == IF job[p].page = "adduser" THEN "create" ELSE "load"

(* SQL_OWNER_GET cannot be prepared before its table, the last one of the  *)
(* schema, exists.                                                         *)
MayManage(uid) == uid = Root \/ uid = owner

owner_get(p) ==
    /\ pc[p] = "owner"
    /\ \/ schema = "absent" /\ Reply(p, "failed")
       \/ schema \in {"empty", "partial"} /\ Goto(p, "schema")
       \/ schema = "full" /\ owner = None /\ Reply(p, "failed")
       \/ /\ schema = "full" /\ owner # None
          /\ IF MayManage(job[p].uid) THEN Goto(p, AfterOwner(p))
                                      ELSE Reply(p, "refused")
    /\ UNCHANGED <<tables, overtaken, bounds>>

(* db_exec of the schema, table by table: the first CREATE fails when the  *)
(* table is there.                                                         *)
schema_begin_IfNotExists(p) ==   \* mutant: CREATE TABLE IF NOT EXISTS
    /\ pc[p] = "schema" /\ schema' = "partial" /\ Goto(p, "tables")
    /\ UNCHANGED <<owner, prncpl, proxy, overtaken, bounds>>

schema_begin(p) ==
    /\ pc[p] = "schema"
    /\ IF schema = "empty"
       THEN schema' = "partial" /\ Goto(p, "tables")
       ELSE UNCHANGED schema /\ Reply(p, "failed")
    /\ UNCHANGED <<owner, prncpl, proxy, overtaken, bounds>>

schema_end(p) ==
    /\ pc[p] = "tables" /\ schema' = "full" /\ Goto(p, "setowner")
    /\ UNCHANGED <<owner, prncpl, proxy, overtaken, bounds>>

owner_insert(p) ==
    /\ pc[p] = "setowner" /\ owner' = job[p].uid /\ Goto(p, AfterOwner(p))
    /\ UNCHANGED <<schema, prncpl, proxy, overtaken, bounds>>

-----------------------------------------------------------------------------
(* db_prncpl_new: the principal and its first collection, or neither.      *)
db_prncpl_new(p) ==
    /\ pc[p] = "create"
    /\ LET row == [name |-> job[p].user, hash |-> job[p].new, email |-> job[p].email]
       IN IF InsertViolates(row)
          THEN UNCHANGED prncpl /\ Reply(p, "refused")
          ELSE /\ \E i \in Ids : prncpl[i] = None
               /\ prncpl' = [prncpl EXCEPT ![FreeId] = row] /\ Reply(p, "done")
    /\ UNCHANGED <<schema, owner, proxy, overtaken, bounds>>

(* What follows once the principal is loaded.                              *)
Routine(j) ==
    CASE j.page \in {"modproxy", "delproxy"} -> "identify"
      [] j.page = "method" -> IF j.other = j.user THEN "act" ELSE "target"
      [] OTHER             -> "update"

(* Does the request or the run of kcaldav.passwd prove to be the user?     *)
Authentic_NotForAttributes(p, row) ==   \* mutant: not asked for with -n
    job[p].alt \/ job[p].new = None \/ row.hash = job[p].hash

Authentic(p, row) == job[p].alt \/ row.hash = job[p].hash

(* db_prncpl_load, and the check of the password.                          *)
db_prncpl_load(p) ==
    /\ pc[p] = "load"
    /\ \/ /\ schema # "full" /\ Reply(p, "failed")
       \/ /\ schema = "full" /\ Named(job[p].user) = {} /\ Reply(p, "refused")
       \/ /\ schema = "full"
          /\ \E i \in Named(job[p].user) : LET row == prncpl[i] IN
                IF Authentic(p, row)
                THEN /\ me' = [me EXCEPT ![p] = [id |-> i, name |-> row.name,
                                    hash |-> row.hash, email |-> row.email]]
                     /\ pc' = [pc EXCEPT ![p] = Routine(job[p])]
                     /\ UNCHANGED <<job, arg, answer>>
                ELSE Reply(p, "refused")
    /\ UNCHANGED <<tables, overtaken, bounds>>

Changed_Always(p) ==   \* mutant: the hash is written with -n too
    [name |-> me[p].name, hash |-> job[p].new,
     email |-> IF job[p].email # None THEN job[p].email ELSE me[p].email]

(* The loaded row with what the job changes: both columns are written.     *)
Changed(p) == [name  |-> me[p].name,
               hash  |-> IF job[p].new # None THEN job[p].new ELSE me[p].hash,
               email |-> IF job[p].email # None THEN job[p].email ELSE me[p].email]

db_prncpl_update(p) ==
    /\ pc[p] = "update"
    /\ LET i == me[p].id IN
       IF UpdateViolates(i, Changed(p))
       THEN UNCHANGED prncpl /\ Reply(p, "refused")
       ELSE prncpl' = [prncpl EXCEPT ![i] = Changed(p)] /\ Reply(p, "done")
    /\ UNCHANGED <<schema, owner, proxy, overtaken, bounds>>

-----------------------------------------------------------------------------
(* json_modproxy and json_delproxy: db_prncpl_identify, then the change.   *)
identify_Anyone(p) ==   \* mutant: the address only has to be somebody's
    /\ pc[p] = "identify"
    /\ LET is == Bearing(job[p].email)
           others == {i \in Ids : prncpl[i] # None} \ {me[p].id}
       IN IF is = {} \/ others = {}
          THEN Reply(p, "refused")
          ELSE \E i \in others :
                 /\ arg' = [arg EXCEPT ![p] = i]
                 /\ pc' = [pc EXCEPT ![p] = IF job[p].page = "modproxy"
                                            THEN "db_proxy" ELSE "db_proxy_remove"]
                 /\ UNCHANGED <<job, me, answer>>
    /\ UNCHANGED <<tables, overtaken, bounds>>

identify(p) ==
    /\ pc[p] = "identify"
    /\ LET is == Bearing(job[p].email)
           allowed == is \ IF job[p].page = "modproxy" THEN {me[p].id} ELSE {}
       IN IF allowed = {}
          THEN Reply(p, "refused")
          ELSE \E i \in allowed :
                 /\ arg' = [arg EXCEPT ![p] = i]
                 /\ pc' = [pc EXCEPT ![p] = IF job[p].page = "modproxy"
                                            THEN "db_proxy" ELSE "db_proxy_remove"]
                 /\ UNCHANGED <<job, me, answer>>
    /\ UNCHANGED <<tables, overtaken, bounds>>

(* A change to what principal j may do as i overtakes the requests of j    *)
(* that have loaded the right before.                                      *)
SetRight(i, j, bits) ==
    /\ proxy' = [proxy EXCEPT ![i][j] = bits]
    /\ overtaken' = overtaken \cup
          {q \in Procs : /\ pc[q] = "act" /\ arg[q] # None /\ me[q].id = j
                         /\ i \in Named(job[q].other) /\ proxy[i][j] # bits}

(* db_proxy: INSERT, or UPDATE when the row exists, in one transaction.    *)
db_proxy(p) ==
    /\ pc[p] = "db_proxy" /\ SetRight(me[p].id, arg[p], job[p].bits)
    /\ Reply(p, "done")
    /\ UNCHANGED <<schema, owner, prncpl, bounds>>

db_proxy_remove(p) ==
    /\ pc[p] = "db_proxy_remove" /\ SetRight(me[p].id, arg[p], 0)
    /\ Reply(p, "done")
    /\ UNCHANGED <<schema, owner, prncpl, bounds>>

-----------------------------------------------------------------------------
(* A method on the calendars of another principal: the right is looked up  *)
(* once, with that principal.                                              *)
proxy_check_Missing(p) ==   \* mutant: any row of the table will do
    /\ pc[p] = "target"
    /\ \/ Named(job[p].other) = {} /\ Reply(p, "refused")
       \/ \E i \in Named(job[p].other) :
          LET bits == proxy[i][me[p].id] IN
          IF bits # 0
          THEN /\ arg' = [arg EXCEPT ![p] = bits]
               /\ pc' = [pc EXCEPT ![p] = "act"]
               /\ UNCHANGED <<job, me, answer>>
          ELSE Reply(p, "refused")
    /\ UNCHANGED <<tables, overtaken, bounds>>

Suffices(bits, write) == bits \in IF write THEN {WRITE} ELSE {READ, WRITE}

proxy_check(p) ==
    /\ pc[p] = "target"
    /\ \/ Named(job[p].other) = {} /\ Reply(p, "refused")
       \/ \E i \in Named(job[p].other) :
          LET bits == proxy[i][me[p].id] IN
          IF Suffices(bits, job[p].write)
          THEN /\ arg' = [arg EXCEPT ![p] = bits]
               /\ pc' = [pc EXCEPT ![p] = "act"]
               /\ UNCHANGED <<job, me, answer>>
          ELSE Reply(p, "refused")
    /\ UNCHANGED <<tables, overtaken, bounds>>

method(p) ==
    /\ pc[p] = "act" /\ Reply(p, "done")
    /\ UNCHANGED <<tables, overtaken, bounds>>

-----------------------------------------------------------------------------
Fault(kind) ==
    /\ kind \in FaultKinds /\ faults < MaxFaults
    /\ faults' = faults + 1 /\ UNCHANGED jobs

Crash(p) ==
    /\ pc[p] # "idle" /\ Fault("crash") /\ Reply(p, "none")
    /\ UNCHANGED <<tables, overtaken>>

(* A statement ends in an error.  db_proxy may then return SQLite's own    *)
(* code, a positive number, and db_prncpl_new does not look at its COMMIT. *)
StatementFails(p) ==
    /\ pc[p] \notin {"idle", "act"} /\ Fault("statement")
    /\ \/ Reply(p, "failed")
       \/ pc[p] \in {"db_proxy", "create"} /\ Reply(p, "done")
    /\ UNCHANGED <<tables, overtaken>>

(* SQLITE_BUSY amid the schema: db_exec executes all of it again.          *)
SchemaBusy(p) ==
    /\ pc[p] = "tables" /\ Fault("busy") /\ Goto(p, "schema")
    /\ UNCHANGED <<tables, overtaken>>

Serve(p) ==
    \/ owner_get(p) \/ schema_begin(p) \/ schema_end(p) \/ owner_insert(p)
    \/ db_prncpl_new(p) \/ db_prncpl_load(p) \/ db_prncpl_update(p)
    \/ identify(p) \/ db_proxy(p) \/ db_proxy_remove(p)
    \/ proxy_check(p) \/ method(p)

Break(p) == Crash(p) \/ StatementFails(p) \/ SchemaBusy(p)

(* No database yet; or one with a principal or two, one perhaps a proxy of *)
(* the other, as runs of kcaldav.passwd -C and a few requests leave it.    *)
Init ==
    /\ \/ /\ schema = "absent" /\ owner = None
          /\ prncpl = [i \in Ids |-> None]
          /\ proxy = [i \in Ids |-> [j \in Ids |-> 0]]
       \/ /\ schema = "full" /\ owner \in Uids
          /\ \E first \in Prncpl, second \in Prncpl \cup {None}, bits \in Bits :
             /\ second = None => bits = 0
             /\ second # None => first.name # second.name /\ first.email # second.email
             /\ prncpl = [i \in Ids |-> CASE i = 1 -> first [] i = 2 -> second
                                          [] OTHER -> None]
             /\ proxy = [i \in Ids |-> [j \in Ids |-> IF i = 1 /\ j = 2 THEN bits ELSE 0]]
    /\ pc = [p \in Procs |-> "idle"]
    /\ job = [p \in Procs |-> None] /\ me = [p \in Procs |-> None]
    /\ arg = [p \in Procs |-> None]
    /\ answer = [p \in Procs |-> "none"]
    /\ overtaken = {} /\ bore = [p \in Procs |-> {}]
    /\ jobs = 0 /\ faults = 0

Next == \E p \in Procs : (Start(p) \/ Serve(p) \/ Break(p)) /\ Noted

Spec == Init /\ [][Next]_vars

-----------------------------------------------------------------------------
StateOK ==
    /\ schema \in {"absent", "empty", "partial", "full"} /\ owner \in Uids \cup {None}
    /\ prncpl \in [Ids -> Prncpl \cup {None}]
    /\ proxy \in [Ids -> [Ids -> Bits]]
    /\ pc \in [Procs -> Pcs] /\ job \in [Procs -> Job \cup {None}]
    /\ me \in [Procs -> Loaded \cup {None}]
    /\ arg \in [Procs -> Ids \cup Bits \cup {None}]
    /\ answer \in [Procs -> Answers]
    /\ overtaken \subseteq Procs /\ jobs \in Nat /\ faults \in Nat

TypeOK == StateOK /\ bore \in [Procs -> SUBSET Ids]

Moves(p) == pc[p] # "idle" /\ pc'[p] # pc[p]

(* However many runs of kcaldav.passwd race to create the database, one    *)
(* user owns it, for good; and principals are created only by that user    *)
(* or root.                                                                *)
OnlyOwnerCreates ==
    [][/\ owner # None => owner' = owner
       /\ \A i \in Ids : prncpl[i] = None /\ prncpl'[i] # None
            => \E p \in Procs : /\ Moves(p) /\ job[p].page = "adduser"
                                /\ owner # None /\ MayManage(job[p].uid)]_vars

(* A principal's row is changed only by someone who knew its password when *)
(* the row was loaded, or by the owner of the database with -u; and only   *)
(* the principal of that name, whatever happens to addresses meanwhile.    *)
OnlyHolderChanges ==
    [][\A i \in Ids : prncpl[i] # None /\ prncpl'[i] # prncpl[i]
         => \E p \in Procs :
              /\ Moves(p) /\ job[p].user = prncpl[i].name /\ prncpl'[i] # None
              /\ \/ job[p].page \in {"passwd", "setpass", "setemail"}
                      /\ ~job[p].alt /\ me[p].hash = job[p].hash
                 \/ job[p].page = "passwd" /\ job[p].alt /\ MayManage(job[p].uid)]_vars

(* Nobody writes to another's calendars without the right to, as it was    *)
(* when the request looked it up: once a right is withdrawn, only requests *)
(* already past the check still get through.                               *)
ProxyActsWithRight ==
    [][\A p \in Procs, i \in Ids :
         (/\ pc[p] = "act" /\ answer'[p] = "done"
          /\ i \in Named(job[p].other) /\ me[p].id # i)
         => Suffices(proxy[i][me[p].id], job[p].write) \/ p \in overtaken]_vars

(* A right to act as a principal is given by that principal only, never to *)
(* itself, and to one who bore the address given at some moment of the     *)
(* request: json_modproxy looks the address up in one statement and writes *)
(* in another, and it may have moved in between, even to the requester.    *)
RightsGivenByOwner ==
    [][\A i, j \in Ids : proxy'[i][j] \notin {0, proxy[i][j]}
         => i # j /\ \E p \in Procs : /\ Moves(p) /\ job[p].page = "modproxy"
                                      /\ job[p].user = prncpl[i].name
                                      /\ j \in bore[p]]_vars
=============================================================================
