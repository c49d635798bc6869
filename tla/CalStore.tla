------------------------------ MODULE CalStore ------------------------------
(***************************************************************************)
(* The calendar store of kcaldav: the collections and resources of one     *)
(* principal, in one SQLite database, and the request processes (one CGI   *)
(* process per HTTP request) that read and write it.  A step is what       *)
(* SQLite makes atomic: one autocommit statement, or one statement inside  *)
(* a BEGIN IMMEDIATE transaction.  Between two steps of a request any      *)
(* other request may run, and a process may die or a statement fail.       *)
(*                                                                         *)
(* A client is whoever sends requests; it has at most one outstanding, and *)
(* remembers what its last collection listing and its last GET told it.    *)
(***************************************************************************)
EXTENDS Naturals

CONSTANTS
    Clients,      \* who sends requests
    Urls,         \* URL components naming collections of the principal
    Names,        \* URL components naming resources in a collection
    Fields,       \* displayname, colour, description
    Values,       \* what a field may hold
    Default,      \* the value the schema gives every field
    Methods,      \* the kinds of request the clients send
    Arc4Random,   \* was the program built with HAVE_ARC4RANDOM?
    MaxColn,      \* bound: collection identifiers ever allocated
    MaxRequests,  \* bound: requests ever sent
    FaultKinds,   \* the faults that may happen: "crash", "statement",
                  \*   "commit", "listing"
    MaxFaults,    \* bound: faults ever
    None          \* SQL NULL, a C NULL pointer, nobody

AllMethods == {"put", "delete", "delcoln", "get", "propfind", "proppatch",
               "json_newcoln", "json_delcoln", "json_setcolnprops"}

AllFaults == {"crash", "statement", "commit", "listing"}

Ids   == 1 .. MaxColn
Props == [Fields -> Values]

(* Rows of the tables "collection" and "resource".  The primary key of the *)
(* first and the unique (collection, url) of the second are the indices of *)
(* the tables below.  A body is named by the request that carried it.      *)
Coln == [url : Urls, ctag : Nat, props : Props]
Res  == [etag : Nat, data : Nat]

Database == [coln : [Ids -> Coln \cup {None}],
             res  : [Ids -> [Names -> Res \cup {None}]],
             next : Nat \ {0}]

(* What a process knows of its request, and of the collection it addresses *)
(* (struct coln, loaded once at the start of the request).                 *)
Job      == [method : AllMethods, url : Urls \cup {None},
             id : Ids \cup {None}, name : Names \cup {None},
             digest : Nat \cup {None}, etag : Nat, body : Nat,
             fields : SUBSET Fields, props : Props]
Snapshot == [id : Ids, ctag : Nat, props : Props]

(* What a client remembers: a listing with the ctag it came with, and the  *)
(* last resource it fetched.                                               *)
Listing == [id : Ids, ctag : Nat, whole : BOOLEAN,
            list : [Names -> Res \cup {None}]]
Copy    == [url : Urls, name : Names, etag : Nat, data : Nat]

Pcs == {"idle", "load", "exec", "update", "bump",
        "check", "write", "wbump", "commit"}
Codes == {0, 200, 201, 204, 207, 304, 400, 403, 404, 500, 505}

ASSUME CalStoreAssumption ==
    /\ MaxColn \in Nat \ {0} /\ MaxRequests \in Nat /\ MaxFaults \in Nat
    /\ Default \in Values /\ Arc4Random \in BOOLEAN
    /\ Methods \subseteq AllMethods /\ FaultKinds \subseteq AllFaults
    /\ None \notin Clients /\ None \notin Urls /\ None \notin Names
    /\ None \notin Nat /\ None \notin Coln /\ None \notin Res
    /\ None \notin Job /\ None \notin Snapshot
    /\ None \notin Listing /\ None \notin Copy

VARIABLES
    db,       \* the committed database, what every reader sees
    wal,      \* the database as the writer sees it, uncommitted part included
    lock,     \* the client whose process holds SQLite's write lock, or None
    pc,       \* where each client's request process is
    job,      \* the request itself
    cfg,      \* st->cfg: the collection row as it was when loaded
    code,     \* status of the last answer (0: none)
    known,    \* each client's last collection listing
    copy,     \* each client's last fetched resource
    orphans,  \* history: collections whose ctag update never took place
    reqs,     \* requests sent so far
    clock,    \* time(NULL), in seconds
    faults    \* faults so far

store   == <<db, wal, lock>>
clients == <<known, copy>>
bounds  == <<reqs, clock, faults>>
vars    == <<db, wal, lock, pc, job, cfg, code, known, copy, orphans,
             reqs, clock, faults>>

-----------------------------------------------------------------------------
(* The SQL statements, as functions of a database.                         *)

(* SQL_COL_GET: the identifiers (at most one) of the collection at url.    *)
ColnAt(d, u) == {k \in Ids : d.coln[k] # None /\ d.coln[k].url = u}

(* Definitions named X_Y are X with the mistake Y, one that the code could  *)
(* have had: each breaks a property of a run.                              *)

(* SQL_COL_INSERT with the defaults of the schema.                         *)
NewColn_NoAutoincrement(d, u) ==
    LET used == {k \in Ids : d.coln[k] # None}
        free == CHOOSE k \in Ids : k \notin used /\ \A i \in used : i < k
    IN [d EXCEPT !.coln[free] =
                     [url |-> u, ctag |-> 1, props |-> [f \in Fields |-> Default]],
                 !.next = d.next + 1]
NewColn(d, u) ==
    [d EXCEPT !.coln[d.next] =
                  [url |-> u, ctag |-> 1, props |-> [f \in Fields |-> Default]],
              !.next = d.next + 1]

(* SQL_COL_REMOVE, and the ON DELETE CASCADE of table "resource".          *)
DropColn_NoCascade(d, k) == [d EXCEPT !.coln[k] = None]
DropColn(d, k) == [d EXCEPT !.coln[k] = None, !.res[k] = [n \in Names |-> None]]

(* SQL_COL_UPDATE: all three fields at once.                               *)
SetProps(d, k, p) ==
    IF d.coln[k] = None THEN d ELSE [d EXCEPT !.coln[k].props = p]

(* SQL_COL_UPDATE_CTAG.                                                    *)
BumpCtag(d, k) ==
    IF d.coln[k] = None THEN d ELSE [d EXCEPT !.coln[k].ctag = @ + 1]

(* SQL_RES_INSERT; SQL_RES_UPDATE, which may find no row; SQL_RES_REMOVE.  *)
InsertRes(d, k, n, e, b) == [d EXCEPT !.res[k][n] = [etag |-> e, data |-> b]]
UpdateRes_KeepsEtag(d, k, n, e, b) ==
    IF d.res[k][n] = None THEN d ELSE InsertRes(d, k, n, d.res[k][n].etag, b)
UpdateRes(d, k, n, e, b) ==
    IF d.res[k][n] = None THEN d ELSE InsertRes(d, k, n, e, b)
DropRes(d, k, n) == [d EXCEPT !.res[k][n] = None]

(* UNIQUE (url, collection) and the foreign key on "collection".           *)
InsertViolates_NoForeignKey(d, k, n) == d.res[k][n] # None
InsertViolates_OrReplace(d, k, n) == d.coln[k] = None
InsertViolates(d, k, n) == d.coln[k] = None \/ d.res[k][n] # None

-----------------------------------------------------------------------------
(* Steps of SQLite's transaction protocol.                                 *)

(* An autocommit write: waits (retries forever) while another process      *)
(* holds the write lock.                                                   *)
Autocommit(d) == lock = None /\ db' = d /\ wal' = d /\ UNCHANGED lock

(* BEGIN IMMEDIATE.                                                        *)
db_trans_open(c) == lock = None /\ lock' = c /\ UNCHANGED <<db, wal>>

InTrans(c) == lock = c
TransWrite(d) == wal' = d /\ UNCHANGED <<db, lock>>
db_trans_commit   == db' = wal /\ lock' = None /\ UNCHANGED wal
db_trans_rollback == wal' = db /\ lock' = None /\ UNCHANGED db

(* The process answers and exits.                                          *)
Answer(c, status) ==
    /\ pc'   = [pc EXCEPT ![c] = "idle"]
    /\ job'  = [job EXCEPT ![c] = None]
    /\ cfg'  = [cfg EXCEPT ![c] = None]
    /\ code' = [code EXCEPT ![c] = status]

Goto(c, label) ==
    pc' = [pc EXCEPT ![c] = label] /\ UNCHANGED <<job, cfg, code>>

-----------------------------------------------------------------------------
(* Sending a request.                                                      *)

(* get_random twice, "%u-%u": with arc4random never the same twice;        *)
(* without it the generator is seeded with time(NULL) in every process, so *)
(* that the etag a process makes is a function of the second it started.   *)
LastEtag == IF Arc4Random THEN reqs ELSE clock

NoProps == [f \in Fields |-> Default]

Request(m) == [method |-> m, url |-> None, id |-> None, name |-> None,
               digest |-> None, etag |-> 0, body |-> 0,
               fields |-> {}, props |-> NoProps]

(* A new process at "label" serving request j; the clock may have moved.   *)
Submit(c, j, label) ==
    /\ pc[c] = "idle" /\ reqs < MaxRequests /\ j.method \in Methods
    /\ reqs' = reqs + 1
    /\ clock' \in IF Arc4Random THEN {clock} ELSE {clock, clock + 1}
    /\ pc'   = [pc EXCEPT ![c] = label]
    /\ job'  = [job EXCEPT ![c] =
                  [j EXCEPT !.etag = IF Arc4Random THEN reqs + 1 ELSE clock',
                            !.body = reqs + 1]]
    /\ code' = [code EXCEPT ![c] = 0]
    /\ UNCHANGED <<db, wal, lock, cfg, known, copy, orphans, faults>>

(* http_etag_if_match and its callers: no header, an unquoted "*" and an   *)
(* empty quoted string all leave the digest NULL (no condition).           *)
Digests == {None} \cup 0 .. LastEtag

StartPut(c) == \E u \in Urls, n \in Names, e \in Digests :
    Submit(c, [Request("put") EXCEPT !.url = u, !.name = n, !.digest = e], "load")

StartDelete(c) == \E u \in Urls, n \in Names, e \in Digests :
    Submit(c, [Request("delete") EXCEPT !.url = u, !.name = n, !.digest = e], "load")

StartDelcoln(c) == \E u \in Urls :
    Submit(c, [Request("delcoln") EXCEPT !.url = u], "load")

(* A client that holds a copy asks whether it is still good.               *)
StartGet(c) == \E u \in Urls, n \in Names :
    LET held == copy[c] # None /\ copy[c].url = u /\ copy[c].name = n IN
    Submit(c, [Request("get") EXCEPT !.url = u, !.name = n,
                 !.digest = IF held THEN copy[c].etag ELSE None], "load")

StartPropfind(c) == \E u \in Urls :
    Submit(c, [Request("propfind") EXCEPT !.url = u], "load")

StartProppatch(c) == \E u \in Urls, fs \in SUBSET Fields, p \in Props :
    Submit(c, [Request("proppatch") EXCEPT !.url = u, !.fields = fs, !.props = p],
           "load")

StartNewcoln(c) == \E u \in Urls :
    Submit(c, [Request("json_newcoln") EXCEPT !.url = u], "exec")

StartJsonDelcoln(c) == \E k \in Ids :
    Submit(c, [Request("json_delcoln") EXCEPT !.id = k], "load")

StartSetcolnprops(c) == \E k \in Ids, fs \in SUBSET Fields, p \in Props :
    Submit(c, [Request("json_setcolnprops") EXCEPT !.id = k, !.fields = fs,
                 !.props = p], "load")

Start(c) ==
    \/ StartPut(c) \/ StartDelete(c) \/ StartDelcoln(c) \/ StartGet(c)
    \/ StartPropfind(c) \/ StartProppatch(c) \/ StartNewcoln(c)
    \/ StartJsonDelcoln(c) \/ StartSetcolnprops(c)

-----------------------------------------------------------------------------
(* Loading the collection row, and routing to the method.                  *)

SnapshotOf(k) == [id |-> k, ctag |-> db.coln[k].ctag, props |-> db.coln[k].props]

Found(c, k) ==
    /\ cfg' = [cfg EXCEPT ![c] = SnapshotOf(k)]
    /\ pc'  = [pc EXCEPT ![c] = "exec"]
    /\ UNCHANGED <<job, code>>

(* state_load and the lookup among st->rprncpl->cols, for the CalDAV       *)
(* methods; db_collection_loadid for the two JSON pages that name an id.   *)
load(c) ==
    /\ pc[c] = "load"
    /\ LET j == job[c]
           ks == IF j.method \in {"json_delcoln", "json_setcolnprops"}
                 THEN {k \in Ids : k = j.id /\ db.coln[k] # None}
                 ELSE ColnAt(db, j.url)
       IN \/ \E k \in ks : Found(c, k)
          \/ /\ ks = {}
             /\ Answer(c, IF j.id # None THEN 400 ELSE 404)
    /\ UNCHANGED <<store, clients, orphans, bounds>>

At(c, label, methods) == pc[c] = label /\ job[c].method \in methods

-----------------------------------------------------------------------------
(* The methods.                                                            *)

(* db_resource_new, the INSERT: a violated constraint is "duplicate".      *)
db_resource_new_Retries(c) ==
    /\ At(c, "exec", {"put"}) /\ job[c].digest = None
    /\ LET k == cfg[c].id
           j == job[c]
       IN /\ ~InsertViolates(db, k, j.name)
          /\ Autocommit(InsertRes(db, k, j.name, j.etag, j.body))
    /\ Goto(c, "bump")
    /\ UNCHANGED <<clients, orphans, bounds>>
db_resource_new(c) ==
    /\ At(c, "exec", {"put"}) /\ job[c].digest = None
    /\ LET k == cfg[c].id
           j == job[c]
       IN IF InsertViolates(db, k, j.name)
          THEN lock = None /\ UNCHANGED store /\ Answer(c, 403)
          ELSE /\ Autocommit(InsertRes(db, k, j.name, j.etag, j.body))
               /\ Goto(c, "bump")
    /\ UNCHANGED <<clients, orphans, bounds>>

(* db_resource_remove, the DELETE, which may find no row.                  *)
db_resource_remove_NoCtag(c) ==
    /\ At(c, "exec", {"delete"}) /\ job[c].digest = None
    /\ Autocommit(DropRes(db, cfg[c].id, job[c].name))
    /\ Answer(c, 204)
    /\ UNCHANGED <<clients, orphans, bounds>>
db_resource_remove(c) ==
    /\ At(c, "exec", {"delete"}) /\ job[c].digest = None
    /\ Autocommit(DropRes(db, cfg[c].id, job[c].name))
    /\ Goto(c, "bump")
    /\ UNCHANGED <<clients, orphans, bounds>>

(* db_resource_update and db_resource_delete open a transaction.           *)
trans_open(c) ==
    /\ At(c, "exec", {"put", "delete"}) /\ job[c].digest # None
    /\ db_trans_open(c)
    /\ Goto(c, "check")
    /\ UNCHANGED <<clients, orphans, bounds>>

(* The row as the transaction sees it; does it bear the etag asked for?    *)
RowIn(c) == wal.res[cfg[c].id][job[c].name]
Matches_AnyEtag(c) == RowIn(c) # None
Matches(c) == RowIn(c) # None /\ RowIn(c).etag = job[c].digest

(* db_resource_load and strcmp in the update (403 when they fail), the     *)
(* SELECT by etag in the deletion (204 when it finds nothing).             *)
trans_check(c) ==
    /\ pc[c] = "check" /\ InTrans(c)
    /\ \/ Matches(c) /\ Goto(c, "write") /\ UNCHANGED store
       \/ /\ ~Matches(c)
          /\ db_trans_rollback
          /\ Answer(c, IF job[c].method = "put" THEN 403 ELSE 204)
    /\ UNCHANGED <<clients, orphans, bounds>>

trans_write(c) ==
    /\ pc[c] = "write" /\ InTrans(c)
    /\ LET k == cfg[c].id
           j == job[c]
       IN TransWrite(IF j.method = "put"
                     THEN UpdateRes(wal, k, j.name, j.etag, j.body)
                     ELSE DropRes(wal, k, j.name))
    /\ Goto(c, "wbump")
    /\ UNCHANGED <<clients, orphans, bounds>>

trans_update_ctag(c) ==
    /\ pc[c] = "wbump" /\ InTrans(c)
    /\ TransWrite(BumpCtag(wal, cfg[c].id))
    /\ Goto(c, "commit")
    /\ UNCHANGED <<clients, orphans, bounds>>

Success_ReturnValue(c) == IF job[c].method = "put" THEN 1 ELSE 204
Success(c) ==
    CASE job[c].method = "put"    -> 201
      [] job[c].method = "delete" -> 204
      [] OTHER                    -> code[c]

trans_commit(c) ==
    /\ pc[c] = "commit" /\ InTrans(c)
    /\ db_trans_commit
    /\ Answer(c, Success(c))
    /\ UNCHANGED <<clients, orphans, bounds>>

(* DELETE of the collection itself, whatever If-Match says; json_delcoln.  *)
db_collection_remove(c) ==
    /\ At(c, "exec", {"delcoln", "json_delcoln"})
    /\ Autocommit(DropColn(db, cfg[c].id))
    /\ Answer(c, IF job[c].method = "delcoln" THEN 204 ELSE 200)
    /\ UNCHANGED <<clients, orphans, bounds>>

(* json_newcoln: db_collection_new_byid, 400 when the URL is taken.        *)
db_collection_new(c) ==
    /\ At(c, "exec", {"json_newcoln"})
    /\ \/ /\ ColnAt(db, job[c].url) = {} /\ db.next <= MaxColn
          /\ Autocommit(NewColn(db, job[c].url))
          /\ Answer(c, 200)
       \/ /\ ColnAt(db, job[c].url) # {} /\ lock = None
          /\ UNCHANGED store
          /\ Answer(c, 400)
    /\ UNCHANGED <<clients, orphans, bounds>>

(* method_get: one SELECT.  304 leaves the client its copy.                *)
method_get(c) ==
    /\ At(c, "exec", {"get"})
    /\ LET j == job[c]
           r == db.res[cfg[c].id][j.name]
       IN IF r = None THEN Answer(c, 404) /\ UNCHANGED copy
          ELSE IF r.etag = j.digest THEN Answer(c, 304) /\ UNCHANGED copy
          ELSE /\ Answer(c, 200)
               /\ copy' = [copy EXCEPT ![c] = [url |-> j.url, name |-> j.name,
                                               etag |-> r.etag, data |-> r.data]]
    /\ UNCHANGED <<store, known, orphans, bounds>>

(* method_propfind (and a calendar-query REPORT) on a collection, Depth 1: *)
(* the ctag comes from the row loaded earlier, the resources from one      *)
(* SELECT now.                                                             *)
method_propfind(c) ==
    /\ At(c, "exec", {"propfind"})
    /\ known' = [known EXCEPT ![c] =
                   [id |-> cfg[c].id, ctag |-> cfg[c].ctag, whole |-> TRUE,
                    list |-> db.res[cfg[c].id]]]
    /\ Answer(c, 207)
    /\ UNCHANGED <<store, copy, orphans, bounds>>

(* method_proppatch and json_setcolnprops answer first.  PROPPATCH writes  *)
(* only if it understood a property.                                       *)
prop_reply(c) ==
    /\ At(c, "exec", {"proppatch", "json_setcolnprops"})
    /\ \/ /\ job[c].method = "proppatch" /\ job[c].fields = {}
          /\ Answer(c, 207)
       \/ /\ job[c].method = "json_setcolnprops" \/ job[c].fields # {}
          /\ pc'   = [pc EXCEPT ![c] = "update"]
          /\ code' = [code EXCEPT ![c] =
                        IF job[c].method = "proppatch" THEN 207 ELSE 200]
          /\ UNCHANGED <<job, cfg>>
    /\ UNCHANGED <<store, clients, orphans, bounds>>

(* The row to write: the loaded one with the requested fields replaced.    *)
Merged(c) == [f \in Fields |-> IF f \in job[c].fields THEN job[c].props[f]
                                                      ELSE cfg[c].props[f]]

db_collection_update(c) ==
    /\ At(c, "update", {"proppatch", "json_setcolnprops"})
    /\ Autocommit(SetProps(db, cfg[c].id, Merged(c)))
    /\ Goto(c, "bump")
    /\ UNCHANGED <<clients, orphans, bounds>>

(* The second autocommit statement of db_resource_new, db_resource_remove  *)
(* and db_collection_update.                                               *)
db_collection_update_ctag(c) ==
    /\ pc[c] = "bump"
    /\ Autocommit(BumpCtag(db, cfg[c].id))
    /\ Answer(c, Success(c))
    /\ UNCHANGED <<clients, orphans, bounds>>

-----------------------------------------------------------------------------
(* Faults.  A process that ends inside a transaction is rolled back.       *)

Fault(kind) ==
    /\ kind \in FaultKinds /\ faults < MaxFaults
    /\ faults' = faults + 1 /\ UNCHANGED <<reqs, clock>>

Abandon(c) == IF InTrans(c) THEN db_trans_rollback ELSE UNCHANGED store

(* The resources of the collection have changed and its ctag has not.      *)
Unbumped(c) == pc[c] = "bump" /\ job[c].method \in {"put", "delete"}

Orphan(c) == orphans' = IF Unbumped(c) THEN orphans \cup {cfg[c].id} ELSE orphans

(* send500 for the JSON pages, 505 for the others; json_delcoln does not   *)
(* look at the result of its DELETE.                                       *)
FailCode(c) ==
    IF code[c] # 0 THEN code[c]
    ELSE IF job[c].method \notin {"json_newcoln", "json_delcoln", "json_setcolnprops"}
         THEN 505
    ELSE IF pc[c] = "exec" /\ job[c].method = "json_delcoln" THEN 200 ELSE 500

(* The process is killed before it answers, or the answer is lost and the  *)
(* process with it.                                                        *)
Crash(c) ==
    /\ pc[c] # "idle" /\ Fault("crash") /\ Abandon(c) /\ Orphan(c)
    /\ Answer(c, code[c])
    /\ UNCHANGED clients

(* A statement ends in an error that is not retried (SQLITE_FULL, _IOERR). *)
(* The property pages have answered already and ignore it.                 *)
StatementFails(c) ==
    /\ \/ pc[c] \in {"load", "update", "bump", "check", "write", "wbump"}
       \/ pc[c] = "exec" /\ job[c].method \notin {"propfind", "proppatch",
                                                  "json_setcolnprops"}
    /\ Fault("statement") /\ Abandon(c) /\ Orphan(c)
    /\ Answer(c, FailCode(c))
    /\ UNCHANGED clients

(* COMMIT fails: the result of db_trans_commit is not looked at.           *)
CommitFails(c) ==
    /\ pc[c] = "commit" /\ Fault("commit") /\ Abandon(c)
    /\ Answer(c, Success(c))
    /\ UNCHANGED <<clients, orphans>>

(* db_collection_resources stops part of the way, its result is ignored    *)
(* and the multistatus ends early.                                         *)
ListingFails(c) ==
    /\ At(c, "exec", {"propfind"}) /\ Fault("listing")
    /\ \E ns \in SUBSET Names :
          known' = [known EXCEPT ![c] =
                      [id |-> cfg[c].id, ctag |-> cfg[c].ctag, whole |-> FALSE,
                       list |-> [n \in Names |-> IF n \in ns
                                     THEN db.res[cfg[c].id][n] ELSE None]]]
    /\ Answer(c, 207)
    /\ UNCHANGED <<store, copy, orphans>>

-----------------------------------------------------------------------------
Serve(c) ==
    \/ load(c) \/ db_resource_new(c) \/ db_resource_remove(c)
    \/ trans_open(c) \/ trans_check(c) \/ trans_write(c)
    \/ trans_update_ctag(c) \/ trans_commit(c)
    \/ db_collection_remove(c) \/ db_collection_new(c)
    \/ method_get(c) \/ method_propfind(c)
    \/ prop_reply(c) \/ db_collection_update(c) \/ db_collection_update_ctag(c)

Break(c) == Crash(c) \/ StatementFails(c) \/ CommitFails(c) \/ ListingFails(c)

(* Every principal is created with one collection (db_prncpl_new).         *)
NoColns == [coln |-> [k \in Ids |-> None],
            res  |-> [k \in Ids |-> [n \in Names |-> None]],
            next |-> 1]

Init ==
    /\ \E u \in Urls : db = NewColn(NoColns, u)
    /\ wal = db /\ lock = None
    /\ pc   = [c \in Clients |-> "idle"]
    /\ job  = [c \in Clients |-> None]
    /\ cfg  = [c \in Clients |-> None]
    /\ code = [c \in Clients |-> 0]
    /\ known = [c \in Clients |-> None] /\ copy = [c \in Clients |-> None]
    /\ orphans = {} /\ reqs = 0 /\ clock = 0 /\ faults = 0

Next == \E c \in Clients : Start(c) \/ Serve(c) \/ Break(c)

(* The operating system runs every process, and SQLite's busy handler      *)
(* retries: a request that can take a step takes one.                      *)
Fairness == \A c \in Clients : WF_vars(Serve(c))

Spec == Init /\ [][Next]_vars /\ Fairness

-----------------------------------------------------------------------------
(* Properties.                                                             *)

TypeOK ==
    /\ db \in Database /\ wal \in Database
    /\ lock \in Clients \cup {None}
    /\ pc \in [Clients -> Pcs]
    /\ job \in [Clients -> Job \cup {None}]
    /\ cfg \in [Clients -> Snapshot \cup {None}]
    /\ code \in [Clients -> Codes]
    /\ known \in [Clients -> Listing \cup {None}]
    /\ copy \in [Clients -> Copy \cup {None}]
    /\ orphans \subseteq Ids
    /\ reqs \in Nat /\ clock \in Nat /\ faults \in Nat

(* What calendar clients rely on ("getctag"): a client that listed a       *)
(* collection and finds its ctag unchanged need not list it again.  The    *)
(* ctag is read before the listing and written after the resource, each in *)
(* its own statement, so a writer may be between its two statements        *)
(* (Unbumped) or have died there (orphans); and the listing itself must    *)
(* not have been cut short.                                                *)
Settled(k) == k \notin orphans /\ \A c \in Clients : ~(Unbumped(c) /\ cfg[c].id = k)

UnchangedCtagMeansUnchanged ==
    \A c \in Clients : LET s == known[c] IN
        (s # None /\ s.whole /\ db.coln[s.id] # None
           /\ db.coln[s.id].ctag = s.ctag /\ Settled(s.id))
        => s.list = db.res[s.id]

(* The etag answers "is my copy still good?" (304, If-Match): the resource *)
(* now at the URL of a client's copy, if it bears the etag of the copy,    *)
(* has the body of the copy.                                               *)
EtagIdentifiesBody ==
    \A c \in Clients, k \in Ids : LET y == copy[c] IN
        (y # None /\ db.coln[k] # None /\ db.coln[k].url = y.url)
        => LET r == db.res[k][y.name] IN
           (r # None /\ r.etag = y.etag) => r.data = y.data

(* Deleting a collection takes its resources along and none is ever put    *)
(* into a collection that is gone, in flight as the PUT may have been.     *)
NoStrayResources ==
    \A k \in Ids, n \in Names : db.res[k][n] # None => db.coln[k] # None

(* Conditional requests: a stored resource is replaced only by a PUT that  *)
(* named the etag it bears at that very moment, and is deleted only so, by *)
(* an unconditional DELETE of its own URL, or with its collection.         *)
Replaces(c, k, n) ==
    /\ pc[c] # "idle" /\ pc'[c] # pc[c] /\ cfg[c].id = k /\ job[c].name = n
    /\ \/ job[c].digest = db.res[k][n].etag
       \/ job[c].digest = None /\ job[c].method = "delete"

NoLostUpdate ==
    [][\A k \in Ids, n \in Names :
         (db.res[k][n] # None /\ db'.res[k][n] # db.res[k][n])
         => db'.coln[k] = None \/ \E c \in Clients : Replaces(c, k, n)]_vars

(* A request works on the collection row it loaded at its start, which may *)
(* be gone, and its URL taken by a new collection, when it writes.  The    *)
(* new collection is another one to everyone who still holds the old row,  *)
(* and a write changes only the very collection that was loaded, or        *)
(* nothing: it never lands in the new one at the same URL.                 *)
NoMisdirectedWrite ==
    [][\A k \in Ids :
         /\ db.coln[k] = None /\ db'.coln[k] # None
            => \A c \in Clients : cfg[c] # None => cfg[c].id # k
         /\ (/\ db.coln[k] # None /\ db'.coln[k] # None
             /\ db'.coln[k] # db.coln[k] \/ db'.res[k] # db.res[k])
            => \E c \in Clients :
                 /\ pc[c] # "idle" /\ pc'[c] # pc[c] /\ cfg[c].id = k
                 /\ job[c].url = db.coln[k].url \/ job[c].id = k]_vars

(* Every request is answered (or its process dies): the lock of a          *)
(* transaction is always released, on every path out of it.                *)
EveryRequestEnds == \A c \in Clients : pc[c] # "idle" ~> pc[c] = "idle"

-----------------------------------------------------------------------------
(* Properties that documentation or comments state and the code does not   *)
(* have.                                                                   *)

(* db.c:1483, "and update the ctag"; db.c:1573, "updates the collection    *)
(* etag as well": once nobody is writing, an unchanged ctag means          *)
(* unchanged resources, whatever happened to the processes that wrote.     *)
CtagFollowsEveryChange ==
    \A c \in Clients : LET s == known[c] IN
        (s # None /\ s.whole /\ db.coln[s.id] # None
           /\ db.coln[s.id].ctag = s.ctag /\ \A b \in Clients : pc[b] = "idle")
        => s.list = db.res[s.id]

(* db.c:1485: success "if the resource matches the given tag or if the     *)
(* resource wasn't found".                                                 *)
DeletedMeansGone ==
    [][\A c \in Clients :
         (/\ pc[c] \in {"check", "commit"} /\ job[c].method = "delete"
          /\ pc'[c] = "idle" /\ code'[c] = 204)
         => db'.res[cfg[c].id][job[c].name] = None]_vars

(* dynamic.c:147: "If not set, the collection keeps its current            *)
(* properties."                                                            *)
UnsetFieldsKept ==
    [][\A c \in Clients, k \in Ids :
         (/\ At(c, "update", {"json_setcolnprops"}) /\ pc'[c] = "bump"
          /\ cfg[c].id = k /\ db.coln[k] # None)
         => \A f \in Fields \ job[c].fields :
               db'.coln[k].props[f] = db.coln[k].props[f]]_vars
=============================================================================
