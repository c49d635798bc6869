---------------------------- MODULE CalStoreInv -----------------------------
(***************************************************************************)
(* The inductive invariant of CalStore: what a request knows at each of    *)
(* its steps, what the writer's view of the database is while the write    *)
(* lock is held, and how snapshots and listings age.                       *)
(***************************************************************************)
EXTENDS CalStore

PropMethods == {"proppatch", "json_setcolnprops"}
IdMethods   == {"json_delcoln", "json_setcolnprops"}
InTransPcs  == {"check", "write", "wbump", "commit"}

(* A process serves a request; past "load" it has the collection row,      *)
(* except for json_newcoln which needs none.                               *)
JobAt(j, g, label) ==
    /\ label \in {"idle", "load"} => g = None
    /\ label # "idle" =>
        /\ j \in Job
        /\ j.method \in {"put", "delete", "get"} => j.name \in Names
        /\ j.method = "json_newcoln" => label = "exec" /\ g = None
        /\ j.method \notin IdMethods => j.url \in Urls
        /\ j.method \in IdMethods => j.id \in Ids
        /\ label # "load" /\ j.method # "json_newcoln" => g \in Snapshot
        /\ label = "update" => j.method \in PropMethods
        /\ label = "bump" => j.method \in PropMethods \cup {"put", "delete"}
        /\ label \in InTransPcs => j.method \in {"put", "delete"} /\ j.digest \in Nat

JobOK == \A c \in Clients : JobAt(job[c], cfg[c], pc[c])

(* The write lock belongs to the process inside a transaction; outside     *)
(* any transaction there is nothing uncommitted.                           *)
LockOK ==
    /\ \A c \in Clients : pc[c] \in InTransPcs <=> lock = c
    /\ lock = None => wal = db

(* Within a transaction: the etag was compared with the committed row, and *)
(* that row is still the committed one; the uncommitted changes are that   *)
(* row and then the ctag of its collection.                                *)
TransOK ==
    \A c \in Clients : pc[c] \in InTransPcs =>
        LET k == cfg[c].id
            n == job[c].name
        IN /\ pc[c] \in {"check", "write"} => wal = db
           /\ pc[c] # "check" => /\ db.res[k][n] # None
                                 /\ db.res[k][n].etag = job[c].digest
           /\ wal.next = db.next
           /\ pc[c] = "wbump"  => wal.coln = db.coln
           /\ pc[c] = "commit" => wal.coln = BumpCtag(db, k).coln
           /\ \A i \in Ids, m \in Names :
                 i # k \/ m # n => wal.res[i][m] = db.res[i][m]

(* What a transaction has written of the resource, and not yet committed.  *)
WrittenOK ==
    \A c \in Clients : pc[c] \in {"wbump", "commit"} =>
        LET j == job[c] IN
        wal.res[cfg[c].id][j.name] = IF j.method = "put"
                                     THEN [etag |-> j.etag, data |-> j.body]
                                     ELSE None

(* Identifiers are handed out in order and never again; a resource lives   *)
(* in a collection.                                                        *)
RowsOK(d) ==
    /\ \A k \in Ids : k >= d.next => d.coln[k] = None
    /\ \A k \in Ids, n \in Names : d.res[k][n] # None => d.coln[k] # None

(* What a process or a client holds of a collection came from a row that   *)
(* existed, and the ctag has not gone back since.                          *)
Aged(d, k, t) == k < d.next /\ (d.coln[k] # None => t <= d.coln[k].ctag)

SnapshotsOK ==
    \A c \in Clients :
        /\ cfg[c] # None   => Aged(db, cfg[c].id, cfg[c].ctag)
        /\ known[c] # None => Aged(db, known[c].id, known[c].ctag)

(* The collection a request works on, if it is still there, is the one the *)
(* request addressed.                                                      *)
TargetsOK ==
    \A c \in Clients : cfg[c] # None /\ db.coln[cfg[c].id] # None =>
        \/ job[c].url = db.coln[cfg[c].id].url
        \/ job[c].id = cfg[c].id

(* An etag that is never made twice goes with the body it was made for.    *)
EtagsOK ==
    /\ \A c \in Clients : pc[c] # "idle" => job[c].etag = job[c].body
    /\ \A k \in Ids, n \in Names :
         db.res[k][n] # None => db.res[k][n].etag = db.res[k][n].data
    /\ \A c \in Clients : copy[c] # None => copy[c].etag = copy[c].data

IInv ==
    /\ TypeOK /\ JobOK /\ LockOK /\ TransOK /\ WrittenOK
    /\ RowsOK(db) /\ SnapshotsOK /\ TargetsOK
    /\ UnchangedCtagMeansUnchanged
    /\ Arc4Random => EtagsOK
=============================================================================
