---------------------------- MODULE AccountsInv -----------------------------
(***************************************************************************)
(* The inductive invariant of Accounts: what a process knows at each of    *)
(* its steps, how far the database is made, and what stays true of a row   *)
(* or a right between the moment it is loaded and the moment it is used.   *)
(***************************************************************************)
EXTENDS Accounts

Changers == {"passwd", "setpass", "setemail"}
Making   == {"tables", "setowner"}
Claiming == {"owner", "schema"} \cup Making    \* in db_owner_check_or_set
LoadedPcs == {"update", "identify", "db_proxy", "db_proxy_remove", "target", "act"}

(* What each page needs was asked for.                                     *)
Asked(j) ==
    /\ j \in Job
    /\ j.alt => j.page = "passwd"
    /\ j.page = "adduser" => j.new \in Hashes /\ j.email \in Mails
    /\ j.page \in {"modproxy", "delproxy"} => j.email \in Mails
    /\ j.page = "method" => j.other \in Users

(* Which page may be at which step, and what it has looked up by then.     *)
StageOf(j, row, x, label) ==
    /\ label = "idle" => j = None
    /\ label # "idle" => Asked(j)
    /\ label \in Claiming => j.page = "adduser" \/ j.alt
    /\ label = "create" => j.page = "adduser"
    /\ label \in {"load"} \cup LoadedPcs => j.page # "adduser"
    /\ label = "update" => j.page \in Changers
    /\ label \in {"identify", "db_proxy", "db_proxy_remove"} =>
           j.page \in {"modproxy", "delproxy"}
    /\ label = "db_proxy" => j.page = "modproxy"
    /\ label \in {"target", "act"} => j.page = "method"
    /\ label \in LoadedPcs =>
           row \in Loaded /\ row.name = j.user /\ (j.alt \/ row.hash = j.hash)
    /\ label \notin LoadedPcs => row = None
    /\ label \in {"db_proxy", "db_proxy_remove"} => x \in Ids
    /\ label = "act" => x \in {READ, WRITE, None}
    /\ label \notin {"db_proxy", "db_proxy_remove", "act"} => x = None
    /\ label = "db_proxy" => x # row.id

StageOK == \A p \in Procs : StageOf(job[p], me[p], arg[p], pc[p])

(* Past db_owner_check_or_set, the one who runs kcaldav.passwd -C or -u is *)
(* the owner or root.                                                      *)
ManagerOK ==
    \A p \in Procs : /\ pc[p] \notin {"idle"} \cup Claiming
                     /\ job[p].page = "adduser" \/ job[p].alt
                     => owner # None /\ MayManage(job[p].uid)

(* One process makes the tables, and then names the owner.                 *)
SchemaOK ==
    /\ owner # None => schema = "full"
    /\ \A p \in Procs :
         /\ pc[p] = "tables"   => schema = "partial"
         /\ pc[p] = "setowner" => schema = "full" /\ owner = None
    /\ \A p, q \in Procs : pc[p] \in Making /\ pc[q] \in Making => p = q

(* unique (name).                                                          *)
NamesUnique == \A i, k \in Ids :
    prncpl[i] # None /\ prncpl[k] # None /\ prncpl[i].name = prncpl[k].name => i = k

(* The row a process has loaded is still there, under its name.            *)
LoadedOK == \A p \in Procs : pc[p] \in LoadedPcs =>
    prncpl[me[p].id] # None /\ prncpl[me[p].id].name = me[p].name

(* A request about to act on another's calendars was given the right to,   *)
(* which is still the one in the table unless it has been overtaken.       *)
ActOK == \A p \in Procs : pc[p] = "act" =>
    /\ Named(job[p].other) # {}
    /\ \A i \in Named(job[p].other) \ {me[p].id} :
         p \in overtaken \/ (/\ arg[p] = proxy[i][me[p].id]
                             /\ Suffices(arg[p], job[p].write))
    /\ arg[p] = None => \A i \in Named(job[p].other) : i = me[p].id

(* A request about to give a right to somebody has found that somebody by  *)
(* the address it was given.                                               *)
BearersOK == \A p \in Procs : pc[p] = "db_proxy" => arg[p] \in bore[p]

(* What the accounts rely on, all together.                                *)
RowsSound ==
    /\ StateOK /\ StageOK /\ ManagerOK /\ SchemaOK
    /\ NamesUnique /\ LoadedOK /\ ActOK

AccountsSound == RowsSound /\ TypeOK /\ BearersOK
=============================================================================
