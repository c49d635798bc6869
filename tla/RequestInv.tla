----------------------------- MODULE RequestInv -----------------------------
(***************************************************************************)
(* The inductive invariant of Request: what is known of the principals and *)
(* the collections loaded at each step, while others go on changing the    *)
(* database, and of the responses printed so far.                          *)
(***************************************************************************)
EXTENDS Request

Serving == Writers \cup {"method_get", "method_propfind", "method_report", "propfind_list"}
Labels  == {"main", "cols", "rproxies", "proxies", "method_json", "answered"} \cup Serving

Proxy  == [name : Users, bits : {READ, WRITE}]
Prncpl == [name : Users, cols : SUBSET Coln, rproxies : SUBSET Proxy,
           proxies : SUBSET Proxy]

(* The path is what http_paths makes of the URL, never looked into here.   *)
TypeOK ==
    /\ db \in Database /\ Consistent(db) /\ db \in past
    /\ req.auth \in Auths /\ req.body.hrefs \in Seq(Text) /\ at \in Labels
    /\ st \in [prncpl : Prncpl \cup {None}, rprncpl : Prncpl \cup {None},
               asked : {"prncpl", "rprncpl"}, path : {st.path},
               cfg : Coln \cup {None}, proxy : {0, READ, WRITE}]
    /\ answer \in [status : Nat, responses : Seq(Printed)]

(* What a listing goes through comes to an end.                            *)
PastOK == \A d \in past : IsFiniteSet(d.cols)

(* A principal as one of the databases since the request came had it.      *)
Loaded(p, u) ==
    /\ p \in Prncpl /\ p.name = u
    /\ \E d \in past : p.cols = {c \in d.cols : c.owner = u}

(* Who is known, and since which step.                                     *)
StageOK ==
    /\ at = "main" => st = Blank
    /\ at \in {"cols", "rproxies", "proxies"} =>
          /\ req.auth \notin {"none", "malformed"}
          /\ st.asked = "rprncpl" =>
                req.auth = "good" /\ st.prncpl \in Prncpl /\ st.prncpl.name = req.user
    /\ at \in {"rproxies", "proxies"} => Loaded(st[st.asked], Who)
    /\ at \in Serving =>
          /\ Entitled
          /\ st.prncpl \in Prncpl /\ st.prncpl.name = req.user
          /\ Loaded(st.rprncpl, st.path.principal)
          /\ st.cfg # None => /\ st.cfg \in st.rprncpl.cols
                              /\ st.cfg.url = st.path.collection
    /\ at = "method_propfind" => req.method = "PROPFIND"

(* A collection that was loaded is still there under its number and its    *)
(* URL, or was gone at some instant; the number never goes to another.     *)
Kept(c) ==
    /\ c.id < db.next
    /\ \A e \in db.cols : e.id = c.id => e.owner = c.owner /\ e.url = c.url
    /\ \/ \E e \in db.cols : e.id = c.id
       \/ \E d \in past : \A e \in d.cols : e.owner # c.owner \/ e.url # c.url

KeptOK == \A p \in {st.prncpl, st.rprncpl} \ {None} : \A c \in p.cols : Kept(c)

PrintedOK ==
    /\ \A r \in Printed : WasTrue(r, st, past) /\ PrivilegesHold(r, st) /\ LeadsBack(r)
    /\ at \notin {"propfind_list", "answered"} => answer.responses = <<>>
    /\ at = "propfind_list" =>
          /\ Len(answer.responses) <= Len(Hrefs)
          /\ \A i \in DOMAIN answer.responses :
                answer.responses[i].about = PathOf(Hrefs[i])

(* A request is sound in every state it passes through.                    *)
RequestSound ==
    /\ TypeOK /\ PastOK /\ StageOK /\ KeptOK /\ PrintedOK
    /\ AnswersWereTrue /\ MultigetAnswersEach /\ OnlyTheEntitled
=============================================================================
