------------------------------ MODULE Request -------------------------------
(***************************************************************************)
(* One request from its first check to its answer, amid the requests of    *)
(* others: who it is from, on whose calendars, which collection and        *)
(* resource; then GET, PROPFIND and REPORT with what they print, or the    *)
(* handler that writes (CalStore, Accounts).  Every SELECT is a step of    *)
(* its own, and anybody may change the database in between.                *)
(***************************************************************************)
EXTENDS Paths, FiniteSets

CONSTANTS
    Users,       \* names of principals, as texts of Paths
    Urls,        \* URLs of collections
    Names,       \* URLs of resources
    Databases,   \* databases to begin with
    Requests,    \* requests that may come
    MaxChanges(_),  \* bound: changes by others amid a request
    MaxFaults,   \* bound: statements that fail
    None

READ  == 1
WRITE == 2

Text == Seq(STRING)
Coln == [id : Nat, owner : Users, url : Text, ctag : Nat]
Row  == [coln : Nat, name : Text, etag : Nat]

Database == [cols : SUBSET Coln, rows : SUBSET Row, next : Nat,
             proxy : [Users -> [Users -> {0, READ, WRITE}]]]

(* What the schema has SQLite enforce: primary, unique and foreign keys;   *)
(* identifiers are never given out again.                                  *)
Consistent(d) ==
    /\ IsFiniteSet(d.cols) /\ IsFiniteSet(d.rows)
    /\ \A c, e \in d.cols : c.id = e.id \/ (c.owner = e.owner /\ c.url = e.url) => c = e
    /\ \A r, q \in d.rows : r.coln = q.coln /\ r.name = q.name => r = q
    /\ \A r \in d.rows : \E c \in d.cols : c.id = r.coln
    /\ \A c \in d.cols : c.id < d.next

(* What the checks of main make of the Authorization header.               *)
Auths == {"none", "malformed", "wrong", "stale", "replay", "good"}

(* The names of principals pass check_safe_string (kcaldav.passwd.c:337).  *)
ASSUME RequestAssumption ==
    /\ Users \subseteq Text /\ \A u \in Users : "/" \notin ToSet(u)
    /\ Urls \subseteq Text /\ Names \subseteq Text
    /\ \A d \in Databases : d \in Database /\ Consistent(d)
    /\ \A r \in Requests : r.auth \in Auths /\ r.body.hrefs \in Seq(Text)
    /\ None \notin Coln /\ None \notin Row
    /\ None \notin [name : Users, cols : SUBSET Coln,
                    rproxies : SUBSET [name : Users, bits : {READ, WRITE}],
                    proxies : SUBSET [name : Users, bits : {READ, WRITE}]]

VARIABLES
    db,       \* cols {[id, owner, url, ctag]}, rows {[coln, name, etag]},
              \* proxy[i][j] (what j may do as i; 0: no row), next id or etag
    req,      \* the request
    at,       \* the step it has reached
    st,       \* struct state
    answer,   \* status and responses
    past,     \* history: the databases since the request came
    changes, faults

vars == <<db, req, at, st, answer, past, changes, faults>>

-----------------------------------------------------------------------------
(* Where the request leaves this module for another.                       *)
Writers == {"method_put", "method_delete", "method_proppatch"}
Handed  == Writers \cup {"method_json"}

(* The others, as CalStore and Accounts have them.  PutRow and DropRow take *)
(* a row and its ctag at once, which db.c changes in two autocommit        *)
(* statements: CalStore has them apart, and what is stated here of a       *)
(* request, whatever ctag it prints, does not depend on the ctag's time.   *)

Touch(id) == {IF c.id = id THEN [c EXCEPT !.ctag = @ + 1] ELSE c : c \in db.cols}
RowsAt(d, id, name) == {r \in d.rows : r.coln = id /\ r.name = name}

PutRow == \E c \in db.cols, n \in Names :
    db' = [db EXCEPT !.cols = Touch(c.id), !.next = @ + 1,
              !.rows = (@ \ RowsAt(db, c.id, n)) \cup
                       {[coln |-> c.id, name |-> n, etag |-> db.next]}]

DropRow == \E r \in db.rows :
    db' = [db EXCEPT !.cols = Touch(r.coln), !.rows = @ \ {r}]

DropColn == \E c \in db.cols :
    db' = [db EXCEPT !.cols = @ \ {c}, !.rows = {r \in @ : r.coln # c.id}]

NewColn_NoAutoincrement == \E u \in Users, url \in Urls :   \* mutant: ids come back
    /\ \A c \in db.cols : c.owner # u \/ c.url # url
    /\ db' = [db EXCEPT !.next = @ + 1, !.cols = @ \cup
                {[id |-> 1 + Max({c.id : c \in db.cols} \cup {0}), owner |-> u,
                  url |-> url, ctag |-> 1]}]

NewColn == \E u \in Users, url \in Urls :
    /\ \A c \in db.cols : c.owner # u \/ c.url # url
    /\ db' = [db EXCEPT !.next = @ + 1, !.cols = @ \cup
                {[id |-> db.next, owner |-> u, url |-> url, ctag |-> 1]}]

Grant == \E u, v \in Users, b \in {0, READ, WRITE} :
    /\ u # v /\ db.proxy[u][v] # b
    /\ db' = [db EXCEPT !.proxy[u][v] = b]

Others ==
    /\ at \notin {"main", "answered"} \cup Handed /\ changes < MaxChanges(req)
    /\ PutRow \/ DropRow \/ DropColn \/ NewColn \/ Grant
    /\ past' = past \cup {db'} /\ changes' = changes + 1
    /\ UNCHANGED <<req, at, st, answer, faults>>

-----------------------------------------------------------------------------
unchanged == <<db, req, past, changes>>

Fault == faults < MaxFaults /\ faults' = faults + 1
Works == UNCHANGED faults

Goto(label, s) == at' = label /\ st' = s /\ UNCHANGED answer
Finish(status, responses, s) ==
    /\ at' = "answered" /\ answer' = [status |-> status, responses |-> responses]
    /\ st' = s
Reply(status, s) == Finish(status, <<>>, s)

(* kvalid_body: a body that does not parse is as good as none.             *)
XmlTypes == {"propfind", "propertyupdate", "calendar-query", "calendar-multiget"}
kvalid_body(b) ==
    IF b.mime = "text/calendar" THEN b.type = "ical"
    ELSE b.type \in XmlTypes /\ \A i \in DOMAIN b.hrefs : "%" \notin ToSet(b.hrefs[i])

(* Up to the first look at the database.                                   *)
main ==
    /\ at = "main"
    /\ IF req.method = "unknown"                  THEN Reply(405, st)
       ELSE IF req.method = "OPTIONS"             THEN Reply(200, st)
       ELSE IF req.auth \in {"none", "malformed"} THEN Reply(401, st)
       ELSE IF req.path = <<>>                    THEN Reply(307, st)
       ELSE Goto("cols", [st EXCEPT !.path = http_paths(req.path)])
    /\ Works /\ UNCHANGED unchanged

-----------------------------------------------------------------------------
(* The method, once it is known who asks and for what.                     *)

ProxyTypes == {<<"calendar-proxy-read">>, <<"calendar-proxy-write">>}

Dispatch(s) ==
    CASE req.method = "PUT"       -> Goto("method_put", s)
      [] req.method = "DELETE"    -> Goto("method_delete", s)
      [] req.method = "PROPPATCH" -> Goto("method_proppatch", s)
      [] req.method = "PROPFIND"  -> Goto("method_propfind", s)
      [] req.method = "REPORT"    -> Goto("method_report", s)
      [] req.method = "GET" /\ s.path.resource # <<>> -> Goto("method_get", s)
      [] req.method = "GET" /\ s.path.resource = <<>> -> Reply(404, s)
      [] req.method = "POST"      -> Reply(IF s.path.resource = <<>> THEN 404 ELSE 405, s)
      [] OTHER                    -> Reply(405, s)

(* The collection of that name among those loaded.                         *)
Collection(s, url) ==
    LET found == {c \in s.rprncpl.cols : c.url = url}
    IN IF found = {} THEN None ELSE CHOOSE c \in found : TRUE

Locate(s) ==
    LET c == Collection(s, s.path.collection)
    IN IF c = None /\ s.path.collection \notin ProxyTypes \cup {<<>>}
       THEN Reply(404, s)
       ELSE Dispatch([s EXCEPT !.cfg = c])

-----------------------------------------------------------------------------
(* db_prncpl_load, first of who asks, then of whose calendars they are, if *)
(* another's.  Principals are never removed.                               *)

Who == IF st.asked = "prncpl" THEN req.user ELSE st.path.principal

SelectCols ==
    /\ at = "cols"
    /\ \/ Fault /\ Reply(505, st)
       \/ Works /\ Who \notin Users /\ Reply(401, st)
       \/ /\ Works /\ Who \in Users
          /\ Goto("rproxies", [st EXCEPT ![st.asked] =
                [name |-> Who, cols |-> {c \in db.cols : c.owner = Who},
                 rproxies |-> {}, proxies |-> {}]])
    /\ UNCHANGED unchanged

SQL_PROXY_ITER_AsPrincipal(d, u) ==   \* mutant: WHERE principal=?
    {[name |-> v, bits |-> d.proxy[u][v]] : v \in {v \in Users : d.proxy[u][v] # 0}}

(* Those as whom u may act, and those who may act as u.                    *)
SQL_PROXY_ITER(d, u) ==
    {[name |-> v, bits |-> d.proxy[v][u]] : v \in {v \in Users : d.proxy[v][u] # 0}}

SQL_PROXY_ITER_PRNCPL(d, u) ==
    {[name |-> v, bits |-> d.proxy[u][v]] : v \in {v \in Users : d.proxy[u][v] # 0}}

SelectRproxies ==
    /\ at = "rproxies"
    /\ \/ Fault /\ Reply(505, st)
       \/ Works /\ Goto("proxies", [st EXCEPT ![st.asked].rproxies = SQL_PROXY_ITER(db, Who)])
    /\ UNCHANGED unchanged

(* Digest, nonce (NonceStore), then where the request goes.                *)
Authenticate(s) ==
    IF req.auth \in {"wrong", "stale"} THEN Reply(401, s)
    ELSE IF req.auth = "replay" THEN Reply(403, s)
    ELSE IF req.json /\ req.method \in {"GET", "POST"} THEN Goto("method_json", s)
    ELSE IF s.path.principal = <<>> THEN Reply(307, s)
    ELSE IF s.path.principal # s.prncpl.name
         THEN Goto("cols", [s EXCEPT !.asked = "rprncpl"])
    ELSE Locate([s EXCEPT !.rprncpl = s.prncpl])

MayUse_AllRead(method, bits) ==   \* mutant: PROPPATCH taken for a method that reads
    IF method \in {"PUT", "DELETE"} THEN bits = WRITE ELSE bits \in {READ, WRITE}

MayUse(method, bits) ==
    IF method \in {"PUT", "PROPPATCH", "DELETE"} THEN bits = WRITE
                                                 ELSE bits \in {READ, WRITE}

Authorise(s) ==
    LET mine == {p.bits : p \in {p \in s.rprncpl.proxies : p.name = s.prncpl.name}}
    IN IF \E b \in mine : MayUse(req.method, b)
       THEN Locate([s EXCEPT !.proxy = CHOOSE b \in mine : TRUE])
       ELSE Reply(403, s)

SelectProxies ==
    /\ at = "proxies"
    /\ \/ Fault /\ Reply(505, st)
       \/ /\ Works
          /\ LET s == [st EXCEPT ![st.asked].proxies = SQL_PROXY_ITER_PRNCPL(db, Who)]
             IN IF s.asked = "prncpl" THEN Authenticate(s) ELSE Authorise(s)
    /\ UNCHANGED unchanged

-----------------------------------------------------------------------------
(* property.c: what is printed for each property.  A value that no other   *)
(* state bears upon (addresses, quotas, content types) is its own name.    *)

Routed == {"calendar-home-set", "calendar-user-address-set", "current-user-principal",
           "getcontenttype", "principal-URL", "resourcetype"}
OfAll  == {"current-user-privilege-set", "owner", "quota-available-bytes",
           "quota-used-bytes"}

OfPrncpl == Routed \cup {"calendar-proxy-read-for", "calendar-proxy-write-for",
                         "group-membership"}
OfRes    == Routed \cup OfAll \cup {"calendar-data", "getetag"}
Settings == {"calendar-color", "calendar-description", "displayname"}
Fixed    == {"calendar-timezone", "min-date-time", "schedule-calendar-transp",
             "supported-calendar-component-set", "supported-calendar-data"}
OfColn   == Routed \cup OfAll \cup Settings \cup Fixed \cup {"getctag"}

Known == OfPrncpl \cup OfRes \cup OfColn \cup {"group-member-set"}

Link(name) == <<pname, "/">> \o name \o <<"/">>
Home(s) == Link(s.rprncpl.name)
Links(proxies, bits) == {Link(p.name) : p \in {p \in proxies : p.bits = bits}}

Own(s) == s.prncpl.name = s.rprncpl.name

principal_group_membership(s) ==
    {<<pname, "/">> \o p.name \o <<"/", "calendar-proxy-read", "/">> :
        p \in {p \in s.rprncpl.rproxies : p.bits = READ}} \cup
    {<<pname, "/">> \o p.name \o <<"/", "calendar-proxy-write", "/">> :
        p \in {p \in s.rprncpl.rproxies : p.bits = WRITE}}

collection_current_user_privilege_set_Anyone(s) ==   \* mutant: whoever may read
    {"read-current-user-privilege-set", "read", "write", "bind", "unbind"}

collection_current_user_privilege_set(s) ==
    {"read-current-user-privilege-set"} \cup
        IF Own(s) \/ s.proxy = WRITE THEN {"read", "write", "bind", "unbind"}
        ELSE IF s.proxy = READ THEN {"read"} ELSE {}

pgetfp(key, s) ==
    CASE key \in {"calendar-home-set", "owner", "principal-URL"} -> {Home(s)}
      [] key = "current-user-principal"   -> {Link(s.prncpl.name)}
      [] key = "calendar-proxy-read-for"  -> Links(s.rprncpl.rproxies, WRITE)
      [] key = "calendar-proxy-write-for" -> Links(s.rprncpl.rproxies, READ)
      [] key = "group-membership"         -> principal_group_membership(s)
      [] key = "resourcetype"             -> {"principal", "collection"}
      [] OTHER                            -> key

cgetfp(key, s, c) ==
    CASE key \in Settings  -> <<key, c.id>>
      [] key = "getctag"   -> c.ctag
      [] key = "resourcetype" -> {"collection", "calendar"}
      [] key = "current-user-privilege-set" -> collection_current_user_privilege_set(s)
      [] OTHER             -> pgetfp(key, s)

rgetfp(key, s, c, r) ==
    CASE key \in {"getetag", "calendar-data"} -> r.etag
      [] key = "resourcetype" -> {}
      [] OTHER -> cgetfp(key, s, c)

-----------------------------------------------------------------------------
(* propfind.c: a response, its properties found and not found.  What it is *)
(* about and the row it shows are history.                                 *)

Response(href, status, found, missing, about, row) ==
    [href |-> href, status |-> status, found |-> found, missing |-> missing,
     about |-> about, row |-> row]

About(s, url, name) == [principal |-> s.rprncpl.name, collection |-> url, resource |-> name]

Unknown(props) == SelectSeq(props, LAMBDA key : key \notin Known)

propfind_coln_NoSlash(s, props, c) ==   \* mutant: a collection printed as a file
    Response(Home(s) \o c.url, 200,
             [key \in ToSet(props) \cap OfColn |-> cgetfp(key, s, c)], Unknown(props),
             About(s, c.url, <<>>), None)

propfind_coln(s, props, c) ==
    Response(Home(s) \o c.url \o (IF c.url = <<>> THEN <<>> ELSE <<"/">>), 200,
             [key \in ToSet(props) \cap OfColn |-> cgetfp(key, s, c)], Unknown(props),
             About(s, c.url, <<>>), None)

propfind_resource(s, props, c, r) ==
    Response(Home(s) \o c.url \o <<"/">> \o r.name, 200,
             [key \in ToSet(props) \cap OfRes |-> rgetfp(key, s, c, r)], Unknown(props),
             About(s, c.url, r.name), r)

propfind_prncpl(s, props) ==
    Response(Home(s), 200,
             [key \in ToSet(props) \cap OfPrncpl |-> pgetfp(key, s)], Unknown(props),
             About(s, <<>>, <<>>), None)

(* Readers or writers: those who may act as this principal.                *)
Members(s, url) ==
    Links(s.rprncpl.proxies, IF url = <<"calendar-proxy-write">> THEN WRITE ELSE READ)

propfind_proxy(s, props, url) ==
    LET served == {"resourcetype", "group-member-set"}
    IN Response(Home(s) \o url \o <<"/">>, 200,
                [key \in ToSet(props) \cap served |->
                    IF key = "resourcetype" THEN {"principal", url[1]} ELSE Members(s, url)],
                SelectSeq(props, LAMBDA key : key \notin served),
                About(s, url, <<>>), None)

(* The rows of a collection in the order of one SELECT, whichever it is;   *)
(* the listing ends at a row that cannot be read, and nothing says so.     *)
Directory(s, props, depth, rows) ==
    IF depth = "0"
    THEN <<IF s.cfg = None THEN propfind_prncpl(s, props) ELSE propfind_coln(s, props, s.cfg)>>
    ELSE IF s.cfg # None
    THEN <<propfind_coln(s, props, s.cfg)>> \o
         [i \in DOMAIN rows |-> propfind_resource(s, props, s.cfg, rows[i])]
    ELSE LET cols == SetToSeq(s.rprncpl.cols)
         IN <<propfind_prncpl(s, props),
              propfind_proxy(s, props, <<"calendar-proxy-read">>),
              propfind_proxy(s, props, <<"calendar-proxy-write">>)>> \o
            [i \in DOMAIN cols |-> propfind_coln(s, props, cols[i])]

propfind_directory ==
    LET rows == IF st.cfg = None THEN {} ELSE {r \in db.rows : r.coln = st.cfg.id}
    IN \/ /\ Works
          /\ Finish(207, Directory(st, req.body.props, req.depth, SetToSeq(rows)), st)
       \/ /\ Fault /\ st.cfg # None /\ req.depth # "0"
          /\ \E got \in SUBSET rows :
             Finish(207, Directory(st, req.body.props, req.depth, SetToSeq(got)), st)

-----------------------------------------------------------------------------
(* The methods that read.                                                  *)

req2caldav_Refuses == ~ kvalid_body(req.body) \/ req.body.mime # "text/xml"

req2caldav_Status == IF kvalid_body(req.body) THEN 415 ELSE 400

(* The row asked for, if it is there, and what is answered without one.    *)
db_resource_load == RowsAt(db, st.cfg.id, st.path.resource)
NoRow ==
    \/ Fault /\ Reply(505, st)
    \/ Works /\ db_resource_load = {} /\ Reply(404, st)

GetRow ==
    \/ NoRow
    \/ \E r \in db_resource_load :
          Works /\ Finish(IF req.match = r.etag THEN 304 ELSE 200,
                         <<Response(<<>>, 200, <<>>, <<>>, st.path, r)>>, st)

method_get ==
    /\ at = "method_get"
    /\ IF st.cfg = None THEN Works /\ Reply(403, st) ELSE GetRow
    /\ UNCHANGED unchanged

ShowRow ==
    \/ NoRow
    \/ \E r \in db_resource_load :
          Works /\ Finish(207, <<propfind_resource(st, req.body.props, st.cfg, r)>>, st)

method_propfind ==
    /\ at = "method_propfind"
    /\ IF req2caldav_Refuses THEN Works /\ Reply(req2caldav_Status, st)
       ELSE IF req.body.type # "propfind" THEN Works /\ Reply(415, st)
       ELSE IF st.path.resource # <<>>
            THEN IF st.cfg = None THEN Works /\ Reply(403, st) ELSE ShowRow
       ELSE IF st.cfg = None /\ st.path.collection \in ProxyTypes
            THEN Works /\ Finish(207, <<propfind_proxy(st, req.body.props,
                                                       st.path.collection)>>, st)
       ELSE propfind_directory
    /\ UNCHANGED unchanged

method_report ==
    /\ at = "method_report"
    /\ IF st.cfg = None THEN Works /\ Reply(403, st)
       ELSE IF req2caldav_Refuses THEN Works /\ Reply(req2caldav_Status, st)
       ELSE IF req.body.type \notin {"calendar-multiget", "calendar-query"}
            THEN Works /\ Reply(415, st)
       ELSE IF st.path.resource # <<>> THEN ShowRow
       ELSE IF req.body.type = "calendar-query" THEN propfind_directory
       ELSE Works /\ Goto("propfind_list", st)
    /\ UNCHANGED unchanged

(* The links of the body, as the parser has decoded them.                  *)
Hrefs == [i \in DOMAIN req.body.hrefs |-> close_href(req.body.hrefs[i])]

PathOf(href) == IF IsPrefix(<<pname>>, href) THEN http_paths(Tail(href)) ELSE NoPath

propfind_resource_lookup_AnyPrincipal(s, d, href) ==   \* mutant: principal not compared
    LET path == PathOf(href)
        c    == Collection(s, path.collection)
    IN IF c = None THEN {} ELSE {<<c, r>> : r \in RowsAt(d, c.id, path.resource)}

(* The collection and the row that a link names: at most one of each.      *)
propfind_resource_lookup(s, d, href) ==
    LET path == PathOf(href)
        c    == Collection(s, path.collection)
    IN IF path.principal # s.rprncpl.name \/ c = None THEN {}
       ELSE {<<c, r>> : r \in RowsAt(d, c.id, path.resource)}

Listed(status, href) ==
    Response(<<pname>> \o khttp_urlencode(href), status, <<>>, <<>>, PathOf(href), None)

propfind_list ==
    /\ at = "propfind_list"
    /\ LET i == Len(answer.responses) + 1
           More(r) == answer' = [status |-> 207, responses |-> Append(answer.responses, r)]
       IN IF i > Len(Hrefs)
          THEN Works /\ at' = "answered" /\ answer' = [answer EXCEPT !.status = 207]
          ELSE /\ UNCHANGED at
               /\ \/ Fault /\ More(Listed(505, Hrefs[i]))
                  \/ LET found == propfind_resource_lookup(st, db, Hrefs[i]) IN
                     /\ Works
                     /\ \/ found = {} /\ More(Listed(403, Hrefs[i]))
                        \/ \E f \in found :
                              More(propfind_resource(st, req.body.props, f[1], f[2]))
    /\ UNCHANGED <<st, unchanged>>

-----------------------------------------------------------------------------
Blank == [prncpl |-> None, rprncpl |-> None, asked |-> "prncpl", path |-> NoPath,
          cfg |-> None, proxy |-> 0]

Init ==
    /\ db \in Databases /\ req \in Requests
    /\ at = "main" /\ st = Blank /\ answer = [status |-> 0, responses |-> <<>>]
    /\ past = {db} /\ changes = 0 /\ faults = 0

Next == \/ main \/ SelectCols \/ SelectRproxies \/ SelectProxies
        \/ method_get \/ method_propfind \/ method_report \/ propfind_list
        \/ Others

Spec == Init /\ [][Next]_vars

-----------------------------------------------------------------------------
Answered == at = "answered"
Printed  == {answer.responses[i] : i \in DOMAIN answer.responses}

(* The rows that a path named in a database.                               *)
RowsOf(d, path) ==
    {r \in d.rows : r.name = path.resource /\ \E c \in d.cols :
        c.id = r.coln /\ c.owner = path.principal /\ c.url = path.collection}

WasTrue(r, s, ds) ==
    /\ r.row # None => \E d \in ds : r.row \in RowsOf(d, r.about)
    /\ (r.status = 403 /\ r.about.principal = s.rprncpl.name)
          => \E d \in ds : RowsOf(d, r.about) = {}

(* A resource that an answer shows was there, at that path and with that   *)
(* etag, at some instant of the request; one that it calls missing was     *)
(* missing at some instant.  The collection is looked up by name when the  *)
(* principal is loaded, its rows by number later (kcaldav.c:744,           *)
(* propfind.c:280).                                                        *)
AnswersWereTrue == Answered =>
    /\ \A r \in Printed : WasTrue(r, st, past)
    /\ (answer.status = 404 /\ st.path.resource # <<>>)
          => \E d \in past : RowsOf(d, st.path) = {}

(* A multiget has one response for each link, in their order, that speaks  *)
(* of what the link names, whatever happened to the others                 *)
(* (propfind_list).                                                        *)
MultigetAnswersEach ==
    (/\ Answered /\ answer.status = 207 /\ st.path.resource = <<>>
     /\ req.method = "REPORT" /\ req.body.type = "calendar-multiget")
    => /\ Len(answer.responses) = Len(req.body.hrefs)
       /\ \A i \in DOMAIN answer.responses :
             answer.responses[i].about = PathOf(close_href(req.body.hrefs[i]))

(* The right to what is asked, which the owner needs not be given.         *)
Entitled ==
    /\ req.auth = "good"
    /\ \/ st.path.principal = req.user
       \/ \E d \in past :
             d.proxy[st.path.principal][req.user] \in
                (IF req.method \in {"PUT", "DELETE", "PROPPATCH"} THEN {WRITE}
                 ELSE {READ, WRITE})

(* Nobody is shown anything or brought to a method that writes, unless the *)
(* calendars are his own or, at some instant of the request, he had the    *)
(* right that this takes (kcaldav.c:692).                                  *)
OnlyTheEntitled ==
    (\/ at \in Writers
     \/ Answered /\ req.method # "OPTIONS" /\ answer.status \in {200, 207, 304})
    => Entitled

LeadsBack(r) ==
    (/\ r.status = 200 /\ r.href # <<>>
     /\ "/" \notin ToSet(r.about.resource)
     /\ http_decode(r.about.resource) = r.about.resource)
    => PathOf(r.href) = r.about

(* A link in a listing leads back to what it was printed for: propfind.c   *)
(* prints names as they are stored, http_paths decodes the last one.  A    *)
(* resource whose name http_decode changes or that holds a "/" has none.   *)
HrefsResolve == Answered => \A r \in Printed : LeadsBack(r)

PrivilegesHold(r, s) ==
    "current-user-privilege-set" \in DOMAIN r.found =>
        LET p == r.found["current-user-privilege-set"] IN
        /\ \A m \in {"PUT", "DELETE", "PROPPATCH"} :
              "write" \in p <=> Own(s) \/ MayUse(m, s.proxy)
        /\ \A m \in {"GET", "PROPFIND", "REPORT"} :
              "read" \in p <=> Own(s) \/ MayUse(m, s.proxy)

(* What the properties say a client may do is what main lets it do         *)
(* (property.c:224, kcaldav.c:717).                                        *)
PrivilegesAreTrue == Answered => \A r \in Printed : PrivilegesHold(r, st)

(* A principal is a member of the groups that list it as a member, by two  *)
(* queries and two callbacks (property.c:382, propfind.c:362).             *)
View(u) == [Blank EXCEPT !.rprncpl =
              [name |-> u, cols |-> {}, rproxies |-> SQL_PROXY_ITER(db, u),
               proxies |-> SQL_PROXY_ITER_PRNCPL(db, u)]]
MembershipIsMutual == Answered =>
    \A u, v \in Users, url \in ProxyTypes :
        Home(View(v)) \o url \o <<"/">> \in principal_group_membership(View(u))
        <=> Link(u) \in Members(View(v), url)

(* util.c:170, of the names that http_safe_string accepts: "all words that *)
(* will show up as path components [...] needn't be re-encoded".  Then a   *)
(* multiget of a link that a listing printed finds what was listed.        *)
ListedIsFetched == Answered =>
    \A r \in Printed :
        (/\ r.row # None /\ r.href # <<>> /\ r.row \in db.rows
         /\ \A word \in {r.about.principal, r.about.collection, r.about.resource} :
               http_safe_string(word))
        => r.row \in {f[2] : f \in propfind_resource_lookup(st, db, close_href(r.href))}
=============================================================================
