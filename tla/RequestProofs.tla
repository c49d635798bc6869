---------------------------- MODULE RequestProofs ----------------------------
(***************************************************************************)
(* What a request is shown and let do, for any principals, databases,      *)
(* requests and changes amid them: the invariant of RequestInv is          *)
(* inductive, and the properties of Request follow.                        *)
(***************************************************************************)
EXTENDS RequestInv, PathsProofs, FiniteSetTheorems

-----------------------------------------------------------------------------
(* What the assumption says, piece by piece.                               *)

LEMMA NotNone ==
  /\ None \notin Coln /\ None \notin Row /\ None \notin Prncpl
BY RequestAssumption, Zenon DEF Prncpl, Proxy

LEMMA Named ==
  ASSUME NEW u \in Users
  PROVE  u \in Seq(Pieces) /\ "/" \notin ToSet(u)
<1>1. u \in Seq(STRING) /\ "/" \notin ToSet(u)
  BY RequestAssumption, Zenon DEF Text
<1>2. \A s \in Seq(STRING) : s \in Seq(Pieces)
  BY Script, Zenon
<1>3. QED
  BY <1>1, <1>2, Zenon

LEMMA Texts == \A s \in Text : s \in Seq(Pieces)
BY Script, Zenon DEF Text

LEMMA Groups ==
  /\ <<"calendar-proxy-read">> \in Seq(Pieces)
  /\ <<"calendar-proxy-write">> \in Seq(Pieces)
<1>1. "calendar-proxy-read" \in Pieces /\ "calendar-proxy-write" \in Pieces
  BY Zenon DEF Pieces
<1>2. \A S : \A x \in S : <<x>> \in Seq(S)
  OBVIOUS
<1>3. QED
  BY <1>1, <1>2, Zenon

-----------------------------------------------------------------------------
(* The elements of finite sets as sequences.                               *)

LEMMA Enumerated ==
  ASSUME NEW S, IsFiniteSet(S), NEW q, q = SetToSeq(S)
  PROVE  q \in Seq(S)
<1>1. Cardinality(S) \in Nat /\ ExistsBijection(1 .. Cardinality(S), S)
  BY FS_CardinalityType
<1>2. \E f \in [1 .. Cardinality(S) -> S] : IsInjective(f)
  <2>1. PICK f \in Bijection(1 .. Cardinality(S), S) : TRUE
    BY <1>1 DEF ExistsBijection
  <2>2. f \in [1 .. Cardinality(S) -> S] /\ IsInjective(f)
    BY <2>1 DEF Bijection, Injection
  <2>3. QED
    BY <2>2
<1>3. q \in [1 .. Cardinality(S) -> S]
  BY <1>2 DEF SetToSeq
<1>4. QED
  BY <1>1, <1>3

LEMMA Mapped ==
  ASSUME NEW S, NEW q \in Seq(S), NEW R, NEW f, f = [i \in DOMAIN q |-> f[i]],
         \A i \in DOMAIN q : f[i] \in R
  PROVE  f \in Seq(R)
<1>1. DOMAIN q = 1 .. Len(q) /\ Len(q) \in Nat
  OBVIOUS
<1>2. f \in [1 .. Len(q) -> R]
  BY <1>1
<1>3. QED
  BY <1>1, <1>2

LEMMA Values ==
  ASSUME NEW S, NEW q \in Seq(S)
  PROVE  q \in Seq({q[i] : i \in DOMAIN q})
<1>1. Len(q) \in Nat /\ q = [i \in 1 .. Len(q) |-> q[i]] /\ DOMAIN q = 1 .. Len(q)
  OBVIOUS
<1>2. q \in [1 .. Len(q) -> {q[i] : i \in DOMAIN q}]
  BY <1>1
<1>3. QED
  BY <1>1, <1>2

LEMMA Within ==
  ASSUME NEW S, NEW q \in Seq(S), NEW i \in DOMAIN q
  PROVE  q[i] \in S /\ i \in 1 .. Len(q)
OBVIOUS

-----------------------------------------------------------------------------
(* Every kind of response, and what PrintedOK says of each.                *)

Fine(r, s, ds) == WasTrue(r, s, ds) /\ PrivilegesHold(r, s) /\ LeadsBack(r)

Knows(s) == s.prncpl \in Prncpl /\ s.rprncpl \in Prncpl /\ s.proxy \in {0, READ, WRITE}

privilege == "current-user-privilege-set"

LEMMA PrivilegesPrinted ==
  ASSUME NEW s, NEW c
  PROVE  /\ cgetfp(privilege, s, c) = collection_current_user_privilege_set(s)
         /\ \A r : rgetfp(privilege, s, c, r) = collection_current_user_privilege_set(s)
<1>1. cgetfp(privilege, s, c) = collection_current_user_privilege_set(s)
  BY Zenon DEF cgetfp, privilege, Settings
<1>2. \A r : rgetfp(privilege, s, c, r) = cgetfp(privilege, s, c)
  BY Zenon DEF rgetfp, privilege
<1>3. QED
  BY <1>1, <1>2, Zenon

LEMMA PrivilegesTrue ==
  ASSUME NEW s, Knows(s), NEW r,
         privilege \in DOMAIN r.found =>
            r.found[privilege] = collection_current_user_privilege_set(s)
  PROVE  PrivilegesHold(r, s)
<1> SUFFICES ASSUME privilege \in DOMAIN r.found
             PROVE  LET p == r.found[privilege] IN
        /\ \A m \in {"PUT", "DELETE", "PROPPATCH"} :
              "write" \in p <=> Own(s) \/ MayUse(m, s.proxy)
        /\ \A m \in {"GET", "PROPFIND", "REPORT"} :
              "read" \in p <=> Own(s) \/ MayUse(m, s.proxy)
  BY Zenon DEF PrivilegesHold, privilege
<1> DEFINE p == collection_current_user_privilege_set(s)
<1>1. "write" \in p <=> Own(s) \/ s.proxy = WRITE
  BY DEF collection_current_user_privilege_set
<1>2. "read" \in p <=> Own(s) \/ s.proxy \in {READ, WRITE}
  BY DEF collection_current_user_privilege_set
<1>3. \A m \in {"PUT", "DELETE", "PROPPATCH"} : MayUse(m, s.proxy) <=> s.proxy = WRITE
  BY DEF MayUse
<1>4. \A m \in {"GET", "PROPFIND", "REPORT"} : MayUse(m, s.proxy) <=> s.proxy \in {READ, WRITE}
  BY DEF MayUse
<1> HIDE DEF p
<1>5. r.found[privilege] = p
  BY Zenon DEF p
<1>6. QED
  BY <1>1, <1>2, <1>3, <1>4, <1>5, Zenon


LEMMA KnownNames ==
  ASSUME NEW s, Knows(s)
  PROVE  /\ s.rprncpl.name \in Users /\ s.rprncpl.name \in Seq(Pieces)
         /\ "/" \notin ToSet(s.rprncpl.name)
<1>1. s.rprncpl.name \in Users
  BY DEF Knows, Prncpl
<1>2. QED
  BY <1>1, Named

LEMMA Back ==
  ASSUME NEW s, NEW url, NEW name, NEW r, r.about = About(s, url, name),
         Plain(name) => LeadsTo(r.href, s.rprncpl.name, url, name)
  PROVE  LeadsBack(r)
<1>1. r.about.resource = name
  BY DEF About
<1>2. LeadsTo(r.href, s.rprncpl.name, url, name) => PathOf(r.href) = r.about
  BY Zenon DEF LeadsTo, PathOf, About
<1>3. Plain(r.about.resource) => PathOf(r.href) = r.about
  BY <1>1, <1>2, Zenon
<1>4. QED
  BY <1>3, Zenon DEF LeadsBack, Plain

LEMMA PrncplLeadsBack ==
  ASSUME NEW s, Knows(s), NEW r, r.href = ToPrincipal(s.rprncpl.name),
         r.about = About(s, <<>>, <<>>)
  PROVE  LeadsBack(r)
<1>1. LeadsTo(r.href, s.rprncpl.name, <<>>, <<>>)
  BY KnownNames, PrincipalFound
<1>2. QED
  BY <1>1, Back

LEMMA ColnLeadsBack ==
  ASSUME NEW s, Knows(s), NEW url \in Seq(Pieces), NEW r,
         r.href = ToCollection(s.rprncpl.name, url), r.about = About(s, url, <<>>)
  PROVE  LeadsBack(r)
<1>1. LeadsTo(r.href, s.rprncpl.name, url, <<>>)
  BY KnownNames, CollectionFound
<1>2. QED
  BY <1>1, Back

LEMMA ResourceLeadsBack ==
  ASSUME NEW s, Knows(s), NEW url \in Seq(Pieces), NEW name \in Seq(Pieces), NEW r,
         r.href = ToResource(s.rprncpl.name, url, name), r.about = About(s, url, name)
  PROVE  LeadsBack(r)
<1>1. Plain(name) => LeadsTo(r.href, s.rprncpl.name, url, name)
  BY KnownNames, ResourceFound
<1>2. QED
  BY <1>1, Back

LEMMA ColnFine ==
  ASSUME NEW s, Knows(s), NEW props, NEW c \in Coln, NEW ds
  PROVE  Fine(propfind_coln(s, props, c), s, ds)
<1> DEFINE r == propfind_coln(s, props, c)
<1>1. /\ r.href = Home(s) \o c.url \o (IF c.url = <<>> THEN <<>> ELSE <<"/">>)
      /\ r.status = 200 /\ r.about = About(s, c.url, <<>>) /\ r.row = None
      /\ r.found = [key \in ToSet(props) \cap OfColn |-> cgetfp(key, s, c)]
  BY DEF propfind_coln, Response
<1> HIDE DEF r
<1>2. WasTrue(r, s, ds)
  BY <1>1 DEF WasTrue
<1>3. PrivilegesHold(r, s)
  <2>1. privilege \in DOMAIN r.found => r.found[privilege] = cgetfp(privilege, s, c)
    BY <1>1
  <2>2. QED
    BY <2>1, PrivilegesPrinted, PrivilegesTrue
<1>4. c.url \in Seq(Pieces)
  BY Texts DEF Coln
<1>5. LeadsBack(r)
  <2>1. CASE c.url = <<>>
    <3>1. Home(s) = ToPrincipal(s.rprncpl.name)
      BY Zenon DEF Home, Link, ToPrincipal
    <3>2. r.href = Home(s) \o <<>> \o <<>>
      BY <1>1, <2>1, Zenon
    <3>3. Home(s) \in Seq(Pieces)
      BY <3>1, KnownNames, LinksAreTexts
    <3>4. r.href = Home(s)
      BY <3>2, <3>3
    <3>5. QED
      BY <1>1, <2>1, <3>1, <3>4, PrncplLeadsBack
  <2>2. CASE c.url # <<>>
    <3>1. r.href = ToCollection(s.rprncpl.name, c.url)
      BY <1>1, <2>2, Zenon DEF Home, Link, ToCollection
    <3>2. QED
      BY <1>1, <1>4, <3>1, ColnLeadsBack
  <2>3. QED
    BY <2>1, <2>2
<1>6. QED
  BY <1>2, <1>3, <1>5 DEF Fine, r

LEMMA PrncplFine ==
  ASSUME NEW s, Knows(s), NEW props, NEW ds
  PROVE  Fine(propfind_prncpl(s, props), s, ds)
<1> DEFINE r == propfind_prncpl(s, props)
<1>1. /\ r.href = Home(s) /\ r.status = 200 /\ r.about = About(s, <<>>, <<>>)
      /\ r.row = None
      /\ r.found = [key \in ToSet(props) \cap OfPrncpl |-> pgetfp(key, s)]
  BY DEF propfind_prncpl, Response
<1> HIDE DEF r
<1>2. WasTrue(r, s, ds)
  BY <1>1 DEF WasTrue
<1>3. PrivilegesHold(r, s)
  <2>1. privilege \notin OfPrncpl
    BY DEF OfPrncpl, Routed, privilege
  <2>2. privilege \notin DOMAIN r.found
    BY <1>1, <2>1
  <2>3. QED
    BY <2>2, PrivilegesTrue
<1>4. LeadsBack(r)
  <2>1. r.href = ToPrincipal(s.rprncpl.name)
    BY <1>1, Zenon DEF Home, Link, ToPrincipal, ToCollection, ToResource
  <2>2. QED
    BY <1>1, <2>1, PrncplLeadsBack
<1>5. QED
  BY <1>2, <1>3, <1>4 DEF Fine, r

LEMMA ProxyFine ==
  ASSUME NEW s, Knows(s), NEW props, NEW url \in ProxyTypes, NEW ds
  PROVE  Fine(propfind_proxy(s, props, url), s, ds)
<1> DEFINE r == propfind_proxy(s, props, url)
           served == {"resourcetype", "group-member-set"}
<1>1. /\ r.href = Home(s) \o url \o <<"/">> /\ r.status = 200
      /\ r.about = About(s, url, <<>>) /\ r.row = None
      /\ DOMAIN r.found = ToSet(props) \cap served
  BY DEF propfind_proxy, Response
<1> HIDE DEF r
<1>2. WasTrue(r, s, ds)
  BY <1>1 DEF WasTrue
<1>3. PrivilegesHold(r, s)
  <2>1. privilege \notin served
    BY DEF privilege
  <2>2. privilege \notin DOMAIN r.found
    BY <1>1, <2>1
  <2>3. QED
    BY <2>2, PrivilegesTrue
<1>4. LeadsBack(r)
  <2>1. url \in Seq(Pieces)
    BY Groups, Zenon DEF ProxyTypes
  <2>2. r.href = ToCollection(s.rprncpl.name, url)
    BY <1>1, Zenon DEF Home, Link, ToPrincipal, ToCollection, ToResource
  <2>3. QED
    BY <1>1, <2>1, <2>2, ColnLeadsBack
<1>5. QED
  BY <1>2, <1>3, <1>4 DEF Fine, r

LEMMA ResourceFine ==
  ASSUME NEW s, Knows(s), NEW props, NEW c \in Coln, NEW q \in Row, NEW ds,
         \E d \in ds : q \in RowsOf(d, About(s, c.url, q.name))
  PROVE  Fine(propfind_resource(s, props, c, q), s, ds)
<1> DEFINE r == propfind_resource(s, props, c, q)
<1>1. /\ r.href = Home(s) \o c.url \o <<"/">> \o q.name
      /\ r.status = 200 /\ r.about = About(s, c.url, q.name) /\ r.row = q
      /\ r.found = [key \in ToSet(props) \cap OfRes |-> rgetfp(key, s, c, q)]
  BY DEF propfind_resource, Response
<1> HIDE DEF r
<1>2. WasTrue(r, s, ds)
  BY <1>1 DEF WasTrue
<1>3. PrivilegesHold(r, s)
  <2>1. privilege \in DOMAIN r.found => r.found[privilege] = rgetfp(privilege, s, c, q)
    BY <1>1
  <2>2. QED
    BY <2>1, PrivilegesPrinted, PrivilegesTrue
<1>4. c.url \in Seq(Pieces) /\ q.name \in Seq(Pieces)
  BY Texts DEF Coln, Row
<1>5. LeadsBack(r)
  <2>1. r.href = ToResource(s.rprncpl.name, c.url, q.name)
    BY <1>1, Zenon DEF Home, Link, ToPrincipal, ToCollection, ToResource
  <2>2. QED
    BY <1>1, <1>4, <2>1, ResourceLeadsBack
<1>6. QED
  BY <1>2, <1>3, <1>5 DEF Fine, r

LEMMA GotFine ==
  ASSUME NEW s, Knows(s), NEW q, NEW ds, \E d \in ds : q \in RowsOf(d, s.path)
  PROVE  Fine(Response(<<>>, 200, <<>>, <<>>, s.path, q), s, ds)
<1> DEFINE r == Response(<<>>, 200, <<>>, <<>>, s.path, q)
<1>1. /\ r.href = <<>> /\ r.status = 200 /\ r.found = <<>> /\ r.about = s.path
      /\ r.row = q
  BY DEF Response
<1> HIDE DEF r
<1>2. WasTrue(r, s, ds)
  BY <1>1 DEF WasTrue
<1>3. PrivilegesHold(r, s)
  <2>1. privilege \notin DOMAIN <<>>
    OBVIOUS
  <2>2. QED
    BY <1>1, <2>1, PrivilegesTrue
<1>4. LeadsBack(r)
  BY <1>1 DEF LeadsBack
<1>5. QED
  BY <1>2, <1>3, <1>4 DEF Fine, r

LEMMA ListedFine ==
  ASSUME NEW s, Knows(s), NEW status \in {403, 505}, NEW href, NEW ds,
         status = 403 /\ PathOf(href).principal = s.rprncpl.name =>
            \E d \in ds : RowsOf(d, PathOf(href)) = {}
  PROVE  Fine(Listed(status, href), s, ds)
<1> DEFINE r == Listed(status, href)
<1>1. /\ r.status = status /\ r.found = <<>> /\ r.about = PathOf(href) /\ r.row = None
  BY DEF Listed, Response
<1> HIDE DEF r
<1>2. WasTrue(r, s, ds)
  BY <1>1 DEF WasTrue
<1>3. PrivilegesHold(r, s)
  <2>1. privilege \notin DOMAIN <<>>
    OBVIOUS
  <2>2. QED
    BY <1>1, <2>1, PrivilegesTrue
<1>4. LeadsBack(r)
  BY <1>1 DEF LeadsBack
<1>5. QED
  BY <1>2, <1>3, <1>4 DEF Fine, r

-----------------------------------------------------------------------------
(* What is found and not found in the database as it is now.               *)

LEMMA Serves ==
  ASSUME RequestSound, at \in Serving
  PROVE  /\ Knows(st) /\ Entitled /\ db \in past /\ db \in Database /\ Consistent(db)
         /\ st.path.principal = st.rprncpl.name
         /\ st.cfg # None => /\ st.cfg \in Coln /\ st.cfg \in st.rprncpl.cols
                             /\ st.cfg.url = st.path.collection
<1>1. /\ st.prncpl \in Prncpl /\ st.rprncpl \in Prncpl /\ st.proxy \in {0, READ, WRITE}
      /\ st.cfg \in Coln \cup {None}
  BY DEF RequestSound, TypeOK, StageOK, Loaded
<1>2. QED
  BY <1>1 DEF RequestSound, TypeOK, StageOK, Loaded, Knows

LEMMA Held ==
  ASSUME RequestSound, at \in Serving, NEW c \in st.rprncpl.cols
  PROVE  c \in Coln /\ c.owner = st.rprncpl.name /\ Kept(c)
<1>1. st.rprncpl \in Prncpl /\ Loaded(st.rprncpl, st.path.principal)
  BY DEF RequestSound, StageOK, Loaded
<1>2. c \in Coln
  BY <1>1 DEF Prncpl
<1>3. c.owner = st.rprncpl.name
  BY <1>1 DEF Loaded
<1>4. Kept(c)
  BY <1>1, NotNone DEF RequestSound, KeptOK
<1>5. QED
  BY <1>2, <1>3, <1>4

LEMMA RowFound ==
  ASSUME db \in Database, Consistent(db), NEW c, Kept(c), NEW path,
         path.principal = c.owner, path.collection = c.url,
         NEW q \in RowsAt(db, c.id, path.resource)
  PROVE  q \in Row /\ q.name = path.resource /\ q \in RowsOf(db, path)
<1>1. q \in db.rows /\ q.coln = c.id /\ q.name = path.resource
  BY DEF RowsAt
<1>2. q \in Row
  BY <1>1 DEF Database
<1>3. PICK e \in db.cols : e.id = q.coln
  BY <1>1 DEF Consistent
<1>4. e.owner = c.owner /\ e.url = c.url
  BY <1>1, <1>3 DEF Kept
<1>5. QED
  BY <1>1, <1>2, <1>3, <1>4 DEF RowsOf

LEMMA RowMissing ==
  ASSUME db \in Database, Consistent(db), db \in past, NEW c, Kept(c), NEW path,
         path.principal = c.owner, path.collection = c.url,
         RowsAt(db, c.id, path.resource) = {}
  PROVE  \E d \in past : RowsOf(d, path) = {}
<1>1. CASE \E e \in db.cols : e.id = c.id
  <2>1. PICK e \in db.cols : e.id = c.id
    BY <1>1
  <2>2. e.owner = c.owner /\ e.url = c.url
    BY <2>1 DEF Kept
  <2>3. ASSUME NEW q \in RowsOf(db, path)
        PROVE  FALSE
    <3>1. /\ q \in db.rows /\ q.name = path.resource
          /\ \E b \in db.cols : b.id = q.coln /\ b.owner = path.principal
                                /\ b.url = path.collection
      BY <2>3 DEF RowsOf
    <3>2. PICK b \in db.cols : b.id = q.coln /\ b.owner = c.owner /\ b.url = c.url
      BY <3>1
    <3>3. b = e
      BY <2>1, <2>2, <3>2 DEF Consistent
    <3>4. q \in RowsAt(db, c.id, path.resource)
      BY <2>1, <3>1, <3>2, <3>3 DEF RowsAt
    <3>5. QED
      BY <3>4
  <2>4. QED
    BY <2>3
<1>2. CASE \E d \in past : \A e \in d.cols : e.owner # c.owner \/ e.url # c.url
  <2>1. PICK d \in past : \A e \in d.cols : e.owner # c.owner \/ e.url # c.url
    BY <1>2
  <2>2. RowsOf(d, path) = {}
    BY <2>1 DEF RowsOf
  <2>3. QED
    BY <2>2
<1>3. QED
  BY <1>1, <1>2 DEF Kept

LEMMA ColnMissing ==
  ASSUME NEW s, NEW u, Loaded(s.rprncpl, u), NEW path, path.principal = u,
         Collection(s, path.collection) = None
  PROVE  \E d \in past : RowsOf(d, path) = {}
<1>1. PICK d \in past : s.rprncpl.cols = {c \in d.cols : c.owner = u}
  BY DEF Loaded
<1>2. \A c \in s.rprncpl.cols : c # None
  BY NotNone DEF Loaded, Prncpl
<1>3. {c \in s.rprncpl.cols : c.url = path.collection} = {}
  <2> DEFINE found == {c \in s.rprncpl.cols : c.url = path.collection}
  <2>1. found # {} => (CHOOSE c \in found : TRUE) \in found
    OBVIOUS
  <2>2. Collection(s, path.collection) = IF found = {} THEN None ELSE CHOOSE c \in found : TRUE
    BY DEF Collection
  <2>3. QED
    BY <1>2, <2>1, <2>2
<1>4. RowsOf(d, path) = {}
  BY <1>1, <1>3 DEF RowsOf
<1>5. QED
  BY <1>4

LEMMA CollectionHeld ==
  ASSUME NEW s, NEW url, Collection(s, url) # None
  PROVE  /\ Collection(s, url) \in s.rprncpl.cols
         /\ Collection(s, url).url = url
<1> DEFINE found == {c \in s.rprncpl.cols : c.url = url}
<1>1. found # {} => (CHOOSE c \in found : TRUE) \in found
  OBVIOUS
<1>2. QED
  BY <1>1 DEF Collection

-----------------------------------------------------------------------------
(* Steps of the request, which leave the database as it is.                *)

Typed(s) == s \in [prncpl : Prncpl \cup {None}, rprncpl : Prncpl \cup {None},
                   asked : {"prncpl", "rprncpl"}, path : {s.path},
                   cfg : Coln \cup {None}, proxy : {0, READ, WRITE}]

Keeps(s) == \A p \in {s.prncpl, s.rprncpl} \ {None} : \A c \in p.cols : Kept(c)

Right(path) ==
    /\ req.auth = "good"
    /\ \/ path.principal = req.user
       \/ \E d \in past :
             d.proxy[path.principal][req.user] \in
                (IF req.method \in {"PUT", "DELETE", "PROPPATCH"} THEN {WRITE}
                 ELSE {READ, WRITE})

Multiget == req.method = "REPORT" /\ req.body.type = "calendar-multiget"

LEMMA Rights ==
  /\ Entitled <=> Right(st.path)
  /\ UNCHANGED unchanged => (Entitled' <=> Right(st'.path))
BY DEF Entitled, Right, unchanged

LEMMA KeepsOn ==
  ASSUME NEW s, Keeps(s), st' = s, UNCHANGED unchanged
  PROVE  KeptOK'
BY DEF KeptOK, Keeps, Kept, unchanged

LEMMA TypedOn ==
  ASSUME TypeOK, NEW s, Typed(s), st' = s, UNCHANGED unchanged, at' \in Labels,
         answer' \in [status : Nat, responses : Seq(Printed')]
  PROVE  TypeOK'
BY DEF TypeOK, Typed, unchanged

LEMMA PastOn == ASSUME RequestSound, UNCHANGED unchanged
                 PROVE  PastOK'
BY DEF RequestSound, PastOK, unchanged

LEMMA NotEnded ==
  ASSUME at' \notin {"answered"} \cup Writers
  PROVE  AnswersWereTrue' /\ MultigetAnswersEach' /\ OnlyTheEntitled'
BY DEF AnswersWereTrue, MultigetAnswersEach, OnlyTheEntitled, Answered

LEMMA FineOn ==
  ASSUME NEW s, st' = s, UNCHANGED unchanged, \A r \in Printed' : Fine(r, s, past)
  PROVE  \A r \in Printed' : WasTrue(r, st', past') /\ PrivilegesHold(r, st') /\ LeadsBack(r)
BY DEF Fine, unchanged

(* The request is answered.                                                *)
LEMMA Ends ==
  ASSUME RequestSound, UNCHANGED unchanged, NEW status \in Nat, NEW R, NEW q \in Seq(R),
         NEW s, Typed(s), Keeps(s), Finish(status, q, s),
         \A r \in R : Fine(r, s, past),
         status = 404 /\ s.path.resource # <<>> => \E d \in past : RowsOf(d, s.path) = {},
         ~ (status = 207 /\ s.path.resource = <<>> /\ Multiget),
         req.method # "OPTIONS" /\ status \in {200, 207, 304} => Right(s.path)
  PROVE  RequestSound'
<1>1. /\ at' = "answered" /\ answer' = [status |-> status, responses |-> q] /\ st' = s
      /\ answer'.responses = q /\ answer'.status = status
  BY DEF Finish
<1>2. Printed' = {q[i] : i \in DOMAIN q}
  BY <1>1 DEF Printed
<1>3. q \in Seq(Printed')
  BY <1>2, Values
<1>4. TypeOK'
  <2>1. answer' \in [status : Nat, responses : Seq(Printed')]
    BY <1>1, <1>3
  <2>2. at' \in Labels
    BY <1>1 DEF Labels
  <2>3. QED
    BY <1>1, <2>1, <2>2, TypedOn DEF RequestSound
<1>5. KeptOK'
  BY <1>1, KeepsOn
<1>6. StageOK'
  BY <1>1 DEF StageOK, Serving, Writers
<1>7. \A r \in Printed' : Fine(r, s, past)
  BY <1>2, Within
<1>8. \A r \in Printed' : WasTrue(r, st', past') /\ PrivilegesHold(r, st') /\ LeadsBack(r)
  BY <1>1, <1>7, FineOn
<1>9. PrintedOK'
  BY <1>1, <1>8 DEF PrintedOK
<1>10. AnswersWereTrue'
  BY <1>1, <1>8 DEF AnswersWereTrue, unchanged
<1>11. MultigetAnswersEach'
  BY <1>1 DEF MultigetAnswersEach, Multiget, unchanged
<1>12. OnlyTheEntitled'
  BY <1>1, Rights DEF OnlyTheEntitled, Writers, unchanged
<1>13. QED
  BY <1>4, <1>5, <1>6, <1>9, <1>10, <1>11, <1>12, PastOn DEF RequestSound

(* It is answered with a status and no more.                               *)
LEMMA Replied ==
  ASSUME RequestSound, UNCHANGED unchanged, NEW status \in Nat,
         NEW s, Typed(s), Keeps(s), Reply(status, s),
         status = 404 /\ s.path.resource # <<>> => \E d \in past : RowsOf(d, s.path) = {},
         status = 200 => req.method = "OPTIONS", status \notin {207, 304}
  PROVE  RequestSound'
<1>1. Finish(status, <<>>, s) /\ <<>> \in Seq({})
  BY DEF Reply
<1>2. QED
  BY <1>1, Ends

(* It goes on.                                                             *)
LEMMA Goes ==
  ASSUME RequestSound, UNCHANGED unchanged, answer.responses = <<>>,
         NEW label \in Labels \ {"answered", "main"},
         NEW s, Typed(s), Keeps(s), Goto(label, s), StageOK'
  PROVE  RequestSound'
<1>1. at' = label /\ st' = s /\ answer' = answer
  BY DEF Goto
<1>2. Printed' = Printed /\ Printed = {}
  <2>1. DOMAIN <<>> = {}
    OBVIOUS
  <2>2. Printed = {}
    BY <2>1 DEF Printed
  <2>3. QED
    BY <1>1, <2>2 DEF Printed
<1>3. TypeOK'
  <2>1. answer \in [status : Nat, responses : Seq(Printed)]
    BY DEF RequestSound, TypeOK
  <2>2. answer' \in [status : Nat, responses : Seq(Printed')]
    BY <1>1, <1>2, <2>1
  <2>3. at' \in Labels
    BY <1>1
  <2>4. QED
    BY <1>1, <2>2, <2>3, TypedOn DEF RequestSound
<1>4. KeptOK'
  BY <1>1, KeepsOn
<1>5. PrintedOK'
  <2>1. answer'.responses = <<>> /\ Len(<<>>) = 0 /\ DOMAIN <<>> = {}
    BY <1>1
  <2>2. Len(Hrefs') \in Nat
    BY DEF RequestSound, TypeOK, Hrefs, unchanged
  <2>3. QED
    BY <1>2, <2>1, <2>2 DEF PrintedOK
<1>6. AnswersWereTrue' /\ MultigetAnswersEach'
  BY <1>1 DEF AnswersWereTrue, MultigetAnswersEach, Answered
<1>7. OnlyTheEntitled'
  BY <1>1 DEF OnlyTheEntitled, Answered, StageOK, Serving
<1>8. QED
  BY <1>3, <1>4, <1>5, <1>6, <1>7, PastOn DEF RequestSound

-----------------------------------------------------------------------------
(* From the last look at the principals to the method.                     *)

Ready(s) ==
    /\ Typed(s) /\ Keeps(s) /\ Right(s.path)
    /\ s.prncpl \in Prncpl /\ s.prncpl.name = req.user
    /\ Loaded(s.rprncpl, s.path.principal)

Located(s) == s.cfg # None => s.cfg \in s.rprncpl.cols /\ s.cfg.url = s.path.collection

LEMMA Methods ==
  ASSUME NEW s, Dispatch(s)
  PROVE  \/ Goto("method_put", s) \/ Goto("method_delete", s)
         \/ Goto("method_proppatch", s)
         \/ Goto("method_propfind", s) /\ req.method = "PROPFIND"
         \/ Goto("method_report", s) \/ Goto("method_get", s)
         \/ Reply(404, s) /\ s.path.resource = <<>>
         \/ Reply(405, s)
BY Zenon DEF Dispatch

LEMMA Serve ==
  ASSUME RequestSound, UNCHANGED unchanged, answer.responses = <<>>, NEW s, Ready(s),
         Located(s), NEW label \in Serving, Goto(label, s),
         label = "method_propfind" => req.method = "PROPFIND"
  PROVE  RequestSound'
<1>1. at' = label /\ st' = s
  BY DEF Goto
<1>2. StageOK'
  <2>1. Entitled'
    BY <1>1, Rights DEF Ready
  <2>2. (Loaded(st.rprncpl, st.path.principal))'
    BY <1>1 DEF Ready, Loaded, unchanged
  <2>3. label \notin {"main", "cols", "rproxies", "proxies"}
    BY DEF Serving, Writers
  <2>4. QED
    BY <1>1, <2>1, <2>2, <2>3 DEF StageOK, Ready, Located, unchanged
<1>3. label \in Labels \ {"answered", "main"}
  BY DEF Labels, Serving, Writers
<1>4. QED
  BY <1>2, <1>3, Goes DEF Ready

LEMMA Dispatches ==
  ASSUME RequestSound, UNCHANGED unchanged, answer.responses = <<>>, NEW s, Ready(s),
         Located(s), Dispatch(s)
  PROVE  RequestSound'
<1>1. ASSUME NEW label \in Serving \ {"method_propfind"}, Goto(label, s)
      PROVE  RequestSound'
  BY <1>1, Serve
<1>2. CASE Goto("method_propfind", s) /\ req.method = "PROPFIND"
  BY <1>2, Serve DEF Serving
<1>3. CASE Reply(404, s) /\ s.path.resource = <<>>
  BY <1>3, Replied DEF Ready
<1>4. CASE Reply(405, s)
  BY <1>4, Replied DEF Ready
<1>5. \A l \in {"method_put", "method_delete", "method_proppatch", "method_report",
                "method_get"} : l \in Serving \ {"method_propfind"}
  BY DEF Serving, Writers
<1>6. QED
  BY <1>1, <1>2, <1>3, <1>4, <1>5, Methods

LEMMA Locates ==
  ASSUME RequestSound, UNCHANGED unchanged, answer.responses = <<>>, NEW s, Ready(s),
         Locate(s)
  PROVE  RequestSound'
<1> DEFINE c == Collection(s, s.path.collection)
           z == [s EXCEPT !.cfg = c]
<1>1. CASE c = None /\ Reply(404, s)
  <2>1. \E d \in past : RowsOf(d, s.path) = {}
    BY <1>1, ColnMissing DEF Ready
  <2>2. Reply(404, s) /\ Typed(s) /\ Keeps(s) /\ 404 \in Nat
    BY <1>1 DEF Ready
  <2>3. /\ 404 = 404 /\ s.path.resource # <<>> => \E d \in past : RowsOf(d, s.path) = {}
        /\ 404 = 200 => req.method = "OPTIONS"
        /\ 404 \notin {207, 304}
    BY <2>1
  <2>4. QED
    BY <2>2, <2>3, Replied
<1>2. CASE Dispatch(z)
  <2>1. c # None => c \in s.rprncpl.cols /\ c.url = s.path.collection
    BY CollectionHeld
  <2>2. c # None => c \in Coln
    BY <2>1 DEF Ready, Loaded, Prncpl
  <2> HIDE DEF c
  <2>3. /\ z.prncpl = s.prncpl /\ z.rprncpl = s.rprncpl /\ z.path = s.path
        /\ z.cfg = c /\ Typed(z)
    BY <2>2 DEF Ready, Typed
  <2> HIDE DEF z
  <2>4. Ready(z)
    BY <2>3 DEF Ready, Keeps
  <2>5. Located(z)
    BY <2>1, <2>3 DEF Located
  <2>6. QED
    BY <1>2, <2>4, <2>5, Dispatches
<1>3. QED
  BY <1>1, <1>2 DEF Locate

-----------------------------------------------------------------------------
(* The principals are loaded.                                              *)

LEMMA KeptNow ==
  ASSUME db \in Database, Consistent(db), NEW c \in db.cols
  PROVE  Kept(c)
BY DEF Consistent, Kept

Took(s, p, z) ==
    /\ Typed(z) /\ z.asked = s.asked /\ z.path = s.path /\ z[z.asked] = p
    /\ s.asked = "rprncpl" => z.prncpl = s.prncpl /\ z.rprncpl = p
    /\ s.asked = "prncpl" => z.prncpl = p /\ z.rprncpl = s.rprncpl

LEMMA AskedFor ==
  ASSUME NEW s, Typed(s), NEW p \in Prncpl, NEW z, z = [s EXCEPT ![s.asked] = p]
  PROVE  Took(s, p, z)
BY DEF Typed, Took

LEMMA Before ==
  ASSUME RequestSound, at \in {"main", "cols", "rproxies", "proxies"} \cup Serving,
         at # "propfind_list"
  PROVE  /\ answer.responses = <<>> /\ Typed(st) /\ Keeps(st)
         /\ db \in Database /\ Consistent(db) /\ db \in past
BY DEF RequestSound, TypeOK, PrintedOK, KeptOK, Keeps, Typed, Serving, Writers

LEMMA Loading ==
  ASSUME RequestSound, at \in {"rproxies", "proxies"}
  PROVE  /\ st[st.asked] \in Prncpl /\ Loaded(st[st.asked], Who) /\ Who \in Users
         /\ st.asked \in {"prncpl", "rprncpl"}
         /\ st[st.asked] = IF st.asked = "prncpl" THEN st.prncpl ELSE st.rprncpl
<1>1. Loaded(st[st.asked], Who)
  BY DEF RequestSound, StageOK
<1>2. st[st.asked] \in Prncpl /\ Who \in Users
  BY <1>1 DEF Loaded, Prncpl
<1>3. st.asked \in {"prncpl", "rprncpl"}
  BY DEF RequestSound, TypeOK
<1>4. QED
  BY <1>1, <1>2, <1>3

LEMMA ProxiesRead ==
  ASSUME db \in Database, NEW u \in Users
  PROVE  /\ SQL_PROXY_ITER(db, u) \in SUBSET Proxy
         /\ SQL_PROXY_ITER_PRNCPL(db, u) \in SUBSET Proxy
         /\ \A p \in SQL_PROXY_ITER_PRNCPL(db, u) : p.bits = db.proxy[u][p.name]
<1>1. db.proxy \in [Users -> [Users -> {0, READ, WRITE}]]
  BY DEF Database
<1>2. SQL_PROXY_ITER(db, u) \in SUBSET Proxy
  BY <1>1 DEF SQL_PROXY_ITER, Proxy
<1>3. /\ SQL_PROXY_ITER_PRNCPL(db, u) \in SUBSET Proxy
      /\ \A p \in SQL_PROXY_ITER_PRNCPL(db, u) : p.bits = db.proxy[u][p.name]
  BY <1>1 DEF SQL_PROXY_ITER_PRNCPL, Proxy
<1>4. QED
  BY <1>2, <1>3

(* What is loaded of one principal after the other leaves all else alone.  *)
LEMMA Stays ==
  ASSUME RequestSound, at \in {"cols", "rproxies"}, UNCHANGED unchanged,
         NEW p \in Prncpl, Loaded(p, Who), \A c \in p.cols : Kept(c),
         NEW z, z = [st EXCEPT ![st.asked] = p],
         NEW label \in {"rproxies", "proxies"}, Goto(label, z)
  PROVE  RequestSound'
<1>1. answer.responses = <<>> /\ Typed(st) /\ Keeps(st)
  BY Before
<1>2. /\ Typed(z) /\ z.asked = st.asked /\ z.path = st.path /\ z[z.asked] = p
      /\ st.asked = "rprncpl" => z.prncpl = st.prncpl /\ z.rprncpl = p
      /\ st.asked = "prncpl" => z.prncpl = p /\ z.rprncpl = st.rprncpl
      /\ st.asked \in {"prncpl", "rprncpl"}
  BY <1>1, AskedFor DEF Typed, Took
<1>3. Keeps(z)
  BY <1>1, <1>2 DEF Keeps
<1>4. at' = label /\ st' = z
  BY DEF Goto
<1>5. StageOK'
  <2>1. Who' = Who /\ st'[st'.asked] = p
    BY <1>2, <1>4 DEF Who, unchanged
  <2>2. (Loaded(st[st.asked], Who))'
    BY <1>4, <2>1 DEF Loaded, unchanged
  <2>3. req'.auth \notin {"none", "malformed"}
    BY DEF RequestSound, StageOK, unchanged
  <2>4. st'.asked = "rprncpl" =>
          req'.auth = "good" /\ st'.prncpl \in Prncpl /\ st'.prncpl.name = req'.user
    BY <1>2, <1>4 DEF RequestSound, StageOK, unchanged
  <2>5. label \notin Serving /\ label # "method_propfind"
    BY DEF Serving, Writers
  <2>6. QED
    BY <1>4, <2>2, <2>3, <2>4, <2>5 DEF StageOK
<1>6. label \in Labels \ {"answered", "main"}
  BY DEF Labels
<1>7. QED
  BY <1>1, <1>2, <1>3, <1>5, <1>6, Goes

LEMMA SelectColsInv ==
  ASSUME RequestSound, SelectCols
  PROVE  RequestSound'
<1>1. at = "cols" /\ UNCHANGED unchanged
  BY DEF SelectCols
<1>2. /\ answer.responses = <<>> /\ Typed(st) /\ Keeps(st)
      /\ db \in Database /\ Consistent(db) /\ db \in past
  BY <1>1, Before
<1>3. CASE Reply(505, st) \/ Reply(401, st)
  <2>1. CASE Reply(505, st)
    BY <1>1, <1>2, <2>1, Replied
  <2>2. CASE Reply(401, st)
    BY <1>1, <1>2, <2>2, Replied
  <2>3. QED
    BY <1>3, <2>1, <2>2
<1> DEFINE p == [name |-> Who, cols |-> {c \in db.cols : c.owner = Who},
                 rproxies |-> {}, proxies |-> {}]
<1>4. CASE Who \in Users /\ Goto("rproxies", [st EXCEPT ![st.asked] = p])
  <2>1. p \in Prncpl
    BY <1>2, <1>4 DEF Prncpl, Database
  <2>2. Loaded(p, Who)
    BY <1>2, <2>1 DEF Loaded
  <2>3. \A c \in p.cols : Kept(c)
    BY <1>2, KeptNow
  <2> HIDE DEF p
  <2>4. QED
    BY <1>1, <1>4, <2>1, <2>2, <2>3, Stays
<1>5. QED
  BY <1>3, <1>4 DEF SelectCols

LEMMA SelectRproxiesInv ==
  ASSUME RequestSound, SelectRproxies
  PROVE  RequestSound'
<1>1. at = "rproxies" /\ UNCHANGED unchanged
  BY DEF SelectRproxies
<1>2. /\ answer.responses = <<>> /\ Typed(st) /\ Keeps(st)
      /\ db \in Database /\ Consistent(db) /\ db \in past
  BY <1>1, Before
<1>3. CASE Reply(505, st)
  BY <1>1, <1>2, <1>3, Replied
<1>4. CASE Goto("proxies", [st EXCEPT ![st.asked].rproxies = SQL_PROXY_ITER(db, Who)])
  <2> DEFINE q == st[st.asked]
             p == [q EXCEPT !.rproxies = SQL_PROXY_ITER(db, Who)]
  <2>1. /\ q \in Prncpl /\ Loaded(q, Who) /\ Who \in Users
        /\ q = IF st.asked = "prncpl" THEN st.prncpl ELSE st.rprncpl
    BY <1>1, Loading
  <2>2. \A c \in q.cols : Kept(c)
    BY <1>2, <2>1, NotNone DEF Keeps
  <2>3. Goto("proxies", [st EXCEPT ![st.asked] = p])
    BY <1>4
  <2> HIDE DEF q
  <2>4. SQL_PROXY_ITER(db, Who) \in SUBSET Proxy
    BY <1>2, <2>1, ProxiesRead
  <2>5. p \in Prncpl /\ p.name = q.name /\ p.cols = q.cols
    BY <2>1, <2>4 DEF Prncpl
  <2> HIDE DEF p
  <2>6. Loaded(p, Who) /\ \A c \in p.cols : Kept(c)
    BY <2>1, <2>2, <2>5 DEF Loaded
  <2>7. QED
    BY <1>1, <2>3, <2>5, <2>6, Stays
<1>5. QED
  BY <1>3, <1>4 DEF SelectRproxies

LEMMA AuthenticateInv ==
  ASSUME RequestSound, at = "proxies", UNCHANGED unchanged, NEW z, Typed(z), Keeps(z),
         z.prncpl \in Prncpl, Loaded(z.prncpl, req.user), Authenticate(z)
  PROVE  RequestSound'
<1>1. answer.responses = <<>> /\ req.auth \in Auths
  BY Before DEF RequestSound, TypeOK
<1>2. CASE Reply(401, z) \/ Reply(403, z) \/ Reply(307, z)
  <2>1. CASE Reply(401, z)
    BY <2>1, Replied
  <2>2. CASE Reply(403, z)
    BY <2>2, Replied
  <2>3. CASE Reply(307, z)
    BY <2>3, Replied
  <2>4. QED
    BY <1>2, <2>1, <2>2, <2>3
<1>3. CASE Goto("method_json", z)
  <2>1. at' = "method_json"
    BY <1>3 DEF Goto
  <2>2. StageOK'
    BY <2>1 DEF StageOK, Serving, Writers
  <2>3. QED
    BY <1>1, <1>3, <2>2, Goes DEF Labels
<1>4. req.auth \notin {"none", "malformed"}
  BY DEF RequestSound, StageOK
<1>5. CASE /\ req.auth \notin {"wrong", "stale", "replay"}
           /\ Goto("cols", [z EXCEPT !.asked = "rprncpl"])
  <2> DEFINE y == [z EXCEPT !.asked = "rprncpl"]
  <2>1. /\ y.prncpl = z.prncpl /\ y.rprncpl = z.rprncpl /\ y.asked = "rprncpl"
        /\ Typed(y)
    BY DEF Typed
  <2> HIDE DEF y
  <2>2. at' = "cols" /\ st' = y
    BY <1>5 DEF Goto, y
  <2>3. Keeps(y)
    BY <2>1 DEF Keeps
  <2>4. req.auth = "good"
    BY <1>1, <1>4, <1>5 DEF Auths
  <2>5. StageOK'
    BY <2>1, <2>2, <2>4 DEF StageOK, Serving, Writers, Loaded, unchanged
  <2>6. QED
    BY <1>1, <1>5, <2>1, <2>3, <2>5, Goes DEF Labels, y
<1>6. CASE /\ req.auth \notin {"wrong", "stale", "replay"}
           /\ z.path.principal = z.prncpl.name
           /\ Locate([z EXCEPT !.rprncpl = z.prncpl])
  <2> DEFINE y == [z EXCEPT !.rprncpl = z.prncpl]
  <2>1. /\ y.prncpl = z.prncpl /\ y.rprncpl = z.prncpl /\ y.path = z.path
        /\ Typed(y)
    BY DEF Typed
  <2>2. Locate(y)
    BY <1>6
  <2> HIDE DEF y
  <2>3. Keeps(y)
    BY <2>1 DEF Keeps
  <2>4. req.auth = "good"
    BY <1>1, <1>4, <1>6 DEF Auths
  <2>5. z.prncpl.name = req.user
    BY DEF Loaded
  <2>6. Right(y.path)
    BY <1>6, <2>1, <2>4, <2>5 DEF Right
  <2>7. Ready(y)
    BY <1>6, <2>1, <2>3, <2>5, <2>6 DEF Ready
  <2>8. QED
    BY <1>1, <2>2, <2>7, Locates
<1>7. QED
  BY <1>2, <1>3, <1>5, <1>6, Zenon DEF Authenticate

LEMMA AuthoriseInv ==
  ASSUME RequestSound, at = "proxies", UNCHANGED unchanged, NEW z, Typed(z), Keeps(z),
         z.prncpl \in Prncpl, z.prncpl.name = req.user, req.auth = "good",
         Loaded(z.rprncpl, z.path.principal),
         z.rprncpl.proxies = SQL_PROXY_ITER_PRNCPL(db, z.path.principal), Authorise(z)
  PROVE  RequestSound'
<1> DEFINE mine == {p.bits : p \in {p \in z.rprncpl.proxies : p.name = z.prncpl.name}}
           bit == CHOOSE b \in mine : TRUE
           y == [z EXCEPT !.proxy = bit]
<1>1. answer.responses = <<>> /\ db \in Database /\ db \in past
  BY Before
<1>2. CASE Reply(403, z)
  BY <1>2, Replied
<1>3. z.path.principal \in Users
  BY DEF Loaded, Prncpl
<1>4. \A b \in mine : b \in {READ, WRITE} /\ b = db.proxy[z.path.principal][req.user]
  <2>1. /\ SQL_PROXY_ITER_PRNCPL(db, z.path.principal) \in SUBSET Proxy
        /\ \A p \in SQL_PROXY_ITER_PRNCPL(db, z.path.principal) :
              p.bits = db.proxy[z.path.principal][p.name]
    BY <1>1, <1>3, ProxiesRead
  <2>2. QED
    BY <2>1 DEF Proxy
<1>5. CASE (\E b \in mine : MayUse(req.method, b)) /\ Locate(y)
  <2>1. PICK b \in mine : MayUse(req.method, b)
    BY <1>5
  <2>2. bit \in mine
    BY <2>1
  <2> HIDE DEF mine
  <2>3. bit \in {0, READ, WRITE}
    BY <1>4, <2>2
  <2> HIDE DEF bit
  <2>4. /\ y.prncpl = z.prncpl /\ y.rprncpl = z.rprncpl /\ y.path = z.path
        /\ Typed(y)
    BY <2>3 DEF Typed
  <2>5. Locate(y)
    BY <1>5
  <2> HIDE DEF y
  <2>6. Right(y.path)
    <3>1. b \in {READ, WRITE} /\ b = db.proxy[z.path.principal][req.user]
      BY <1>4
    <3>2. db.proxy[z.path.principal][req.user] \in
            (IF req.method \in {"PUT", "DELETE", "PROPPATCH"} THEN {WRITE} ELSE {READ, WRITE})
      BY <2>1, <3>1 DEF MayUse
    <3>3. QED
      BY <1>1, <2>4, <3>2 DEF Right
  <2>7. Ready(y)
    BY <2>4, <2>6 DEF Ready, Keeps
  <2>8. QED
    BY <1>1, <2>5, <2>7, Locates
<1>6. QED
  BY <1>2, <1>5 DEF Authorise

LEMMA SelectProxiesInv ==
  ASSUME RequestSound, SelectProxies
  PROVE  RequestSound'
<1>1. at = "proxies" /\ UNCHANGED unchanged
  BY DEF SelectProxies
<1>2. /\ answer.responses = <<>> /\ Typed(st) /\ Keeps(st)
      /\ db \in Database /\ Consistent(db) /\ db \in past
  BY <1>1, Before
<1>3. CASE Reply(505, st)
  BY <1>1, <1>2, <1>3, Replied
<1> DEFINE q == st[st.asked]
           p == [q EXCEPT !.proxies = SQL_PROXY_ITER_PRNCPL(db, Who)]
           z == [st EXCEPT ![st.asked].proxies = SQL_PROXY_ITER_PRNCPL(db, Who)]
<1>4. CASE IF z.asked = "prncpl" THEN Authenticate(z) ELSE Authorise(z)
  <2>1. /\ q \in Prncpl /\ Loaded(q, Who) /\ Who \in Users
        /\ q = IF st.asked = "prncpl" THEN st.prncpl ELSE st.rprncpl
        /\ st.asked \in {"prncpl", "rprncpl"}
    BY <1>1, Loading
  <2>2. \A c \in q.cols : Kept(c)
    BY <1>2, <2>1, NotNone DEF Keeps
  <2>3. z = [st EXCEPT ![st.asked] = p]
    OBVIOUS
  <2> HIDE DEF z, q
  <2>4. SQL_PROXY_ITER_PRNCPL(db, Who) \in SUBSET Proxy
    BY <1>2, <2>1, ProxiesRead
  <2>5. /\ p \in Prncpl /\ p.name = q.name /\ p.cols = q.cols
        /\ p.proxies = SQL_PROXY_ITER_PRNCPL(db, Who)
    BY <2>1, <2>4 DEF Prncpl
  <2> HIDE DEF p
  <2>6. Loaded(p, Who) /\ \A c \in p.cols : Kept(c)
    BY <2>1, <2>2, <2>5 DEF Loaded
  <2>7. /\ Typed(z) /\ z.asked = st.asked /\ z.path = st.path /\ z[z.asked] = p
        /\ st.asked = "rprncpl" => z.prncpl = st.prncpl /\ z.rprncpl = p
        /\ st.asked = "prncpl" => z.prncpl = p /\ z.rprncpl = st.rprncpl
    <3>1. Typed(st) /\ p \in Prncpl
      BY <1>2, <2>5
    <3>2. \A x \in Prncpl : Took(st, x, [st EXCEPT ![st.asked] = x])
      BY <3>1, AskedFor
    <3>3. Took(st, p, z)
      BY <2>3, <3>1, <3>2, Zenon
    <3>4. QED
      BY <3>3 DEF Took
  <2>8. Keeps(z)
    BY <1>2, <2>1, <2>6, <2>7 DEF Keeps
  <2>9. CASE st.asked = "prncpl"
    <3>1. Who = req.user /\ Authenticate(z) /\ z.prncpl = p
      BY <1>4, <2>7, <2>9 DEF Who
    <3>2. QED
      BY <1>1, <2>5, <2>6, <2>7, <2>8, <3>1, AuthenticateInv
  <2>10. CASE st.asked = "rprncpl"
    <3>1. Who = z.path.principal /\ Authorise(z) /\ z.rprncpl = p /\ z.prncpl = st.prncpl
      BY <1>4, <2>7, <2>10 DEF Who
    <3>2. req.auth = "good" /\ st.prncpl \in Prncpl /\ st.prncpl.name = req.user
      BY <1>1, <2>10 DEF RequestSound, StageOK
    <3>3. QED
      BY <1>1, <2>5, <2>6, <2>7, <2>8, <3>1, <3>2, AuthoriseInv
  <2>11. QED
    BY <2>1, <2>9, <2>10
<1>5. QED
  BY <1>3, <1>4 DEF SelectProxies

LEMMA MainInv ==
  ASSUME RequestSound, main
  PROVE  RequestSound'
<1>1. at = "main" /\ UNCHANGED unchanged
  BY DEF main
<1>2. answer.responses = <<>> /\ Typed(st) /\ Keeps(st)
  BY <1>1, Before
<1>3. CASE Reply(405, st) \/ Reply(401, st) \/ Reply(307, st)
  <2>1. CASE Reply(405, st)
    BY <1>1, <1>2, <2>1, Replied
  <2>2. CASE Reply(401, st)
    BY <1>1, <1>2, <2>2, Replied
  <2>3. CASE Reply(307, st)
    BY <1>1, <1>2, <2>3, Replied
  <2>4. QED
    BY <1>3, <2>1, <2>2, <2>3
<1>4. CASE req.method = "OPTIONS" /\ Reply(200, st)
  BY <1>1, <1>2, <1>4, Replied
<1> DEFINE z == [st EXCEPT !.path = http_paths(req.path)]
<1>5. CASE req.auth \notin {"none", "malformed"} /\ Goto("cols", z)
  <2>1. z.prncpl = st.prncpl /\ z.rprncpl = st.rprncpl /\ z.asked = st.asked /\ Typed(z)
    BY <1>2 DEF Typed
  <2>2. at' = "cols" /\ st' = z
    BY <1>5 DEF Goto
  <2> HIDE DEF z
  <2>3. Keeps(z)
    BY <1>2, <2>1 DEF Keeps
  <2>4. StageOK'
    BY <1>1, <1>5, <2>1, <2>2 DEF RequestSound, StageOK, Serving, Writers, Blank, unchanged
  <2>5. QED
    BY <1>1, <1>2, <1>5, <2>1, <2>3, <2>4, Goes DEF Labels
<1>6. QED
  BY <1>3, <1>4, <1>5, Zenon DEF main

-----------------------------------------------------------------------------
(* The methods that read.                                                  *)

LEMMA Serving1 ==
  ASSUME RequestSound, at \in Serving, at # "propfind_list"
  PROVE  /\ answer.responses = <<>> /\ Typed(st) /\ Keeps(st) /\ Knows(st)
         /\ Right(st.path) /\ db \in past /\ db \in Database /\ Consistent(db)
BY Before, Serves, Rights

LEMMA RowThere ==
  ASSUME RequestSound, at \in Serving, st.cfg # None, NEW q \in db_resource_load
  PROVE  /\ q \in Row /\ q.name = st.path.resource /\ st.cfg \in Coln
         /\ \E d \in past : q \in RowsOf(d, st.path)
         /\ \E d \in past : q \in RowsOf(d, About(st, st.cfg.url, q.name))
<1>1. /\ db \in past /\ db \in Database /\ Consistent(db)
      /\ st.path.principal = st.rprncpl.name
      /\ st.cfg \in Coln /\ st.cfg \in st.rprncpl.cols /\ st.cfg.url = st.path.collection
  BY Serves
<1>2. st.cfg.owner = st.path.principal /\ Kept(st.cfg)
  BY <1>1, Held
<1>3. q \in RowsAt(db, st.cfg.id, st.path.resource)
  BY DEF db_resource_load
<1>4. q \in Row /\ q.name = st.path.resource /\ q \in RowsOf(db, st.path)
  BY <1>1, <1>2, <1>3, RowFound
<1>5. RowsOf(db, About(st, st.cfg.url, q.name)) = RowsOf(db, st.path)
  BY <1>1, <1>4 DEF RowsOf, About
<1>6. QED
  BY <1>1, <1>4, <1>5

LEMMA NoRowInv ==
  ASSUME RequestSound, at \in Serving, at # "propfind_list", st.cfg # None,
         UNCHANGED unchanged, NoRow
  PROVE  RequestSound'
<1>1. Typed(st) /\ Keeps(st) /\ db \in past /\ db \in Database /\ Consistent(db)
  BY Serving1
<1>2. CASE Reply(505, st)
  BY <1>1, <1>2, Replied
<1>3. CASE db_resource_load = {} /\ Reply(404, st)
  <2>1. /\ st.path.principal = st.rprncpl.name
        /\ st.cfg \in Coln /\ st.cfg \in st.rprncpl.cols /\ st.cfg.url = st.path.collection
    BY Serves
  <2>2. st.cfg.owner = st.path.principal /\ Kept(st.cfg)
    BY <2>1, Held
  <2>3. RowsAt(db, st.cfg.id, st.path.resource) = {}
    BY <1>3 DEF db_resource_load
  <2>4. \E d \in past : RowsOf(d, st.path) = {}
    BY <1>1, <2>1, <2>2, <2>3, RowMissing
  <2>5. Reply(404, st) /\ 404 \in Nat
    BY <1>3
  <2>6. QED
    BY <1>1, <2>4, <2>5, Replied
<1>4. QED
  BY <1>2, <1>3 DEF NoRow

(* One response is the answer.                                             *)
LEMMA OneResponse ==
  ASSUME RequestSound, at \in Serving, at # "propfind_list", UNCHANGED unchanged,
         NEW status \in {200, 207, 304}, NEW r, Fine(r, st, past),
         Finish(status, <<r>>, st),
         ~ (status = 207 /\ st.path.resource = <<>> /\ Multiget)
  PROVE  RequestSound'
<1>1. Typed(st) /\ Keeps(st) /\ Right(st.path)
  BY Serving1
<1>2. <<r>> \in Seq({r}) /\ status \in Nat /\ status # 404
  OBVIOUS
<1>3. \A x \in {r} : Fine(x, st, past)
  OBVIOUS
<1> DEFINE q == <<r>>
<1>4. q \in Seq({r}) /\ Finish(status, q, st)
  BY <1>2
<1> HIDE DEF q
<1>5. QED
  BY <1>1, <1>2, <1>3, <1>4, Ends

LEMMA GetInv ==
  ASSUME RequestSound, method_get
  PROVE  RequestSound'
<1>1. at = "method_get" /\ UNCHANGED unchanged /\ at \in Serving /\ at # "propfind_list"
  BY DEF method_get, Serving
<1>2. CASE Reply(403, st)
  BY <1>1, <1>2, Serving1, Replied
<1>3. CASE st.cfg # None /\ NoRow
  BY <1>1, <1>3, NoRowInv
<1>4. ASSUME st.cfg # None, NEW q \in db_resource_load,
             Finish(IF req.match = q.etag THEN 304 ELSE 200,
                    <<Response(<<>>, 200, <<>>, <<>>, st.path, q)>>, st)
      PROVE  RequestSound'
  <2> DEFINE r == Response(<<>>, 200, <<>>, <<>>, st.path, q)
             status == IF req.match = q.etag THEN 304 ELSE 200
  <2>1. \E d \in past : q \in RowsOf(d, st.path)
    BY <1>1, <1>4, RowThere
  <2>2. Fine(r, st, past)
    BY <1>1, <2>1, Serving1, GotFine
  <2> HIDE DEF r
  <2>3. status \in {200, 207, 304} /\ status # 207
    OBVIOUS
  <2>4. Finish(status, <<r>>, st)
    BY <1>4 DEF r
  <2> HIDE DEF status
  <2>5. QED
    BY <1>1, <2>2, <2>3, <2>4, OneResponse
<1>5. QED
  BY <1>2, <1>3, <1>4, Zenon DEF method_get, GetRow

LEMMA ShowRowInv ==
  ASSUME RequestSound, at \in Serving, at # "propfind_list", st.cfg # None,
         st.path.resource # <<>>, UNCHANGED unchanged, ShowRow
  PROVE  RequestSound'
<1>1. CASE NoRow
  BY <1>1, NoRowInv
<1>2. ASSUME NEW q \in db_resource_load,
             Finish(207, <<propfind_resource(st, req.body.props, st.cfg, q)>>, st)
      PROVE  RequestSound'
  <2> DEFINE r == propfind_resource(st, req.body.props, st.cfg, q)
  <2>1. /\ q \in Row /\ st.cfg \in Coln
        /\ \E d \in past : q \in RowsOf(d, About(st, st.cfg.url, q.name))
    BY <1>2, RowThere
  <2>2. Fine(r, st, past)
    BY <2>1, Serving1, ResourceFine
  <2> HIDE DEF r
  <2>3. Finish(207, <<r>>, st)
    BY <1>2 DEF r
  <2>4. QED
    BY <2>2, <2>3, OneResponse
<1>3. QED
  BY <1>1, <1>2, Zenon DEF ShowRow

LEMMA OneMore ==
  ASSUME NEW R, NEW a \in R, NEW q \in Seq(R)
  PROVE  <<a>> \o q \in Seq(R) /\ <<a>> \in Seq(R)
OBVIOUS

LEMMA ThreeMore ==
  ASSUME NEW R, NEW a \in R, NEW b \in R, NEW c \in R, NEW q \in Seq(R)
  PROVE  <<a, b, c>> \o q \in Seq(R)
OBVIOUS

(* A listing is made of the responses it can be made of.                   *)
LEMMA Listing ==
  ASSUME NEW s, NEW props, NEW depth, NEW T, NEW rows \in Seq(T), NEW R,
         propfind_prncpl(s, props) \in R,
         \A u \in ProxyTypes : propfind_proxy(s, props, u) \in R,
         IsFiniteSet(s.rprncpl.cols),
         \A c \in s.rprncpl.cols : propfind_coln(s, props, c) \in R,
         s.cfg # None => /\ propfind_coln(s, props, s.cfg) \in R
                         /\ \A q \in T : propfind_resource(s, props, s.cfg, q) \in R
  PROVE  Directory(s, props, depth, rows) \in Seq(R)
<1> DEFINE prncpl == propfind_prncpl(s, props)
           reads == propfind_proxy(s, props, <<"calendar-proxy-read">>)
           writes == propfind_proxy(s, props, <<"calendar-proxy-write">>)
           coln == propfind_coln(s, props, s.cfg)
           cols == SetToSeq(s.rprncpl.cols)
           resources == [i \in DOMAIN rows |-> propfind_resource(s, props, s.cfg, rows[i])]
           colns == [i \in DOMAIN cols |-> propfind_coln(s, props, cols[i])]
<1>1. Directory(s, props, depth, rows) =
        IF depth = "0" THEN <<IF s.cfg = None THEN prncpl ELSE coln>>
        ELSE IF s.cfg # None THEN <<coln>> \o resources
        ELSE <<prncpl, reads, writes>> \o colns
  BY Zenon DEF Directory
<1>2. prncpl \in R /\ reads \in R /\ writes \in R
  <2>1. <<"calendar-proxy-read">> \in ProxyTypes /\ <<"calendar-proxy-write">> \in ProxyTypes
    BY Zenon DEF ProxyTypes
  <2>2. QED
    BY <2>1, Zenon
<1>3. s.cfg # None => coln \in R /\ resources \in Seq(R)
  <2> SUFFICES ASSUME s.cfg # None
               PROVE  coln \in R /\ resources \in Seq(R)
    BY Zenon
  <2>1. \A i \in DOMAIN rows : rows[i] \in T
    OBVIOUS
  <2>2. \A i \in DOMAIN rows : resources[i] \in R
    BY <2>1
  <2>3. resources = [i \in DOMAIN rows |-> resources[i]]
    OBVIOUS
  <2> HIDE DEF resources
  <2>4. resources \in Seq(R)
    BY <2>2, <2>3, Mapped
  <2>5. QED
    BY <2>4
<1>4. colns \in Seq(R)
  <2>1. cols \in Seq(s.rprncpl.cols)
    BY Enumerated
  <2> HIDE DEF cols
  <2>2. \A i \in DOMAIN cols : cols[i] \in s.rprncpl.cols
    BY <2>1
  <2>3. \A i \in DOMAIN cols : colns[i] \in R
    BY <2>2
  <2>4. colns = [i \in DOMAIN cols |-> colns[i]]
    OBVIOUS
  <2> HIDE DEF colns
  <2>5. QED
    BY <2>1, <2>3, <2>4, Mapped
<1> HIDE DEF prncpl, reads, writes, coln, resources, colns
<1>5. CASE depth = "0"
  <2>1. CASE s.cfg = None
    BY <1>1, <1>2, <1>5, <2>1
  <2>2. CASE s.cfg # None
    BY <1>1, <1>3, <1>5, <2>2
  <2>3. QED
    BY <2>1, <2>2
<1>6. CASE depth # "0" /\ s.cfg # None
  BY <1>1, <1>3, <1>6, OneMore
<1>7. CASE depth # "0" /\ s.cfg = None
  BY <1>1, <1>2, <1>4, <1>7, ThreeMore
<1>8. QED
  BY <1>5, <1>6, <1>7

LEMMA DirectoryInv ==
  ASSUME RequestSound, at \in {"method_propfind", "method_report"}, ~ Multiget,
         UNCHANGED unchanged, propfind_directory
  PROVE  RequestSound'
<1> DEFINE rows == IF st.cfg = None THEN {} ELSE {r \in db.rows : r.coln = st.cfg.id}
           props == req.body.props
           R == {r \in {propfind_prncpl(st, props)}
                   \cup {propfind_proxy(st, props, u) : u \in ProxyTypes}
                   \cup {propfind_coln(st, props, c) : c \in Coln}
                   \cup {propfind_resource(st, props, st.cfg, q) : q \in Row} :
                 Fine(r, st, past)}
<1>1. at \in Serving /\ at # "propfind_list"
  BY DEF Serving
<1>2. /\ Typed(st) /\ Keeps(st) /\ Knows(st) /\ Right(st.path)
      /\ db \in past /\ db \in Database /\ Consistent(db)
  BY <1>1, Serving1
<1>3. \A r \in R : Fine(r, st, past)
  OBVIOUS
<1>4. /\ propfind_prncpl(st, props) \in R
      /\ \A u \in ProxyTypes : propfind_proxy(st, props, u) \in R
  BY <1>2, PrncplFine, ProxyFine
<1>5. \A c \in Coln : propfind_coln(st, props, c) \in R
  BY <1>2, ColnFine
<1>6. IsFiniteSet(st.rprncpl.cols) /\ \A c \in st.rprncpl.cols : c \in Coln
  <2>1. st.rprncpl \in Prncpl /\ Loaded(st.rprncpl, st.path.principal)
    BY <1>1 DEF RequestSound, StageOK, Loaded
  <2>2. st.rprncpl.cols \in SUBSET Coln
    BY <2>1 DEF Prncpl
  <2>3. PICK d \in past : st.rprncpl.cols = {c \in d.cols : c.owner = st.path.principal}
    BY <2>1 DEF Loaded
  <2>4. IsFiniteSet(d.cols)
    BY DEF RequestSound, PastOK
  <2>5. st.rprncpl.cols \in SUBSET d.cols
    BY <2>3
  <2>6. QED
    BY <2>2, <2>4, <2>5, FS_Subset
<1>7. st.cfg # None => \A q \in rows : propfind_resource(st, props, st.cfg, q) \in R
  <2> SUFFICES ASSUME st.cfg # None, NEW q \in rows
               PROVE  propfind_resource(st, props, st.cfg, q) \in R
    BY Zenon
  <2>1. q \in db.rows /\ q.coln = st.cfg.id
    OBVIOUS
  <2>2. /\ st.path.principal = st.rprncpl.name
        /\ st.cfg \in Coln /\ st.cfg \in st.rprncpl.cols
    BY <1>1, Serves
  <2>3. st.cfg.owner = st.rprncpl.name /\ Kept(st.cfg)
    BY <1>1, <2>2, Held
  <2> DEFINE path == About(st, st.cfg.url, q.name)
  <2>4. /\ path.principal = st.rprncpl.name /\ path.collection = st.cfg.url
        /\ path.resource = q.name
    BY DEF About
  <2> HIDE DEF path
  <2>5. q \in RowsAt(db, st.cfg.id, path.resource)
    BY <2>1, <2>4 DEF RowsAt
  <2>6. q \in Row /\ q \in RowsOf(db, path)
    BY <1>2, <2>3, <2>4, <2>5, RowFound
  <2>7. \E d \in past : q \in RowsOf(d, About(st, st.cfg.url, q.name))
    BY <1>2, <2>6 DEF path
  <2>8. Fine(propfind_resource(st, props, st.cfg, q), st, past)
    BY <1>2, <2>2, <2>6, <2>7, ResourceFine
  <2>9. QED
    BY <2>6, <2>8
<1>8. IsFiniteSet(rows)
  <2>1. rows \in SUBSET db.rows /\ IsFiniteSet(db.rows)
    BY <1>2 DEF Consistent
  <2>2. QED
    BY <2>1, FS_Subset
<1> HIDE DEF R, props
<1>9. ASSUME NEW got \in SUBSET rows,
             Finish(207, Directory(st, props, req.depth, SetToSeq(got)), st)
      PROVE  RequestSound'
  <2> DEFINE q == Directory(st, props, req.depth, SetToSeq(got))
  <2>1. IsFiniteSet(got)
    BY <1>8, FS_Subset
  <2>2. SetToSeq(got) \in Seq(got)
    BY <2>1, Enumerated
  <2>3. st.cfg # None => propfind_coln(st, props, st.cfg) \in R
    BY <1>1, <1>5, Serves
  <2>4. st.cfg # None => \A r \in got : propfind_resource(st, props, st.cfg, r) \in R
    BY <1>7
  <2>5. \A c \in st.rprncpl.cols : propfind_coln(st, props, c) \in R
    BY <1>5, <1>6
  <2> HIDE DEF rows
  <2>6. q \in Seq(R)
    BY <1>4, <1>6, <2>2, <2>3, <2>4, <2>5, Listing
  <2>7. Finish(207, q, st)
    BY <1>9
  <2> HIDE DEF q
  <2>8. QED
    BY <1>2, <1>3, <2>6, <2>7, Ends
<1>10. rows \in SUBSET rows
  OBVIOUS
<1>11. QED
  BY <1>9, <1>10, Zenon DEF propfind_directory, props

LEMMA PropfindInv ==
  ASSUME RequestSound, method_propfind
  PROVE  RequestSound'
<1>1. /\ at = "method_propfind" /\ UNCHANGED unchanged /\ at \in Serving
      /\ at # "propfind_list"
  BY DEF method_propfind, Serving
<1>2. /\ Typed(st) /\ Keeps(st) /\ Knows(st) /\ db \in past /\ Right(st.path)
  BY <1>1, Serving1
<1>3. req2caldav_Status \in {400, 415}
  BY DEF req2caldav_Status
<1>4. CASE Reply(req2caldav_Status, st) \/ Reply(415, st) \/ Reply(403, st)
  <2>1. ASSUME NEW k \in {400, 415}, Reply(k, st)
       PROVE  RequestSound'
    BY <1>1, <1>2, <2>1, Replied
  <2>2. CASE Reply(415, st)
    BY <1>1, <1>2, <2>2, Replied
  <2>3. CASE Reply(403, st)
    BY <1>1, <1>2, <2>3, Replied
  <2>4. QED
    BY <1>3, <1>4, <2>1, <2>2, <2>3
<1>5. CASE st.path.resource # <<>> /\ st.cfg # None /\ ShowRow
  BY <1>1, <1>5, ShowRowInv
<1>6. ~ Multiget
  BY <1>1 DEF RequestSound, StageOK, Multiget
<1>7. CASE /\ st.path.collection \in ProxyTypes
           /\ Finish(207, <<propfind_proxy(st, req.body.props, st.path.collection)>>, st)
  <2> DEFINE r == propfind_proxy(st, req.body.props, st.path.collection)
  <2>1. Fine(r, st, past)
    BY <1>2, <1>7, ProxyFine
  <2> HIDE DEF r
  <2>2. Finish(207, <<r>>, st)
    BY <1>7 DEF r
  <2>3. QED
    BY <1>1, <1>6, <2>1, <2>2, OneResponse
<1>8. CASE propfind_directory
  BY <1>1, <1>6, <1>8, DirectoryInv
<1>9. QED
  BY <1>4, <1>5, <1>7, <1>8, Zenon DEF method_propfind

LEMMA ReportInv ==
  ASSUME RequestSound, method_report
  PROVE  RequestSound'
<1>1. /\ at = "method_report" /\ UNCHANGED unchanged /\ at \in Serving
      /\ at # "propfind_list"
  BY DEF method_report, Serving
<1>2. /\ Typed(st) /\ Keeps(st) /\ Knows(st) /\ db \in past /\ Right(st.path)
      /\ answer.responses = <<>>
  BY <1>1, Serving1
<1>3. req2caldav_Status \in {400, 415}
  BY DEF req2caldav_Status
<1>4. CASE Reply(req2caldav_Status, st) \/ Reply(415, st) \/ Reply(403, st)
  <2>1. ASSUME NEW k \in {400, 415}, Reply(k, st)
       PROVE  RequestSound'
    BY <1>1, <1>2, <2>1, Replied
  <2>2. CASE Reply(415, st)
    BY <1>1, <1>2, <2>2, Replied
  <2>3. CASE Reply(403, st)
    BY <1>1, <1>2, <2>3, Replied
  <2>4. QED
    BY <1>3, <1>4, <2>1, <2>2, <2>3
<1>5. CASE st.path.resource # <<>> /\ st.cfg # None /\ ShowRow
  BY <1>1, <1>5, ShowRowInv
<1>6. CASE req.body.type = "calendar-query" /\ propfind_directory
  <2>1. ~ Multiget
    BY <1>6 DEF Multiget
  <2>2. QED
    BY <1>1, <1>6, <2>1, DirectoryInv
<1>7. CASE Goto("propfind_list", st)
  <2>1. Ready(st) /\ Located(st)
    BY <1>1, <1>2, Serves DEF RequestSound, StageOK, Ready, Located
  <2>2. QED
    BY <1>1, <1>2, <1>7, <2>1, Serve DEF Serving
<1>8. QED
  BY <1>4, <1>5, <1>6, <1>7, Zenon DEF method_report

(* The next link of a multiget.                                            *)
LEMMA Paths3 ==
  ASSUME NEW href
  PROVE  \E p, c, n : PathOf(href) = [principal |-> p, collection |-> c, resource |-> n]
<1>1. \E p, c, n : NoPath = [principal |-> p, collection |-> c, resource |-> n]
  BY Zenon DEF NoPath
<1>2. \A in : \E p, c, n : http_paths(in) = [principal |-> p, collection |-> c, resource |-> n]
  BY <1>1, Zenon DEF http_paths
<1>3. QED
  BY <1>1, <1>2, Zenon DEF PathOf

LEMMA Looked ==
  ASSUME RequestSound, at = "propfind_list", NEW href,
         NEW f \in propfind_resource_lookup(st, db, href), NEW props
  PROVE  /\ Fine(propfind_resource(st, props, f[1], f[2]), st, past)
         /\ propfind_resource(st, props, f[1], f[2]).about = PathOf(href)
<1> DEFINE path == PathOf(href)
           c == Collection(st, path.collection)
<1>1. /\ path.principal = st.rprncpl.name /\ c # None
      /\ \E q \in RowsAt(db, c.id, path.resource) : f = <<c, q>>
  BY Zenon DEF propfind_resource_lookup
<1>2. PICK q \in RowsAt(db, c.id, path.resource) : f = <<c, q>>
  BY <1>1
<1>3. c \in st.rprncpl.cols /\ c.url = path.collection
  BY <1>1, CollectionHeld
<1>4. at \in Serving
  BY DEF Serving
<1>5. Knows(st) /\ db \in past /\ db \in Database /\ Consistent(db)
  BY <1>4, Serves
<1> HIDE DEF c, path
<1>6. c \in Coln /\ c.owner = st.rprncpl.name /\ Kept(c)
  BY <1>3, <1>4, Held
<1>7. q \in Row /\ q.name = path.resource /\ q \in RowsOf(db, path)
  BY <1>1, <1>2, <1>3, <1>5, <1>6, RowFound
<1>8. \E p, u, n : path = [principal |-> p, collection |-> u, resource |-> n]
  BY Paths3, Zenon DEF path
<1>9. About(st, c.url, q.name) = path
  BY <1>1, <1>3, <1>7, <1>8 DEF About
<1>10. Fine(propfind_resource(st, props, c, q), st, past)
  BY <1>5, <1>6, <1>7, <1>9, ResourceFine
<1>11. propfind_resource(st, props, c, q).about = path
  BY <1>9 DEF propfind_resource, Response
<1>12. f[1] = c /\ f[2] = q
  BY <1>2
<1>13. QED
  BY <1>10, <1>11, <1>12 DEF path

LEMMA NotLooked ==
  ASSUME RequestSound, at = "propfind_list", NEW href,
         propfind_resource_lookup(st, db, href) = {}
  PROVE  Fine(Listed(403, href), st, past) /\ Listed(403, href).about = PathOf(href)
<1> DEFINE path == PathOf(href)
           c == Collection(st, path.collection)
<1>1. at \in Serving
  BY DEF Serving
<1>2. /\ Knows(st) /\ db \in past /\ db \in Database /\ Consistent(db)
      /\ Loaded(st.rprncpl, st.rprncpl.name)
  BY <1>1, Serves DEF RequestSound, StageOK
<1>3. ASSUME path.principal = st.rprncpl.name
      PROVE  \E d \in past : RowsOf(d, path) = {}
  <2>1. CASE c = None
    BY <1>2, <1>3, <2>1, ColnMissing
  <2>2. CASE c # None
    <3>1. c \in st.rprncpl.cols /\ c.url = path.collection
      BY <2>2, CollectionHeld
    <3>2. {<<c, r>> : r \in RowsAt(db, c.id, path.resource)} = {}
      BY <1>3, <2>2, Zenon DEF propfind_resource_lookup
    <3> HIDE DEF c, path
    <3>3. RowsAt(db, c.id, path.resource) = {}
      BY <3>2
    <3>4. c.owner = st.rprncpl.name /\ Kept(c)
      BY <1>1, <3>1, Held
    <3>5. QED
      BY <1>2, <1>3, <3>1, <3>3, <3>4, RowMissing
  <2>3. QED
    BY <2>1, <2>2
<1>4. Fine(Listed(403, href), st, past)
  BY <1>2, <1>3, ListedFine
<1>5. QED
  BY <1>4 DEF Listed, Response

LEMMA Appended ==
  ASSUME NEW S, NEW q \in Seq(S), NEW r, NEW p, p = Append(q, r)
  PROVE  /\ Len(p) = Len(q) + 1 /\ DOMAIN p = 1 .. Len(q) + 1 /\ p \in Seq(S \cup {r})
         /\ \A i \in DOMAIN p : p[i] = IF i \in DOMAIN q THEN q[i] ELSE r
         /\ \A i \in DOMAIN p : i \notin DOMAIN q => i = Len(q) + 1
OBVIOUS

LEMMA Answers ==
  ASSUME NEW S, NEW q \in Seq(S), NEW a, a = [status |-> 207, responses |-> q]
  PROVE  a \in [status : Nat, responses : Seq(S)]
OBVIOUS

LEMMA OneMoreInv ==
  ASSUME RequestSound, at = "propfind_list", UNCHANGED <<st, unchanged, at>>,
         Len(answer.responses) + 1 <= Len(Hrefs), NEW r, Fine(r, st, past),
         r.about = PathOf(Hrefs[Len(answer.responses) + 1]),
         answer' = [status |-> 207, responses |-> Append(answer.responses, r)]
  PROVE  RequestSound'
<1> DEFINE q == answer.responses
           p == answer'.responses
<1>1. q \in Seq(Printed) /\ Printed = {q[i] : i \in DOMAIN q} /\ Printed' = {p[i] : i \in DOMAIN p}
  BY DEF RequestSound, TypeOK, Printed
<1>2. \A x \in Printed : Fine(x, st, past)
  BY DEF RequestSound, PrintedOK, Fine
<1>3. \A i \in DOMAIN q : q[i].about = PathOf(Hrefs[i])
  BY DEF RequestSound, PrintedOK
<1>4. p = Append(q, r) /\ answer' = [status |-> 207, responses |-> p]
  OBVIOUS
<1>5. UNCHANGED unchanged /\ Hrefs' = Hrefs /\ Typed(st) /\ Keeps(st)
  BY DEF unchanged, Hrefs, RequestSound, TypeOK, Typed, KeptOK, Keeps
<1>6. Len(q) + 1 <= Len(Hrefs) /\ r.about = PathOf(Hrefs[Len(q) + 1])
  OBVIOUS
<1> HIDE DEF q, p
<1>7. /\ Len(p) = Len(q) + 1 /\ DOMAIN p = 1 .. Len(q) + 1 /\ p \in Seq(Printed \cup {r})
      /\ \A i \in DOMAIN p : p[i] = IF i \in DOMAIN q THEN q[i] ELSE r
      /\ \A i \in DOMAIN p : i \notin DOMAIN q => i = Len(q) + 1
  BY <1>1, <1>4, Appended
<1>8. \A x \in Printed' : Fine(x, st, past)
  BY <1>1, <1>2, <1>7
<1>9. \A x \in Printed' : WasTrue(x, st', past') /\ PrivilegesHold(x, st') /\ LeadsBack(x)
  BY <1>5, <1>8, FineOn
<1>10. \A i \in DOMAIN p : p[i].about = PathOf(Hrefs[i])
  BY <1>3, <1>6, <1>7
<1>11. PrintedOK'
  BY <1>5, <1>6, <1>7, <1>9, <1>10, Zenon DEF PrintedOK, p
<1>12. TypeOK'
  <2>1. p \in Seq({p[i] : i \in DOMAIN p})
    <3>1. p \in Seq(Printed \cup {r})
      BY <1>7
    <3>2. QED
      BY <3>1, Values
  <2>2. answer' \in [status : Nat, responses : Seq(Printed')]
    BY <1>1, <1>4, <2>1, Answers
  <2>3. at' \in Labels
    BY DEF RequestSound, TypeOK
  <2>4. QED
    BY <1>5, <2>2, <2>3, TypedOn DEF RequestSound
<1>13. KeptOK' /\ PastOK'
  BY <1>5, KeepsOn, PastOn
<1>14. StageOK'
  <2>1. at' = "propfind_list" /\ st' = st /\ UNCHANGED unchanged /\ Entitled'
    BY <1>5, Rights DEF RequestSound, StageOK, Serving
  <2>2. (Loaded(st.rprncpl, st.path.principal))'
    BY <2>1 DEF RequestSound, StageOK, Serving, Loaded, unchanged
  <2>3. QED
    BY <2>1, <2>2 DEF RequestSound, StageOK, Serving, unchanged
<1>15. AnswersWereTrue' /\ MultigetAnswersEach' /\ OnlyTheEntitled'
  BY NotEnded DEF Writers
<1>16. QED
  BY <1>11, <1>12, <1>13, <1>14, <1>15 DEF RequestSound

LEMMA ListInv ==
  ASSUME RequestSound, propfind_list
  PROVE  RequestSound'
<1> DEFINE q == answer.responses
           i == Len(q) + 1
           More(r) == answer' = [status |-> 207, responses |-> Append(q, r)]
<1>1. at = "propfind_list" /\ UNCHANGED unchanged /\ st' = st /\ at \in Serving
  BY DEF propfind_list, Serving
<1>2. /\ Typed(st) /\ Keeps(st) /\ Knows(st) /\ Right(st.path)
  BY <1>1, Serves, Rights DEF RequestSound, TypeOK, Typed, KeptOK, Keeps
<1>3. q \in Seq(Printed) /\ Len(q) \in Nat /\ Len(Hrefs) \in Nat
  BY DEF RequestSound, TypeOK, Hrefs
<1>4. ASSUME i > Len(Hrefs), at' = "answered", answer' = [answer EXCEPT !.status = 207]
      PROVE  RequestSound'
  <2>1. answer' = [status |-> 207, responses |-> q]
    BY <1>4 DEF RequestSound, TypeOK
  <2>2. /\ Len(q) <= Len(Hrefs) /\ \A j \in DOMAIN q : q[j].about = PathOf(Hrefs[j])
        /\ \A x \in Printed : Fine(x, st, past)
    BY <1>1 DEF RequestSound, PrintedOK, Fine
  <2>3. Len(q) = Len(Hrefs)
    BY <1>3, <1>4, <2>2
  <2>4. Printed' = Printed /\ answer'.responses = q /\ answer'.status = 207
    BY <2>1 DEF Printed
  <2>5. \A x \in Printed' : WasTrue(x, st', past') /\ PrivilegesHold(x, st') /\ LeadsBack(x)
    BY <1>1, <2>2, <2>4, FineOn
  <2>6. TypeOK'
    <3>1. answer' \in [status : Nat, responses : Seq(Printed')]
      BY <1>3, <2>1, <2>4, Answers
    <3>2. at' \in Labels
      BY <1>4 DEF Labels
    <3>3. QED
      BY <1>1, <1>2, <3>1, <3>2, TypedOn DEF RequestSound
  <2>7. KeptOK' /\ PastOK'
    BY <1>1, <1>2, KeepsOn, PastOn
  <2>8. StageOK'
    BY <1>4 DEF StageOK, Serving, Writers
  <2>9. PrintedOK'
    BY <1>4, <2>5 DEF PrintedOK
  <2>10. AnswersWereTrue'
    BY <2>4, <2>5 DEF AnswersWereTrue
  <2>11. MultigetAnswersEach'
    <3>1. Len(q) = Len(req.body.hrefs)
      BY <2>3 DEF RequestSound, TypeOK, Hrefs
    <3>2. \A j \in DOMAIN q : Hrefs[j] = close_href(req.body.hrefs[j])
      BY <1>3, <2>3 DEF RequestSound, TypeOK, Hrefs
    <3>3. req' = req
      BY <1>1 DEF unchanged
    <3>4. \A j \in DOMAIN q : q[j].about = PathOf(close_href(req.body.hrefs[j]))
      BY <2>2, <3>2, Zenon
    <3>5. QED
      BY <2>4, <3>1, <3>3, <3>4 DEF MultigetAnswersEach
  <2>12. OnlyTheEntitled'
    BY <1>1, <1>2, Rights DEF OnlyTheEntitled
  <2>13. QED
    BY <2>6, <2>7, <2>8, <2>9, <2>10, <2>11, <2>12 DEF RequestSound
<1>5. ASSUME i <= Len(Hrefs), at' = at, More(Listed(505, Hrefs[i]))
      PROVE  RequestSound'
  <2>1. Fine(Listed(505, Hrefs[i]), st, past)
    BY <1>2, ListedFine
  <2>2. Listed(505, Hrefs[i]).about = PathOf(Hrefs[i])
    BY DEF Listed, Response
  <2>3. QED
    BY <1>1, <1>5, <2>1, <2>2, OneMoreInv
<1>6. ASSUME i <= Len(Hrefs), at' = at, propfind_resource_lookup(st, db, Hrefs[i]) = {},
             More(Listed(403, Hrefs[i]))
      PROVE  RequestSound'
  <2>1. Fine(Listed(403, Hrefs[i]), st, past) /\ Listed(403, Hrefs[i]).about = PathOf(Hrefs[i])
    BY <1>1, <1>6, NotLooked
  <2>2. QED
    BY <1>1, <1>6, <2>1, OneMoreInv
<1>7. ASSUME i <= Len(Hrefs), at' = at,
             NEW f \in propfind_resource_lookup(st, db, Hrefs[i]),
             More(propfind_resource(st, req.body.props, f[1], f[2]))
      PROVE  RequestSound'
  <2> DEFINE r == propfind_resource(st, req.body.props, f[1], f[2])
  <2>1. Fine(r, st, past) /\ r.about = PathOf(Hrefs[i])
    BY <1>1, <1>7, Looked
  <2> HIDE DEF r
  <2>2. More(r)
    BY <1>7 DEF r
  <2>3. QED
    BY <1>1, <1>7, <2>1, <2>2, OneMoreInv
<1>8. i > Len(Hrefs) \/ i <= Len(Hrefs)
  BY <1>3
<1>9. CASE i > Len(Hrefs)
  <2>1. at' = "answered" /\ answer' = [answer EXCEPT !.status = 207]
    BY <1>9, Zenon DEF propfind_list
  <2>2. QED
    BY <1>4, <1>9, <2>1, Zenon
<1>10. CASE ~ (i > Len(Hrefs))
  <2> DEFINE found == propfind_resource_lookup(st, db, Hrefs[i])
  <2>1. /\ at' = at
        /\ \/ More(Listed(505, Hrefs[i]))
           \/ found = {} /\ More(Listed(403, Hrefs[i]))
           \/ \E f \in found : More(propfind_resource(st, req.body.props, f[1], f[2]))
    BY <1>10, Zenon DEF propfind_list
  <2>2. i <= Len(Hrefs)
    BY <1>8, <1>10, Zenon
  <2> HIDE DEF i, More
  <2>3. QED
    BY <1>5, <1>6, <1>7, <2>1, <2>2, Zenon
<1>11. QED
  BY <1>9, <1>10, Zenon

-----------------------------------------------------------------------------
(* What others do amid the request.                                        *)

Same(c, e) == c.id = e.id /\ c.owner = e.owner /\ c.url = e.url

(* A collection keeps its number, its owner and its URL for as long as it  *)
(* is there; new ones have numbers that none has had.                      *)
Moves ==
    /\ db' \in Database /\ Consistent(db') /\ db.next <= db'.next
    /\ \A e \in db'.cols : e.id >= db.next \/ \E c \in db.cols : Same(c, e)
    /\ \A c \in db.cols :
          \/ \E e \in db'.cols : Same(c, e)
          \/ \A e \in db'.cols : e.owner # c.owner \/ e.url # c.url

LEMMA Touched ==
  ASSUME db \in Database, Consistent(db), NEW id
  PROVE  /\ Touch(id) \in SUBSET Coln /\ IsFiniteSet(Touch(id))
         /\ \A e \in Touch(id) : \E c \in db.cols : Same(c, e)
         /\ \A c \in db.cols : \E e \in Touch(id) : Same(c, e)
         /\ \A e, g \in Touch(id) :
               e.id = g.id \/ (e.owner = g.owner /\ e.url = g.url) => e = g
<1> DEFINE T == Touch(id)
           f == [c \in db.cols |-> IF c.id = id THEN [c EXCEPT !.ctag = @ + 1] ELSE c]
<1>1. \A c \in db.cols : c \in Coln
  BY DEF Database
<1>2. \A c \in db.cols : f[c] \in Coln /\ Same(c, f[c])
  BY <1>1 DEF Coln, Same
<1>3. T = {f[c] : c \in db.cols} /\ DOMAIN f = db.cols
  BY DEF Touch
<1> HIDE DEF T, f
<1>4. T \in SUBSET Coln
  BY <1>2, <1>3
<1>5. IsFiniteSet(T)
  <2>1. f \in [db.cols -> T]
    <3>1. f = [c \in db.cols |-> f[c]]
      BY DEF f
    <3>2. QED
      BY <1>3, <3>1
  <2>2. f \in Surjection(db.cols, T)
    BY <1>3, <2>1 DEF Surjection
  <2>3. QED
    BY <2>2, FS_Surjection DEF Consistent
<1>6. /\ \A e \in T : \E c \in db.cols : Same(c, e)
      /\ \A c \in db.cols : \E e \in T : Same(c, e)
  BY <1>2, <1>3
<1>7. \A e, g \in T : e.id = g.id \/ (e.owner = g.owner /\ e.url = g.url) => e = g
  <2> SUFFICES ASSUME NEW a \in db.cols, NEW b \in db.cols,
                      f[a].id = f[b].id \/ (f[a].owner = f[b].owner /\ f[a].url = f[b].url)
               PROVE  f[a] = f[b]
    BY <1>3
  <2>1. a.id = b.id \/ (a.owner = b.owner /\ a.url = b.url)
    BY <1>2 DEF Same
  <2>2. a = b
    BY <2>1 DEF Consistent
  <2>3. QED
    BY <2>2
<1>8. QED
  BY <1>4, <1>5, <1>6, <1>7 DEF T

LEMMA PutRowMoves ==
  ASSUME db \in Database, Consistent(db), PutRow
  PROVE  Moves
<1>1. PICK c \in db.cols, n \in Names :
        db' = [db EXCEPT !.cols = Touch(c.id), !.next = @ + 1,
                 !.rows = (@ \ RowsAt(db, c.id, n)) \cup
                          {[coln |-> c.id, name |-> n, etag |-> db.next]}]
  BY DEF PutRow
<1> DEFINE T == Touch(c.id)
           new == [coln |-> c.id, name |-> n, etag |-> db.next]
           old == db.rows \ RowsAt(db, c.id, n)
<1>2. /\ T \in SUBSET Coln /\ IsFiniteSet(T)
      /\ \A e \in T : \E b \in db.cols : Same(b, e)
      /\ \A b \in db.cols : \E e \in T : Same(b, e)
      /\ \A e, g \in T : e.id = g.id \/ (e.owner = g.owner /\ e.url = g.url) => e = g
  BY Touched
<1>3. /\ db'.cols = T /\ db'.next = db.next + 1 /\ db'.rows = old \cup {new}
      /\ db' = [cols |-> db'.cols, rows |-> db'.rows, next |-> db'.next, proxy |-> db'.proxy]
      /\ db'.proxy = db.proxy
  BY <1>1 DEF Database
<1>4. /\ db.next \in Nat /\ db.rows \in SUBSET Row /\ db.cols \in SUBSET Coln
      /\ db.proxy \in [Users -> [Users -> {0, READ, WRITE}]]
  BY DEF Database
<1>5. new \in Row /\ new.coln = c.id /\ new.name = n
  BY <1>4, RequestAssumption DEF Row, Coln
<1>6. /\ \A r \in old : r \in db.rows /\ (r.coln # c.id \/ r.name # n)
      /\ IsFiniteSet(old) /\ old \in SUBSET Row
  <2>1. old \in SUBSET db.rows /\ IsFiniteSet(db.rows)
    BY DEF Consistent
  <2>2. IsFiniteSet(old)
    BY <2>1, FS_Subset
  <2>3. QED
    BY <1>4, <2>1, <2>2 DEF RowsAt
<1> HIDE DEF T, new, old
<1>7. db' \in Database
  BY <1>2, <1>3, <1>4, <1>5, <1>6 DEF Database
<1>8. Consistent(db')
  <2>1. IsFiniteSet(db'.cols) /\ IsFiniteSet(db'.rows)
    BY <1>2, <1>3, <1>6, FS_AddElement
  <2>2. \A r, q \in db'.rows : r.coln = q.coln /\ r.name = q.name => r = q
    BY <1>3, <1>5, <1>6 DEF Consistent
  <2>3. \A r \in db'.rows : \E e \in db'.cols : e.id = r.coln
    BY <1>2, <1>3, <1>5, <1>6 DEF Consistent, Same
  <2>4. \A e \in db'.cols : e.id < db'.next
    <3>1. \A b \in db.cols : b.id \in Nat /\ b.id < db.next
      BY <1>4 DEF Consistent, Coln
    <3>2. QED
      BY <1>2, <1>3, <1>4, <3>1 DEF Same
  <2>5. \A e, g \in db'.cols : e.id = g.id \/ (e.owner = g.owner /\ e.url = g.url) => e = g
    BY <1>2, <1>3
  <2>6. QED
    BY <2>1, <2>2, <2>3, <2>4, <2>5 DEF Consistent
<1>9. QED
  BY <1>2, <1>3, <1>4, <1>7, <1>8 DEF Moves

LEMMA DropRowMoves ==
  ASSUME db \in Database, Consistent(db), DropRow
  PROVE  Moves
<1>1. PICK q \in db.rows : db' = [db EXCEPT !.cols = Touch(q.coln), !.rows = @ \ {q}]
  BY DEF DropRow
<1> DEFINE T == Touch(q.coln)
<1>2. /\ T \in SUBSET Coln /\ IsFiniteSet(T)
      /\ \A e \in T : \E b \in db.cols : Same(b, e)
      /\ \A b \in db.cols : \E e \in T : Same(b, e)
      /\ \A e, g \in T : e.id = g.id \/ (e.owner = g.owner /\ e.url = g.url) => e = g
  BY Touched
<1>3. /\ db'.cols = T /\ db'.next = db.next /\ db'.rows = db.rows \ {q}
      /\ db' = [cols |-> db'.cols, rows |-> db'.rows, next |-> db'.next, proxy |-> db'.proxy]
      /\ db'.proxy = db.proxy
  BY <1>1 DEF Database
<1>4. /\ db.next \in Nat /\ db.rows \in SUBSET Row /\ db.cols \in SUBSET Coln
      /\ db.proxy \in [Users -> [Users -> {0, READ, WRITE}]]
  BY DEF Database
<1> HIDE DEF T
<1>5. db' \in Database
  BY <1>2, <1>3, <1>4 DEF Database
<1>6. Consistent(db')
  <2>1. IsFiniteSet(db'.cols) /\ IsFiniteSet(db'.rows)
    <3>1. db'.rows \in SUBSET db.rows /\ IsFiniteSet(db.rows)
      BY <1>3 DEF Consistent
    <3>2. QED
      BY <1>2, <1>3, <3>1, FS_Subset
  <2>2. \A r, p \in db'.rows : r.coln = p.coln /\ r.name = p.name => r = p
    BY <1>3 DEF Consistent
  <2>3. \A r \in db'.rows : \E e \in db'.cols : e.id = r.coln
    BY <1>2, <1>3 DEF Consistent, Same
  <2>4. \A e \in db'.cols : e.id < db'.next
    BY <1>2, <1>3 DEF Consistent, Same
  <2>5. \A e, g \in db'.cols : e.id = g.id \/ (e.owner = g.owner /\ e.url = g.url) => e = g
    BY <1>2, <1>3
  <2>6. QED
    BY <2>1, <2>2, <2>3, <2>4, <2>5 DEF Consistent
<1>7. QED
  BY <1>2, <1>3, <1>4, <1>5, <1>6 DEF Moves

LEMMA DropColnMoves ==
  ASSUME db \in Database, Consistent(db), DropColn
  PROVE  Moves
<1>1. PICK c \in db.cols :
        db' = [db EXCEPT !.cols = @ \ {c}, !.rows = {r \in @ : r.coln # c.id}]
  BY DEF DropColn
<1>2. /\ db'.cols = db.cols \ {c} /\ db'.next = db.next
      /\ db'.rows = {r \in db.rows : r.coln # c.id}
      /\ db' = [cols |-> db'.cols, rows |-> db'.rows, next |-> db'.next, proxy |-> db'.proxy]
      /\ db'.proxy = db.proxy
  BY <1>1 DEF Database
<1>3. /\ db.next \in Nat /\ db.rows \in SUBSET Row /\ db.cols \in SUBSET Coln
      /\ db.proxy \in [Users -> [Users -> {0, READ, WRITE}]]
  BY DEF Database
<1>4. db' \in Database
  BY <1>2, <1>3 DEF Database
<1>5. Consistent(db')
  <2>1. IsFiniteSet(db'.cols) /\ IsFiniteSet(db'.rows)
    <3>1. /\ db'.rows \in SUBSET db.rows /\ IsFiniteSet(db.rows)
          /\ db'.cols \in SUBSET db.cols /\ IsFiniteSet(db.cols)
      BY <1>2 DEF Consistent
    <3>2. QED
      BY <3>1, FS_Subset
  <2>2. QED
    BY <1>2, <2>1 DEF Consistent
<1>6. /\ \A e \in db'.cols : e \in db.cols /\ Same(e, e)
      /\ \A b \in db.cols : b # c => b \in db'.cols /\ Same(b, b)
      /\ \A e \in db'.cols : e.owner # c.owner \/ e.url # c.url
  BY <1>2 DEF Same, Consistent
<1>7. QED
  BY <1>2, <1>3, <1>4, <1>5, <1>6 DEF Moves

LEMMA NewColnMoves ==
  ASSUME db \in Database, Consistent(db), NewColn
  PROVE  Moves
<1>1. PICK u \in Users, url \in Urls :
        /\ \A c \in db.cols : c.owner # u \/ c.url # url
        /\ db' = [db EXCEPT !.next = @ + 1, !.cols = @ \cup
                    {[id |-> db.next, owner |-> u, url |-> url, ctag |-> 1]}]
  BY DEF NewColn
<1> DEFINE new == [id |-> db.next, owner |-> u, url |-> url, ctag |-> 1]
<1>2. /\ db'.cols = db.cols \cup {new} /\ db'.next = db.next + 1
      /\ db'.rows = db.rows
      /\ db' = [cols |-> db'.cols, rows |-> db'.rows, next |-> db'.next, proxy |-> db'.proxy]
      /\ db'.proxy = db.proxy
  BY <1>1 DEF Database
<1>3. /\ db.next \in Nat /\ db.rows \in SUBSET Row /\ db.cols \in SUBSET Coln
      /\ db.proxy \in [Users -> [Users -> {0, READ, WRITE}]]
      /\ \A c \in db.cols : c.id \in Nat
  BY DEF Database, Coln
<1>4. new \in Coln /\ new.id = db.next /\ new.owner = u /\ new.url = url
  BY <1>3, RequestAssumption DEF Coln
<1> HIDE DEF new
<1>5. db' \in Database
  BY <1>2, <1>3, <1>4 DEF Database
<1>6. Consistent(db')
  <2>1. IsFiniteSet(db'.cols) /\ IsFiniteSet(db'.rows)
    <3>1. IsFiniteSet(db.cols) /\ IsFiniteSet(db.rows)
      BY DEF Consistent
    <3>2. IsFiniteSet(db.cols \cup {new})
      BY <3>1, FS_AddElement
    <3>3. QED
      BY <1>2, <3>1, <3>2
  <2>2. \A c \in db.cols : c.id < db.next /\ c.id < db'.next /\ c.id # new.id
    BY <1>2, <1>3, <1>4 DEF Consistent
  <2>3. \A c \in db.cols : c.owner # new.owner \/ c.url # new.url
    BY <1>1, <1>4
  <2>4. \A e, g \in db'.cols : e.id = g.id \/ (e.owner = g.owner /\ e.url = g.url) => e = g
    BY <1>2, <2>2, <2>3 DEF Consistent
  <2>5. \A e \in db'.cols : e.id < db'.next
    BY <1>2, <1>3, <1>4, <2>2
  <2>6. /\ \A r, q \in db'.rows : r.coln = q.coln /\ r.name = q.name => r = q
        /\ \A r \in db'.rows : \E e \in db'.cols : e.id = r.coln
    BY <1>2 DEF Consistent
  <2>7. QED
    BY <2>1, <2>4, <2>5, <2>6 DEF Consistent
<1>7. \A c \in db.cols : c \in db'.cols /\ Same(c, c)
  BY <1>2 DEF Same
<1>8. QED
  BY <1>2, <1>3, <1>4, <1>5, <1>6, <1>7 DEF Moves

LEMMA GrantMoves ==
  ASSUME db \in Database, Consistent(db), Grant
  PROVE  Moves
<1>1. PICK u \in Users, v \in Users, b \in {0, READ, WRITE} :
        db' = [db EXCEPT !.proxy[u][v] = b]
  BY DEF Grant
<1>2. /\ db'.cols = db.cols /\ db'.next = db.next /\ db'.rows = db.rows
      /\ db' = [cols |-> db'.cols, rows |-> db'.rows, next |-> db'.next, proxy |-> db'.proxy]
      /\ db'.proxy = [db.proxy EXCEPT ![u][v] = b]
  BY <1>1 DEF Database
<1>3. /\ db.next \in Nat /\ db.rows \in SUBSET Row /\ db.cols \in SUBSET Coln
      /\ db.proxy \in [Users -> [Users -> {0, READ, WRITE}]]
  BY DEF Database
<1>4. db'.proxy \in [Users -> [Users -> {0, READ, WRITE}]]
  BY <1>2, <1>3
<1>5. db' \in Database
  BY <1>2, <1>3, <1>4 DEF Database
<1>6. Consistent(db')
  BY <1>2 DEF Consistent
<1>7. \A c \in db.cols : c \in db'.cols /\ Same(c, c)
  BY <1>2 DEF Same
<1>8. QED
  BY <1>2, <1>3, <1>5, <1>6, <1>7 DEF Moves

LEMMA KeepsMoving ==
  ASSUME Moves, db \in past, past' = past \cup {db'}, db \in Database, Consistent(db),
         NEW c \in Coln, Kept(c)
  PROVE  Kept(c)'
<1>1. c.id < db'.next
  <2>1. c.id < db.next /\ c.id \in Nat /\ db.next \in Nat /\ db'.next \in Nat
    BY DEF Kept, Coln, Database, Moves
  <2>2. QED
    BY <2>1 DEF Moves
<1>2. \A e \in db'.cols : e.id = c.id => e.owner = c.owner /\ e.url = c.url
  <2> SUFFICES ASSUME NEW e \in db'.cols, e.id = c.id
               PROVE  e.owner = c.owner /\ e.url = c.url
    OBVIOUS
  <2>1. c.id < db.next /\ c.id \in Nat /\ db.next \in Nat
    BY DEF Kept, Coln, Database
  <2>2. PICK f \in db.cols : Same(f, e)
    BY <2>1 DEF Moves
  <2>3. QED
    BY <2>2 DEF Same, Kept
<1>3. \/ \E e \in db'.cols : e.id = c.id
      \/ \E d \in past' : \A e \in d.cols : e.owner # c.owner \/ e.url # c.url
  <2>1. CASE \E f \in db.cols : f.id = c.id
    <3>1. PICK f \in db.cols : f.id = c.id
      BY <2>1
    <3>2. f.owner = c.owner /\ f.url = c.url
      BY <3>1 DEF Kept
    <3>3. \/ \E e \in db'.cols : Same(f, e)
          \/ \A e \in db'.cols : e.owner # f.owner \/ e.url # f.url
      BY DEF Moves
    <3>4. QED
      BY <3>1, <3>2, <3>3 DEF Same
  <2>2. CASE \E d \in past : \A e \in d.cols : e.owner # c.owner \/ e.url # c.url
    BY <2>2
  <2>3. QED
    BY <2>1, <2>2 DEF Kept
<1>4. QED
  BY <1>1, <1>2, <1>3 DEF Kept

LEMMA OthersInv ==
  ASSUME RequestSound, Others
  PROVE  RequestSound'
<1>1. /\ at \notin {"main", "answered"} \cup Handed /\ past' = past \cup {db'}
      /\ UNCHANGED <<req, at, st, answer>>
  BY DEF Others
<1>2. db \in Database /\ Consistent(db) /\ db \in past
  BY DEF RequestSound, TypeOK
<1>3. Moves
  BY <1>2, PutRowMoves, DropRowMoves, DropColnMoves, NewColnMoves, GrantMoves DEF Others
<1>4. db' \in Database /\ Consistent(db') /\ db' \in past' /\ \A d \in past : d \in past'
  BY <1>1, <1>3 DEF Moves
<1>5. Printed' = Printed
  BY <1>1 DEF Printed
<1>6. TypeOK'
  BY <1>1, <1>4, <1>5 DEF RequestSound, TypeOK
<1>7. PastOK'
  BY <1>1, <1>4 DEF RequestSound, PastOK, Consistent
<1>8. StageOK'
  <2>1. \A p, u : Loaded(p, u) => Loaded(p, u)'
    BY <1>4 DEF Loaded
  <2>2. Entitled => Entitled'
    BY <1>1, <1>4 DEF Entitled
  <2>3. Who' = Who
    BY <1>1 DEF Who
  <2>4. QED
    BY <1>1, <2>1, <2>2, <2>3 DEF RequestSound, StageOK
<1>9. KeptOK'
  <2>1. \A p \in {st.prncpl, st.rprncpl} \ {None} : \A c \in p.cols : c \in Coln
    BY DEF RequestSound, TypeOK, Prncpl
  <2>2. \A p \in {st.prncpl, st.rprncpl} \ {None} : \A c \in p.cols : Kept(c)
    BY DEF RequestSound, KeptOK
  <2>3. \A c \in Coln : Kept(c) => Kept(c)'
    BY <1>1, <1>2, <1>3, KeepsMoving
  <2>4. QED
    BY <1>1, <2>1, <2>2, <2>3 DEF KeptOK
<1>10. PrintedOK'
  <2>1. \A r : WasTrue(r, st, past) => WasTrue(r, st', past')
    BY <1>1, <1>4 DEF WasTrue
  <2>2. \A r \in Printed' : WasTrue(r, st', past') /\ PrivilegesHold(r, st') /\ LeadsBack(r)
    BY <1>1, <1>5, <2>1 DEF RequestSound, PrintedOK
  <2>3. Hrefs' = Hrefs
    BY <1>1 DEF Hrefs
  <2>4. QED
    BY <1>1, <2>2, <2>3 DEF RequestSound, PrintedOK
<1>11. AnswersWereTrue' /\ MultigetAnswersEach' /\ OnlyTheEntitled'
  BY <1>1, NotEnded DEF Handed
<1>12. QED
  BY <1>6, <1>7, <1>8, <1>9, <1>10, <1>11 DEF RequestSound

-----------------------------------------------------------------------------
LEMMA InitInv ==
  ASSUME Init
  PROVE  RequestSound
<1>1. /\ db \in Database /\ Consistent(db) /\ past = {db} /\ at = "main" /\ st = Blank
      /\ req.auth \in Auths /\ req.body.hrefs \in Seq(Text)
      /\ answer = [status |-> 0, responses |-> <<>>]
  BY RequestAssumption DEF Init
<1>2. Printed = {}
  <2>1. answer.responses = <<>> /\ DOMAIN <<>> = {}
    BY <1>1
  <2>2. QED
    BY <2>1 DEF Printed
<1>3. TypeOK
  <2>1. answer \in [status : Nat, responses : Seq(Printed)]
    BY <1>1, <1>2
  <2>2. st \in [prncpl : Prncpl \cup {None}, rprncpl : Prncpl \cup {None},
                asked : {"prncpl", "rprncpl"}, path : {st.path},
                cfg : Coln \cup {None}, proxy : {0, READ, WRITE}]
    BY <1>1 DEF Blank
  <2>3. QED
    BY <1>1, <2>1, <2>2 DEF TypeOK, Labels
<1>4. PastOK
  BY <1>1 DEF PastOK, Consistent
<1>5. StageOK
  BY <1>1 DEF StageOK, Serving, Writers
<1>6. KeptOK
  BY <1>1 DEF KeptOK, Blank
<1>7. PrintedOK
  <2>1. answer.responses = <<>>
    BY <1>1
  <2>2. QED
    BY <1>1, <1>2, <2>1 DEF PrintedOK
<1>8. AnswersWereTrue /\ MultigetAnswersEach /\ OnlyTheEntitled
  BY <1>1 DEF AnswersWereTrue, MultigetAnswersEach, OnlyTheEntitled, Answered, Writers
<1>9. QED
  BY <1>3, <1>4, <1>5, <1>6, <1>7, <1>8 DEF RequestSound

LEMMA StepInv ==
  ASSUME RequestSound, [Next]_vars
  PROVE  RequestSound'
<1>1. CASE UNCHANGED vars
  <2>1. UNCHANGED <<db, req, at, st, answer, past>>
    BY <1>1 DEF vars
  <2>2. Printed' = Printed /\ Hrefs' = Hrefs /\ Who' = Who /\ Entitled' = Entitled
    BY <2>1 DEF Printed, Hrefs, Who, Entitled
  <2>3. TypeOK' /\ PastOK' /\ KeptOK'
    BY <2>1, <2>2 DEF RequestSound, TypeOK, PastOK, KeptOK, Kept
  <2>4. StageOK'
    BY <2>1, <2>2 DEF RequestSound, StageOK, Loaded
  <2>5. PrintedOK'
    BY <2>1, <2>2 DEF RequestSound, PrintedOK
  <2>6. AnswersWereTrue' /\ MultigetAnswersEach' /\ OnlyTheEntitled'
    BY <2>1, <2>2 DEF RequestSound, AnswersWereTrue, MultigetAnswersEach, OnlyTheEntitled,
                      Answered
  <2>7. QED
    BY <2>3, <2>4, <2>5, <2>6 DEF RequestSound
<1>2. CASE Next
  BY <1>2, MainInv, SelectColsInv, SelectRproxiesInv, SelectProxiesInv, GetInv,
     PropfindInv, ReportInv, ListInv, OthersInv, Zenon DEF Next
<1>3. QED
  BY <1>1, <1>2

(* Whatever others do amid it, a request is sound in every state, for any  *)
(* principals, databases, requests and numbers of changes and faults.      *)
THEOREM RequestsSound == Spec => []RequestSound
<1>1. Init => RequestSound
  BY InitInv
<1>2. RequestSound /\ [Next]_vars => RequestSound'
  BY StepInv
<1>3. QED
  BY <1>1, <1>2, PTL DEF Spec

(* What an answer shows was there, and what it calls missing was missing,  *)
(* at some instant of the request (kcaldav.c:744, propfind.c:280).         *)
THEOREM TrueAnswers == Spec => []AnswersWereTrue
<1>1. RequestSound => AnswersWereTrue
  BY DEF RequestSound
<1>2. QED
  BY <1>1, RequestsSound, PTL

(* A multiget answers for each link, in their order (propfind_list).       *)
THEOREM EachLinkAnswered == Spec => []MultigetAnswersEach
<1>1. RequestSound => MultigetAnswersEach
  BY DEF RequestSound
<1>2. QED
  BY <1>1, RequestsSound, PTL

(* Nobody is shown anything or brought to a method that writes without the *)
(* right to it at some instant of the request (kcaldav.c:692).             *)
THEOREM EntitledOnly == Spec => []OnlyTheEntitled
<1>1. RequestSound => OnlyTheEntitled
  BY DEF RequestSound
<1>2. QED
  BY <1>1, RequestsSound, PTL

(* Every link of a listing leads back to what it was printed for, whatever *)
(* the lengths of the names (propfind.c, http_paths).                      *)
THEOREM LinksLeadBack == Spec => []HrefsResolve
<1>1. RequestSound => HrefsResolve
  BY DEF RequestSound, PrintedOK, HrefsResolve
<1>2. QED
  BY <1>1, RequestsSound, PTL

(* The privileges printed are those main grants (property.c:224,           *)
(* kcaldav.c:717).                                                         *)
THEOREM PrivilegesGranted == Spec => []PrivilegesAreTrue
<1>1. RequestSound => PrivilegesAreTrue
  BY DEF RequestSound, PrintedOK, PrivilegesAreTrue
<1>2. QED
  BY <1>1, RequestsSound, PTL

-----------------------------------------------------------------------------
(* Members and groups.  No two names make the same link.                   *)

LEMMA OneName ==
  ASSUME NEW h, NEW p, NEW u, NEW r, NEW q, NEW w, NEW t,
         LeadsTo(h, p, u, r), LeadsTo(h, q, w, t)
  PROVE  p = q /\ u = w
<1>1. [principal |-> p, collection |-> u, resource |-> r] =
      [principal |-> q, collection |-> w, resource |-> t]
  BY Zenon DEF LeadsTo
<1>2. QED
  BY <1>1

LEMMA OneCollection ==
  ASSUME NEW v \in Users, NEW w \in Users, NEW url \in ProxyTypes, NEW type \in ProxyTypes,
         ToCollection(v, url) = ToCollection(w, type)
  PROVE  v = w /\ url = type
<1>1. url \in Seq(Pieces) /\ type \in Seq(Pieces)
  BY Groups, Zenon DEF ProxyTypes
<1>2. LeadsTo(ToCollection(v, url), v, url, <<>>)
  BY <1>1, Named, CollectionFound
<1>3. LeadsTo(ToCollection(w, type), w, type, <<>>)
  BY <1>1, Named, CollectionFound
<1>4. QED
  BY <1>2, <1>3, OneName

LEMMA OnePrincipal ==
  ASSUME NEW v \in Users, NEW w \in Users, ToPrincipal(v) = ToPrincipal(w)
  PROVE  v = w
<1>1. LeadsTo(ToPrincipal(v), v, <<>>, <<>>)
  BY Named, PrincipalFound
<1>2. LeadsTo(ToPrincipal(w), w, <<>>, <<>>)
  BY Named, PrincipalFound
<1>3. QED
  BY <1>1, <1>2, OneName

LEMMA GroupLink ==
  ASSUME NEW w \in Users, NEW type \in {"calendar-proxy-read", "calendar-proxy-write"}
  PROVE  <<pname, "/">> \o w \o <<"/", type, "/">> = ToCollection(w, <<type>>)
<1>1. \A S : \A a, b \in S, s \in Seq(S) : <<a, b>> \o s \in Seq(S)
  OBVIOUS
<1>2. "/" \in Pieces /\ pname \in Pieces /\ type \in Pieces /\ w \in Seq(Pieces)
  BY Named, Script, Zenon DEF Pieces
<1>3. <<pname, "/">> \o w \in Seq(Pieces)
  BY <1>1, <1>2, Zenon
<1>4. \A S : \A x, y \in S, s \in Seq(S) : s \o <<x, y, x>> = s \o <<x>> \o <<y>> \o <<x>>
  OBVIOUS
<1>5. QED
  BY <1>2, <1>3, <1>4, Zenon DEF ToCollection

Bits(url) == IF url = <<"calendar-proxy-write">> THEN WRITE ELSE READ

LEMMA InGroup ==
  ASSUME NEW u \in Users, NEW v \in Users, NEW url \in ProxyTypes
  PROVE  Home(View(v)) \o url \o <<"/">> \in principal_group_membership(View(u))
         <=> db.proxy[v][u] = Bits(url)
<1> DEFINE iter == SQL_PROXY_ITER(db, u)
           h == ToCollection(v, url)
<1>1. Home(View(v)) \o url \o <<"/">> = h
  BY DEF View, Home, Link, ToCollection, Blank
<1>2. View(u).rprncpl.rproxies = iter
  BY DEF View, Blank
<1>3. \A bits \in {READ, WRITE} :
        /\ \A p \in iter : p.bits = bits => p.name \in Users /\ db.proxy[p.name][u] = bits
        /\ \A w \in Users : db.proxy[w][u] = bits => \E p \in iter : p.name = w /\ p.bits = bits
  <2>1. iter = {[name |-> w, bits |-> db.proxy[w][u]] : w \in {w \in Users : db.proxy[w][u] # 0}}
    BY DEF SQL_PROXY_ITER
  <2> HIDE DEF iter
  <2>2. \A p \in iter : \E w \in Users : p = [name |-> w, bits |-> db.proxy[w][u]]
    BY <2>1
  <2>3. \A w \in Users : db.proxy[w][u] # 0 => [name |-> w, bits |-> db.proxy[w][u]] \in iter
    BY <2>1
  <2>4. ASSUME NEW bits \in {READ, WRITE}, NEW w \in Users, db.proxy[w][u] = bits
        PROVE  \E p \in iter : p.name = w /\ p.bits = bits
    <3>1. [name |-> w, bits |-> bits] \in iter
      BY <2>3, <2>4 DEF READ, WRITE
    <3>2. QED
      BY <3>1
  <2>5. QED
    BY <2>2, <2>4
<1> HIDE DEF iter
<1>4. h \in principal_group_membership(View(u)) <=>
        \E w \in Users : \/ db.proxy[w][u] = READ /\ h = ToCollection(w, <<"calendar-proxy-read">>)
                         \/ db.proxy[w][u] = WRITE /\ h = ToCollection(w, <<"calendar-proxy-write">>)
  <2>1. h \in principal_group_membership(View(u)) <=>
          \/ \E p \in iter : p.bits = READ /\
                h = <<pname, "/">> \o p.name \o <<"/", "calendar-proxy-read", "/">>
          \/ \E p \in iter : p.bits = WRITE /\
                h = <<pname, "/">> \o p.name \o <<"/", "calendar-proxy-write", "/">>
    BY <1>2, Zenon DEF principal_group_membership
  <2>2. \A w \in Users :
          /\ <<pname, "/">> \o w \o <<"/", "calendar-proxy-read", "/">>
               = ToCollection(w, <<"calendar-proxy-read">>)
          /\ <<pname, "/">> \o w \o <<"/", "calendar-proxy-write", "/">>
               = ToCollection(w, <<"calendar-proxy-write">>)
    BY GroupLink, Zenon
  <2>3. READ \in {READ, WRITE} /\ WRITE \in {READ, WRITE}
    OBVIOUS
  <2> HIDE DEF h
  <2>4. QED
    BY <1>3, <2>1, <2>2, <2>3, Zenon
<1>5. <<"calendar-proxy-read">> \in ProxyTypes /\ <<"calendar-proxy-write">> \in ProxyTypes
  BY Zenon DEF ProxyTypes
<1>6. <<"calendar-proxy-read">> # <<"calendar-proxy-write">>
  OBVIOUS
<1>7. \A w \in Users : \A type \in ProxyTypes : h = ToCollection(w, type) <=> v = w /\ url = type
  BY OneCollection
<1>8. url = <<"calendar-proxy-read">> \/ url = <<"calendar-proxy-write">>
  BY Zenon DEF ProxyTypes
<1> HIDE DEF h
<1>9. CASE url = <<"calendar-proxy-read">>
  <2>1. Bits(url) = READ
    BY <1>6, <1>9, Zenon DEF Bits
  <2>2. \A w \in Users : /\ h = ToCollection(w, <<"calendar-proxy-read">>) <=> v = w
                         /\ h # ToCollection(w, <<"calendar-proxy-write">>)
    BY <1>5, <1>6, <1>7, <1>9, Zenon
  <2>3. QED
    BY <1>1, <1>4, <2>1, <2>2, Zenon
<1>10. CASE url = <<"calendar-proxy-write">>
  <2>1. Bits(url) = WRITE
    BY <1>10, Zenon DEF Bits
  <2>2. \A w \in Users : /\ h = ToCollection(w, <<"calendar-proxy-write">>) <=> v = w
                         /\ h # ToCollection(w, <<"calendar-proxy-read">>)
    BY <1>5, <1>6, <1>7, <1>10, Zenon
  <2>3. QED
    BY <1>1, <1>4, <2>1, <2>2, Zenon
<1>11. QED
  BY <1>8, <1>9, <1>10, Zenon

LEMMA InMembers ==
  ASSUME NEW u \in Users, NEW v \in Users, NEW url \in ProxyTypes
  PROVE  Link(u) \in Members(View(v), url) <=> db.proxy[v][u] = Bits(url)
<1> DEFINE iter == SQL_PROXY_ITER_PRNCPL(db, v)
<1>1. View(v).rprncpl.proxies = iter
  BY DEF View, Blank
<1>2. Bits(url) \in {READ, WRITE}
  BY DEF Bits
<1>3. \A bits \in {READ, WRITE} :
        /\ \A p \in iter : p.bits = bits => p.name \in Users /\ db.proxy[v][p.name] = bits
        /\ \A w \in Users : db.proxy[v][w] = bits => \E p \in iter : p.name = w /\ p.bits = bits
  <2>1. iter = {[name |-> w, bits |-> db.proxy[v][w]] : w \in {w \in Users : db.proxy[v][w] # 0}}
    BY DEF SQL_PROXY_ITER_PRNCPL
  <2> HIDE DEF iter
  <2>2. \A p \in iter : \E w \in Users : p = [name |-> w, bits |-> db.proxy[v][w]]
    BY <2>1
  <2>3. \A w \in Users : db.proxy[v][w] # 0 => [name |-> w, bits |-> db.proxy[v][w]] \in iter
    BY <2>1
  <2>4. ASSUME NEW bits \in {READ, WRITE}, NEW w \in Users, db.proxy[v][w] = bits
        PROVE  \E p \in iter : p.name = w /\ p.bits = bits
    <3>1. [name |-> w, bits |-> bits] \in iter
      BY <2>3, <2>4 DEF READ, WRITE
    <3>2. QED
      BY <3>1
  <2>5. QED
    BY <2>2, <2>4
<1> HIDE DEF iter
<1>4. Link(u) \in Members(View(v), url) <=>
        \E p \in iter : p.bits = Bits(url) /\ Link(u) = Link(p.name)
  BY <1>1, Zenon DEF Members, Links, Bits
<1>5. \A w \in Users : Link(u) = Link(w) => u = w
  BY OnePrincipal, Zenon DEF Link, ToPrincipal
<1>6. ASSUME NEW p \in iter, p.bits = Bits(url), Link(u) = Link(p.name)
      PROVE  db.proxy[v][u] = Bits(url)
  <2>1. p.name \in Users /\ db.proxy[v][p.name] = Bits(url)
    BY <1>2, <1>3, <1>6, Zenon
  <2>2. QED
    BY <1>5, <1>6, <2>1, Zenon
<1>7. ASSUME db.proxy[v][u] = Bits(url)
      PROVE  \E p \in iter : p.bits = Bits(url) /\ Link(u) = Link(p.name)
  <2>1. PICK p \in iter : p.name = u /\ p.bits = Bits(url)
    BY <1>2, <1>3, <1>7, Zenon
  <2>2. QED
    BY <2>1, Zenon
<1>8. QED
  BY <1>4, <1>6, <1>7, Zenon

(* A principal is in exactly the groups that list it, by two queries and   *)
(* two callbacks (property.c:382, propfind.c:362).                         *)
THEOREM MembershipMutual == Spec => []MembershipIsMutual
<1>1. ASSUME NEW u \in Users, NEW v \in Users, NEW url \in ProxyTypes
      PROVE  Home(View(v)) \o url \o <<"/">> \in principal_group_membership(View(u))
             <=> Link(u) \in Members(View(v), url)
  <2>1. Home(View(v)) \o url \o <<"/">> \in principal_group_membership(View(u))
        <=> db.proxy[v][u] = Bits(url)
    BY InGroup
  <2>2. Link(u) \in Members(View(v), url) <=> db.proxy[v][u] = Bits(url)
    BY InMembers
  <2>3. QED
    BY <2>1, <2>2, Zenon
<1>2. MembershipIsMutual
  BY <1>1, Zenon DEF MembershipIsMutual
<1>3. QED
  BY <1>2, PTL
=============================================================================
