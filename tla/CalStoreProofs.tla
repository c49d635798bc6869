--------------------------- MODULE CalStoreProofs ---------------------------
(***************************************************************************)
(* Proofs about CalStore, for every value of its constants.                *)
(***************************************************************************)
EXTENDS CalStoreInv, TLAPS

-----------------------------------------------------------------------------
(* What the SQL statements do to a database.                               *)

LEMMA InsertResLemma ==
  ASSUME NEW d \in Database, NEW k \in Ids, NEW n \in Names,
         NEW e \in Nat, NEW b \in Nat
  PROVE  LET D == InsertRes(d, k, n, e, b) IN
         /\ D \in Database
         /\ D.coln = d.coln /\ D.next = d.next
         /\ D.res[k][n] = [etag |-> e, data |-> b]
         /\ \A i \in Ids, m \in Names : i # k \/ m # n => D.res[i][m] = d.res[i][m]
         /\ \A i \in Ids : i # k => D.res[i] = d.res[i]
  BY DEF InsertRes, Database, Res

LEMMA UpdateResLemma ==
  ASSUME NEW d \in Database, NEW k \in Ids, NEW n \in Names,
         NEW e \in Nat, NEW b \in Nat
  PROVE  LET D == UpdateRes(d, k, n, e, b) IN
         /\ D \in Database
         /\ D.coln = d.coln /\ D.next = d.next
         /\ D.res[k][n] = None <=> d.res[k][n] = None
         /\ \A i \in Ids, m \in Names : i # k \/ m # n => D.res[i][m] = d.res[i][m]
         /\ \A i \in Ids : i # k => D.res[i] = d.res[i]
<1> DEFINE D == UpdateRes(d, k, n, e, b)
<1>1. CASE d.res[k][n] = None
  <2>1. D = d
    BY <1>1 DEF UpdateRes
  <2>2. QED
    BY <2>1 DEF Database
<1>2. CASE d.res[k][n] # None
  <2> DEFINE I == InsertRes(d, k, n, e, b)
  <2>1. D = I
    BY <1>2 DEF UpdateRes
  <2>2. [etag |-> e, data |-> b] # None
    BY CalStoreAssumption DEF Res
  <2>3. /\ I \in Database /\ I.coln = d.coln /\ I.next = d.next
        /\ I.res[k][n] = [etag |-> e, data |-> b]
        /\ \A i \in Ids, m \in Names : i # k \/ m # n => I.res[i][m] = d.res[i][m]
        /\ \A i \in Ids : i # k => I.res[i] = d.res[i]
    BY InsertResLemma
  <2> HIDE DEF I
  <2>4. QED
    BY <1>2, <2>1, <2>2, <2>3
<1>3. QED
  BY <1>1, <1>2

LEMMA DropResLemma ==
  ASSUME NEW d \in Database, NEW k \in Ids, NEW n \in Names
  PROVE  LET D == DropRes(d, k, n) IN
         /\ D \in Database
         /\ D.coln = d.coln /\ D.next = d.next
         /\ D.res[k][n] = None
         /\ \A i \in Ids, m \in Names : i # k \/ m # n => D.res[i][m] = d.res[i][m]
         /\ \A i \in Ids : i # k => D.res[i] = d.res[i]
  BY DEF DropRes, Database

(* D is d without resource n of collection k.                              *)
RowGone(D, d, k, n) ==
    /\ D \in Database /\ D.coln = d.coln /\ D.next = d.next
    /\ D.res[k][n] = None
    /\ \A m \in Names : m # n => D.res[k][m] = d.res[k][m]
    /\ \A i \in Ids, m \in Names : i # k \/ m # n => D.res[i][m] = d.res[i][m]
    /\ \A i \in Ids : i # k => D.res[i] = d.res[i]

LEMMA DropResGone ==
  ASSUME NEW d \in Database, NEW k \in Ids, NEW n \in Names
  PROVE  RowGone(DropRes(d, k, n), d, k, n)
<1> DEFINE D == DropRes(d, k, n)
<1>1. /\ D \in Database /\ D.coln = d.coln /\ D.next = d.next /\ D.res[k][n] = None
      /\ \A i \in Ids, m \in Names : i # k \/ m # n => D.res[i][m] = d.res[i][m]
      /\ \A i \in Ids : i # k => D.res[i] = d.res[i]
  BY DropResLemma
<1> HIDE DEF D
<1>2. \A m \in Names : m # n => D.res[k][m] = d.res[k][m]
  BY <1>1
<1>3. RowGone(D, d, k, n)
  BY <1>1, <1>2, Zenon DEF RowGone
<1>4. QED
  BY <1>3 DEF D

LEMMA BumpCtagLemma ==
  ASSUME NEW d \in Database, NEW k \in Ids
  PROVE  LET D == BumpCtag(d, k) IN
         /\ D \in Database
         /\ D.res = d.res /\ D.next = d.next
         /\ \A i \in Ids : D.coln[i] = None <=> d.coln[i] = None
         /\ \A i \in Ids : i # k => D.coln[i] = d.coln[i]
         /\ d.coln[k] # None => /\ D.coln[k].ctag = d.coln[k].ctag + 1
                                /\ D.coln[k].url  = d.coln[k].url
<1>1. CASE d.coln[k] = None
  BY <1>1 DEF BumpCtag, Database
<1>2. CASE d.coln[k] # None
  <2> DEFINE r == [d.coln[k] EXCEPT !.ctag = @ + 1]
             D == [d EXCEPT !.coln = [d.coln EXCEPT ![k] = r]]
  <2>1. BumpCtag(d, k) = D
    BY <1>2 DEF BumpCtag
  <2>2. d.coln[k] \in Coln
    BY <1>2 DEF Database
  <2>3. /\ r \in Coln /\ r # None
        /\ r.ctag = d.coln[k].ctag + 1 /\ r.url = d.coln[k].url
    BY <2>2, CalStoreAssumption DEF Coln
  <2> HIDE DEF r
  <2>4. /\ D \in Database /\ D.res = d.res /\ D.next = d.next
        /\ D.coln[k] = r /\ \A i \in Ids : i # k => D.coln[i] = d.coln[i]
    BY <2>3 DEF Database
  <2>5. QED
    BY <1>2, <2>1, <2>3, <2>4
<1>3. QED
  BY <1>1, <1>2

LEMMA SetPropsLemma ==
  ASSUME NEW d \in Database, NEW k \in Ids, NEW p \in Props
  PROVE  LET D == SetProps(d, k, p) IN
         /\ D \in Database
         /\ D.res = d.res /\ D.next = d.next
         /\ \A i \in Ids : D.coln[i] = None <=> d.coln[i] = None
         /\ \A i \in Ids : i # k => D.coln[i] = d.coln[i]
         /\ d.coln[k] # None => /\ D.coln[k].ctag = d.coln[k].ctag
                                /\ D.coln[k].url  = d.coln[k].url
<1>1. CASE d.coln[k] = None
  BY <1>1 DEF SetProps, Database
<1>2. CASE d.coln[k] # None
  <2> DEFINE r == [d.coln[k] EXCEPT !.props = p]
             D == [d EXCEPT !.coln = [d.coln EXCEPT ![k] = r]]
  <2>1. SetProps(d, k, p) = D
    BY <1>2 DEF SetProps
  <2>2. d.coln[k] \in Coln
    BY <1>2 DEF Database
  <2>3. /\ r \in Coln /\ r # None
        /\ r.ctag = d.coln[k].ctag /\ r.url = d.coln[k].url
    BY <2>2, CalStoreAssumption DEF Coln
  <2> HIDE DEF r
  <2>4. /\ D \in Database /\ D.res = d.res /\ D.next = d.next
        /\ D.coln[k] = r /\ \A i \in Ids : i # k => D.coln[i] = d.coln[i]
    BY <2>3 DEF Database
  <2>5. QED
    BY <1>2, <2>1, <2>3, <2>4
<1>3. QED
  BY <1>1, <1>2

LEMMA DropColnLemma ==
  ASSUME NEW d \in Database, NEW k \in Ids
  PROVE  LET D == DropColn(d, k) IN
         /\ D \in Database
         /\ D.next = d.next
         /\ D.coln[k] = None /\ \A n \in Names : D.res[k][n] = None
         /\ \A i \in Ids : i # k => D.coln[i] = d.coln[i] /\ D.res[i] = d.res[i]
  BY DEF DropColn, Database

LEMMA NewColnLemma ==
  ASSUME NEW d \in Database, NEW u \in Urls, d.next \in Ids
  PROVE  LET D == NewColn(d, u) IN
         /\ D \in Database
         /\ D.res = d.res /\ D.next = d.next + 1
         /\ D.coln[d.next] # None
         /\ D.coln[d.next].url = u /\ D.coln[d.next].ctag = 1
         /\ \A i \in Ids : i # d.next => D.coln[i] = d.coln[i]
<1> DEFINE r == [url |-> u, ctag |-> 1, props |-> [f \in Fields |-> Default]]
<1>1. r \in Coln /\ r # None /\ r.url = u /\ r.ctag = 1
  BY CalStoreAssumption DEF Coln, Props
<1>2. NewColn(d, u) = [d EXCEPT !.coln = [d.coln EXCEPT ![d.next] = r],
                                !.next = d.next + 1]
  BY DEF NewColn
<1> DEFINE f == [d.coln EXCEPT ![d.next] = r]
           D == NewColn(d, u)
<1> HIDE DEF r
<1>3. f \in [Ids -> Coln \cup {None}]
  BY <1>1 DEF Database
<1>4. f[d.next] = r /\ \A i \in Ids : i # d.next => f[i] = d.coln[i]
  BY DEF Database
<1>5. D = [d EXCEPT !.coln = f, !.next = d.next + 1]
  BY <1>2
<1> HIDE DEF f
<1>6. D \in Database /\ D.coln = f /\ D.res = d.res /\ D.next = d.next + 1
  <2> HIDE DEF D
  <2>1. d.next + 1 \in Nat \ {0}
    BY DEF Ids
  <2>2. QED
    BY <1>3, <1>5, <2>1 DEF Database
<1>7. QED
  BY <1>1, <1>4, <1>6

-----------------------------------------------------------------------------
(* Types, and what a process knows at each of its steps.                   *)

StoreType == db \in Database /\ wal \in Database /\ lock \in Clients \cup {None}

ProcType ==
    /\ pc \in [Clients -> Pcs]
    /\ job \in [Clients -> Job \cup {None}]
    /\ cfg \in [Clients -> Snapshot \cup {None}]
    /\ code \in [Clients -> Codes]
    /\ JobOK

RestType ==
    /\ known \in [Clients -> Listing \cup {None}]
    /\ copy \in [Clients -> Copy \cup {None}]
    /\ orphans \subseteq Ids
    /\ reqs \in Nat /\ clock \in Nat /\ faults \in Nat

TInv == StoreType /\ ProcType /\ RestType

LEMMA TInvIsTypeOK == TInv <=> TypeOK /\ JobOK
  BY DEF TInv, StoreType, ProcType, RestType, TypeOK

LEMMA AnswerType ==
  ASSUME ProcType, NEW c \in Clients, NEW status \in Codes, Answer(c, status)
  PROVE  ProcType'
<1>1. \A b \in Clients : JobAt(job[b], cfg[b], pc[b])'
  <2> SUFFICES ASSUME NEW b \in Clients
               PROVE  JobAt(job'[b], cfg'[b], pc'[b])
    OBVIOUS
  <2>1. CASE b = c
    <3>1. cfg'[b] = None /\ pc'[b] = "idle"
      BY <2>1 DEF Answer, ProcType
    <3>2. QED
      BY <3>1 DEF JobAt
  <2>2. CASE b # c
    <3>1. job'[b] = job[b] /\ cfg'[b] = cfg[b] /\ pc'[b] = pc[b]
      BY <2>2 DEF Answer, ProcType
    <3>2. QED
      BY <3>1 DEF ProcType, JobOK
  <2>3. QED
    BY <2>1, <2>2
<1>2. QED
  BY <1>1 DEF Answer, ProcType, JobOK, Pcs

LEMMA GotoType ==
  ASSUME ProcType, NEW c \in Clients, NEW label \in Pcs, Goto(c, label),
         JobAt(job[c], cfg[c], label)
  PROVE  ProcType'
<1>1. \A b \in Clients : JobAt(job[b], cfg[b], pc[b])'
  <2> SUFFICES ASSUME NEW b \in Clients
               PROVE  JobAt(job'[b], cfg'[b], pc'[b])
    OBVIOUS
  <2>1. job' = job /\ cfg' = cfg /\ pc'[b] = IF b = c THEN label ELSE pc[b]
    BY DEF Goto, ProcType
  <2>2. QED
    BY <2>1 DEF ProcType, JobOK
<1>2. QED
  BY <1>1 DEF Goto, ProcType, JobOK

(* What JobAt says of a process past "load".                               *)
LEMMA JobFacts ==
  ASSUME ProcType, NEW c \in Clients, pc[c] \notin {"idle", "load"},
         job[c].method # "json_newcoln"
  PROVE  /\ job[c] \in Job /\ cfg[c] \in Snapshot /\ cfg[c].id \in Ids
         /\ job[c].etag \in Nat /\ job[c].body \in Nat
         /\ job[c].method \in {"put", "delete", "get"} => job[c].name \in Names
  BY DEF ProcType, JobOK, JobAt, Snapshot, Job

LEMMA AutocommitType ==
  ASSUME StoreType, NEW d \in Database, Autocommit(d)
  PROVE  StoreType'
  BY DEF StoreType, Autocommit

LEMMA RollbackType ==
  ASSUME StoreType, NEW c \in Clients, Abandon(c)
  PROVE  StoreType'
  BY DEF StoreType, Abandon, db_trans_rollback, store

LEMMA UnchangedStoreType ==
  StoreType /\ UNCHANGED store => StoreType'
  BY DEF StoreType, store

LEMMA UnchangedRestType ==
  RestType /\ UNCHANGED <<clients, orphans, bounds>> => RestType'
  BY DEF RestType, clients, bounds

(* Sending a request.                                                      *)
LEMMA RequestType ==
  ASSUME NEW m \in AllMethods
  PROVE  /\ Request(m) \in Job /\ Request(m).method = m
         /\ Request(m).url = None /\ Request(m).id = None
         /\ Request(m).name = None /\ Request(m).digest = None
<1>1. NoProps \in Props
  BY CalStoreAssumption DEF NoProps, Props
<1>2. QED
  BY <1>1 DEF Request, Job

(* What a request asks for is in its job, by kind of request.              *)
ResourceJob(m, u, n, e) == [Request(m) EXCEPT !.url = u, !.name = n, !.digest = e]
UrlJob(m, u) == [Request(m) EXCEPT !.url = u]
PropsJob(m, u, fs, p) == [Request(m) EXCEPT !.url = u, !.fields = fs, !.props = p]
IdJob(m, k) == [Request(m) EXCEPT !.id = k]
IdPropsJob(m, k, fs, p) == [Request(m) EXCEPT !.id = k, !.fields = fs, !.props = p]

LEMMA ResourceJobType ==
  ASSUME NEW m \in AllMethods, NEW u \in Urls, NEW n \in Names, NEW e \in Nat \cup {None}
  PROVE  LET J == ResourceJob(m, u, n, e)
         IN J \in Job /\ J.method = m /\ J.url = u /\ J.name = n
<1> DEFINE r == Request(m)
<1>1. r \in Job /\ r.method = m
  BY RequestType
<1> HIDE DEF r
<1>2. ResourceJob(m, u, n, e) = [r EXCEPT !.url = u, !.name = n, !.digest = e]
  BY DEF r, ResourceJob
<1>3. QED
  BY <1>1, <1>2 DEF Job

LEMMA UrlJobType ==
  ASSUME NEW m \in AllMethods, NEW u \in Urls
  PROVE  LET J == UrlJob(m, u) IN J \in Job /\ J.method = m /\ J.url = u
<1> DEFINE r == Request(m)
<1>1. r \in Job /\ r.method = m
  BY RequestType
<1> HIDE DEF r
<1>2. UrlJob(m, u) = [r EXCEPT !.url = u]
  BY DEF r, UrlJob
<1>3. QED
  BY <1>1, <1>2 DEF Job

LEMMA PropsJobType ==
  ASSUME NEW m \in AllMethods, NEW u \in Urls, NEW fs \in SUBSET Fields, NEW p \in Props
  PROVE  LET J == PropsJob(m, u, fs, p) IN J \in Job /\ J.method = m /\ J.url = u
<1> DEFINE r == Request(m)
<1>1. r \in Job /\ r.method = m
  BY RequestType
<1> HIDE DEF r
<1>2. PropsJob(m, u, fs, p) = [r EXCEPT !.url = u, !.fields = fs, !.props = p]
  BY DEF r, PropsJob
<1>3. QED
  BY <1>1, <1>2 DEF Job

LEMMA IdJobType ==
  ASSUME NEW m \in AllMethods, NEW k \in Ids
  PROVE  LET J == IdJob(m, k) IN J \in Job /\ J.method = m /\ J.id = k
<1> DEFINE r == Request(m)
<1>1. r \in Job /\ r.method = m
  BY RequestType
<1> HIDE DEF r
<1>2. IdJob(m, k) = [r EXCEPT !.id = k]
  BY DEF r, IdJob
<1>3. QED
  BY <1>1, <1>2 DEF Job

LEMMA IdPropsJobType ==
  ASSUME NEW m \in AllMethods, NEW k \in Ids, NEW fs \in SUBSET Fields, NEW p \in Props
  PROVE  LET J == IdPropsJob(m, k, fs, p) IN J \in Job /\ J.method = m /\ J.id = k
<1> DEFINE r == Request(m)
<1>1. r \in Job /\ r.method = m
  BY RequestType
<1> HIDE DEF r
<1>2. IdPropsJob(m, k, fs, p) = [r EXCEPT !.id = k, !.fields = fs, !.props = p]
  BY DEF r, IdPropsJob
<1>3. QED
  BY <1>1, <1>2 DEF Job

LEMMA SubmitType ==
  ASSUME TInv, NEW c \in Clients, NEW j \in Job, NEW label \in {"load", "exec"},
         Submit(c, j, label),
         j.method \in {"put", "delete", "get"} => j.name \in Names,
         j.method = "json_newcoln" <=> label = "exec",
         j.method \notin IdMethods => j.url \in Urls,
         j.method \in IdMethods => j.id \in Ids
  PROVE  TInv'
<1>1. StoreType'
  BY DEF TInv, StoreType, Submit
<1>2. clock' \in Nat /\ reqs' \in Nat
  BY DEF TInv, RestType, Submit
<1>3. RestType'
  BY <1>2 DEF TInv, RestType, Submit
<1> DEFINE e == IF Arc4Random THEN reqs + 1 ELSE clock'
           J == [j EXCEPT !.etag = e, !.body = reqs + 1]
<1>4. e \in Nat /\ reqs + 1 \in Nat
  BY <1>2 DEF TInv, RestType
<1>5. /\ J \in Job /\ J.method = j.method /\ J.name = j.name /\ J.url = j.url
      /\ J.id = j.id /\ J.digest = j.digest
  <2> HIDE DEF e
  <2>1. QED
    BY <1>4 DEF Job
<1>6. /\ pc' = [pc EXCEPT ![c] = label] /\ job' = [job EXCEPT ![c] = J]
      /\ code' = [code EXCEPT ![c] = 0] /\ cfg' = cfg /\ pc[c] = "idle"
  BY DEF Submit
<1> HIDE DEF J
<1>7. cfg[c] = None
  BY <1>6 DEF TInv, ProcType, JobOK, JobAt
<1>8. JobAt(J, cfg[c], label)
  BY <1>5, <1>7 DEF JobAt, IdMethods, InTransPcs
<1>9. \A b \in Clients : JobAt(job'[b], cfg'[b], pc'[b])
  <2> TAKE b \in Clients
  <2>1. CASE b = c
    <3>1. job'[b] = J /\ cfg'[b] = cfg[c] /\ pc'[b] = label
      BY <1>6, <2>1 DEF TInv, ProcType
    <3>2. QED
      BY <3>1, <1>8
  <2>2. CASE b # c
    <3>1. job'[b] = job[b] /\ cfg'[b] = cfg[b] /\ pc'[b] = pc[b]
      BY <1>6, <2>2 DEF TInv, ProcType
    <3>2. QED
      BY <3>1 DEF TInv, ProcType, JobOK
  <2>3. QED
    BY <2>1, <2>2
<1>10. ProcType'
  BY <1>5, <1>6, <1>9 DEF TInv, ProcType, JobOK, Pcs, Codes
<1>11. QED
  BY <1>1, <1>3, <1>10 DEF TInv

LEMMA StartType ==
  ASSUME TInv, NEW c \in Clients, Start(c)
  PROVE  TInv'
<1>1. Digests \subseteq Nat \cup {None}
  BY DEF Digests, LastEtag, TInv, RestType
<1>2. CASE StartPut(c)
  <2>1. PICK u \in Urls, n \in Names, e \in Digests :
          Submit(c, [Request("put") EXCEPT !.url = u, !.name = n, !.digest = e], "load")
    BY <1>2 DEF StartPut
  <2> DEFINE j == ResourceJob("put", u, n, e)
  <2>2. j \in Job /\ j.method = "put" /\ j.name = n /\ j.url = u
    BY <1>1, ResourceJobType DEF AllMethods
  <2> HIDE DEF j
  <2>3. QED
    BY <2>1, <2>2, SubmitType DEF IdMethods, j, ResourceJob
<1>3. CASE StartDelete(c)
  <2>1. PICK u \in Urls, n \in Names, e \in Digests :
          Submit(c, [Request("delete") EXCEPT !.url = u, !.name = n, !.digest = e], "load")
    BY <1>3 DEF StartDelete
  <2> DEFINE j == ResourceJob("delete", u, n, e)
  <2>2. j \in Job /\ j.method = "delete" /\ j.name = n /\ j.url = u
    BY <1>1, ResourceJobType DEF AllMethods
  <2> HIDE DEF j
  <2>3. QED
    BY <2>1, <2>2, SubmitType DEF IdMethods, j, ResourceJob
<1>4. CASE StartDelcoln(c)
  <2>1. PICK u \in Urls : Submit(c, [Request("delcoln") EXCEPT !.url = u], "load")
    BY <1>4 DEF StartDelcoln
  <2> DEFINE j == UrlJob("delcoln", u)
  <2>2. j \in Job /\ j.method = "delcoln" /\ j.url = u
    BY UrlJobType DEF AllMethods
  <2> HIDE DEF j
  <2>3. QED
    BY <2>1, <2>2, SubmitType DEF IdMethods, j, UrlJob
<1>5. CASE StartGet(c)
  <2>1. PICK u \in Urls, n \in Names :
          LET held == copy[c] # None /\ copy[c].url = u /\ copy[c].name = n IN
          Submit(c, [Request("get") EXCEPT !.url = u, !.name = n,
                       !.digest = IF held THEN copy[c].etag ELSE None], "load")
    BY <1>5 DEF StartGet
  <2> DEFINE held == copy[c] # None /\ copy[c].url = u /\ copy[c].name = n
             e == IF held THEN copy[c].etag ELSE None
             j == ResourceJob("get", u, n, e)
  <2>2. e \in Nat \cup {None}
    BY DEF TInv, RestType, Copy
  <2> HIDE DEF e
  <2>3. j \in Job /\ j.method = "get" /\ j.name = n /\ j.url = u
    BY <2>2, ResourceJobType DEF AllMethods
  <2>4. Submit(c, j, "load")
    BY <2>1 DEF e, ResourceJob
  <2> HIDE DEF j
  <2>5. QED
    BY <2>3, <2>4, SubmitType DEF IdMethods
<1>6. CASE StartPropfind(c)
  <2>1. PICK u \in Urls : Submit(c, [Request("propfind") EXCEPT !.url = u], "load")
    BY <1>6 DEF StartPropfind
  <2> DEFINE j == UrlJob("propfind", u)
  <2>2. j \in Job /\ j.method = "propfind" /\ j.url = u
    BY UrlJobType DEF AllMethods
  <2> HIDE DEF j
  <2>3. QED
    BY <2>1, <2>2, SubmitType DEF IdMethods, j, UrlJob
<1>7. CASE StartProppatch(c)
  <2>1. PICK u \in Urls, fs \in SUBSET Fields, p \in Props :
          Submit(c, [Request("proppatch") EXCEPT !.url = u, !.fields = fs, !.props = p],
                 "load")
    BY <1>7 DEF StartProppatch
  <2> DEFINE j == PropsJob("proppatch", u, fs, p)
  <2>2. j \in Job /\ j.method = "proppatch" /\ j.url = u
    BY PropsJobType DEF AllMethods
  <2> HIDE DEF j
  <2>3. QED
    BY <2>1, <2>2, SubmitType DEF IdMethods, j, PropsJob
<1>8. CASE StartNewcoln(c)
  <2>1. PICK u \in Urls :
          Submit(c, [Request("json_newcoln") EXCEPT !.url = u], "exec")
    BY <1>8 DEF StartNewcoln
  <2> DEFINE j == UrlJob("json_newcoln", u)
  <2>2. j \in Job /\ j.method = "json_newcoln" /\ j.url = u
    BY UrlJobType DEF AllMethods
  <2> HIDE DEF j
  <2>3. QED
    BY <2>1, <2>2, SubmitType DEF IdMethods, j, UrlJob
<1>9. CASE StartJsonDelcoln(c)
  <2>1. PICK k \in Ids :
          Submit(c, [Request("json_delcoln") EXCEPT !.id = k], "load")
    BY <1>9 DEF StartJsonDelcoln
  <2> DEFINE j == IdJob("json_delcoln", k)
  <2>2. j \in Job /\ j.method = "json_delcoln" /\ j.id = k
    BY IdJobType DEF AllMethods
  <2> HIDE DEF j
  <2>3. QED
    BY <2>1, <2>2, SubmitType DEF IdMethods, j, IdJob
<1>10. CASE StartSetcolnprops(c)
  <2>1. PICK k \in Ids, fs \in SUBSET Fields, p \in Props :
          Submit(c, [Request("json_setcolnprops") EXCEPT !.id = k, !.fields = fs,
                       !.props = p], "load")
    BY <1>10 DEF StartSetcolnprops
  <2> DEFINE j == IdPropsJob("json_setcolnprops", k, fs, p)
  <2>2. j \in Job /\ j.method = "json_setcolnprops" /\ j.id = k
    BY IdPropsJobType DEF AllMethods
  <2> HIDE DEF j
  <2>3. QED
    BY <2>1, <2>2, SubmitType DEF IdMethods, j, IdPropsJob
<1>11. QED
  BY <1>2, <1>3, <1>4, <1>5, <1>6, <1>7, <1>8, <1>9, <1>10 DEF Start

LEMMA LoadType ==
  ASSUME TInv, NEW c \in Clients, load(c)
  PROVE  TInv'
<1>1. pc[c] = "load" /\ UNCHANGED <<store, clients, orphans, bounds>>
  BY DEF load
<1>2. StoreType' /\ RestType'
  BY <1>1, UnchangedStoreType, UnchangedRestType DEF TInv
<1>3. CASE \E k \in Ids : db.coln[k] # None /\ Found(c, k)
  <2>1. PICK k \in Ids : db.coln[k] # None /\ Found(c, k)
    BY <1>3
  <2>2. SnapshotOf(k) \in Snapshot
    BY <2>1 DEF TInv, StoreType, Database, Coln, SnapshotOf, Snapshot
  <2>3. /\ cfg' = [cfg EXCEPT ![c] = SnapshotOf(k)]
        /\ pc'  = [pc EXCEPT ![c] = "exec"]
        /\ job' = job /\ code' = code
    BY <2>1 DEF Found
  <2>4. JobAt(job[c], SnapshotOf(k), "exec")
    BY <1>1, <2>2 DEF TInv, ProcType, JobOK, JobAt, InTransPcs
  <2>5. \A b \in Clients : JobAt(job'[b], cfg'[b], pc'[b])
    <3> TAKE b \in Clients
    <3>1. CASE b = c
      <4>1. job'[b] = job[c] /\ cfg'[b] = SnapshotOf(k) /\ pc'[b] = "exec"
        BY <2>3, <3>1 DEF TInv, ProcType
      <4>2. QED
        BY <2>4, <4>1
    <3>2. CASE b # c
      <4>1. job'[b] = job[b] /\ cfg'[b] = cfg[b] /\ pc'[b] = pc[b]
        BY <2>3, <3>2 DEF TInv, ProcType
      <4>2. QED
        BY <4>1 DEF TInv, ProcType, JobOK
    <3>3. QED
      BY <3>1, <3>2
  <2>6. ProcType'
    BY <2>2, <2>3, <2>5 DEF TInv, ProcType, JobOK, Pcs
  <2>7. QED
    BY <1>2, <2>6 DEF TInv
<1>4. CASE \E status \in Codes : Answer(c, status)
  BY <1>2, <1>4, AnswerType DEF TInv
<1> DEFINE j  == job[c]
           ks == IF j.method \in {"json_delcoln", "json_setcolnprops"}
                 THEN {k \in Ids : k = j.id /\ db.coln[k] # None}
                 ELSE ColnAt(db, j.url)
<1>5. (\E k \in ks : Found(c, k)) \/ Answer(c, 400) \/ Answer(c, 404)
  BY DEF load
<1>6. \A k \in ks : k \in Ids /\ db.coln[k] # None
  BY DEF ColnAt
<1>7. 400 \in Codes /\ 404 \in Codes
  BY DEF Codes
<1> HIDE DEF ks
<1>8. QED
  BY <1>3, <1>4, <1>5, <1>6, <1>7

(* A method that only reads ends with an answer.                           *)
LEMMA ReadType ==
  ASSUME TInv, NEW c \in Clients,
         method_get(c) \/ method_propfind(c)
  PROVE  TInv'
<1>1. UNCHANGED store /\ (\E status \in Codes : Answer(c, status))
  BY DEF method_get, method_propfind, Codes
<1>2. StoreType' /\ ProcType'
  BY <1>1, UnchangedStoreType, AnswerType DEF TInv
<1>3. /\ job[c] \in Job /\ cfg[c] \in Snapshot /\ cfg[c].id \in Ids
  BY JobFacts DEF TInv, method_get, method_propfind, At
<1>4. RestType'
  <2>1. CASE method_get(c)
    <3> DEFINE r == db.res[cfg[c].id][job[c].name]
               y == [url |-> job[c].url, name |-> job[c].name,
                     etag |-> r.etag, data |-> r.data]
    <3>1. copy' = copy \/ (r # None /\ copy' = [copy EXCEPT ![c] = y])
      BY <2>1 DEF method_get
    <3>2. job[c].name \in Names /\ job[c].url \in Urls
      BY <2>1 DEF method_get, At, TInv, ProcType, JobOK, JobAt, IdMethods
    <3>3. r \in Res \cup {None}
      BY <1>3, <3>2 DEF TInv, StoreType, Database
    <3>4. r # None => y \in Copy
      <4> HIDE DEF r
      <4>1. QED
        BY <3>2, <3>3 DEF Res, Copy
    <3> HIDE DEF y
    <3>5. copy' \in [Clients -> Copy \cup {None}]
      BY <3>1, <3>4 DEF TInv, RestType
    <3>6. QED
      BY <2>1, <3>5 DEF method_get, TInv, RestType, bounds
  <2>2. CASE method_propfind(c)
    <3> DEFINE s == [id |-> cfg[c].id, ctag |-> cfg[c].ctag, whole |-> TRUE,
                     list |-> db.res[cfg[c].id]]
    <3>1. known' = [known EXCEPT ![c] = s]
      BY <2>2 DEF method_propfind
    <3>2. db.res[cfg[c].id] \in [Names -> Res \cup {None}]
      BY <1>3 DEF TInv, StoreType, Database
    <3>3. s \in Listing
      BY <1>3, <3>2 DEF Snapshot, Listing
    <3> HIDE DEF s
    <3>4. known' \in [Clients -> Listing \cup {None}]
      BY <3>1, <3>3 DEF TInv, RestType
    <3>5. QED
      BY <2>2, <3>4 DEF method_propfind, TInv, RestType, bounds
  <2>3. QED
    BY <2>1, <2>2
<1>5. QED
  BY <1>2, <1>4 DEF TInv

LEMMA MergedType ==
  ASSUME TInv, NEW c \in Clients, pc[c] = "update"
  PROVE  Merged(c) \in Props
<1>1. job[c] \in Job /\ cfg[c] \in Snapshot
  BY DEF TInv, ProcType, JobOK, JobAt, PropMethods
<1>2. job[c].props \in Props /\ cfg[c].props \in Props
  BY <1>1 DEF Job, Snapshot
<1>3. QED
  BY <1>2 DEF Merged, Props

LEMMA SuccessType ==
  ASSUME TInv, NEW c \in Clients
  PROVE  Success(c) \in Codes
  BY DEF Success, Codes, TInv, ProcType

LEMMA ServeType ==
  ASSUME TInv, NEW c \in Clients, Serve(c)
  PROVE  TInv'
<1> DEFINE k == cfg[c].id
           j == job[c]
<1>1. CASE load(c)
  BY <1>1, LoadType
<1>2. CASE db_resource_new(c)
  <2>1. k \in Ids /\ j.name \in Names /\ j.etag \in Nat /\ j.body \in Nat
    BY <1>2, JobFacts DEF TInv, db_resource_new, At
  <2>2. RestType'
    BY <1>2, UnchangedRestType DEF TInv, db_resource_new
  <2>3. CASE Answer(c, 403) /\ UNCHANGED store
    BY <2>2, <2>3, AnswerType, UnchangedStoreType DEF TInv, Codes
  <2>4. CASE Goto(c, "bump") /\ Autocommit(InsertRes(db, k, j.name, j.etag, j.body))
    <3>1. StoreType'
      BY <2>1, <2>4, AutocommitType, InsertResLemma DEF TInv, StoreType
    <3>2. JobAt(j, cfg[c], "bump")
      BY <1>2 DEF db_resource_new, At, TInv, ProcType, JobOK, JobAt, InTransPcs
    <3>3. QED
      BY <2>2, <2>4, <3>1, <3>2, GotoType DEF TInv, Pcs
  <2>5. QED
    BY <1>2, <2>3, <2>4 DEF db_resource_new
<1>3. CASE db_resource_remove(c)
  <2>1. k \in Ids /\ j.name \in Names
    BY <1>3, JobFacts DEF TInv, db_resource_remove, At
  <2>2. RestType'
    BY <1>3, UnchangedRestType DEF TInv, db_resource_remove
  <2>3. StoreType'
    BY <1>3, <2>1, AutocommitType, DropResLemma DEF TInv, StoreType, db_resource_remove
  <2>4. JobAt(j, cfg[c], "bump")
    BY <1>3 DEF db_resource_remove, At, TInv, ProcType, JobOK, JobAt, InTransPcs
  <2>5. QED
    BY <1>3, <2>2, <2>3, <2>4, GotoType DEF TInv, Pcs, db_resource_remove
<1>4. CASE trans_open(c)
  <2>1. StoreType' /\ RestType'
    BY <1>4, UnchangedRestType DEF TInv, trans_open, db_trans_open, StoreType
  <2>2. JobAt(j, cfg[c], "check")
    <3>1. j \in Job /\ j.digest # None
      BY <1>4, JobFacts DEF TInv, trans_open, At
    <3>2. j.digest \in Nat
      BY <3>1 DEF Job
    <3>3. QED
      BY <1>4, <3>2 DEF trans_open, At, TInv, ProcType, JobOK, JobAt
  <2>3. QED
    BY <1>4, <2>1, <2>2, GotoType DEF TInv, Pcs, trans_open
<1>5. CASE trans_check(c)
  <2>1. RestType'
    BY <1>5, UnchangedRestType DEF TInv, trans_check
  <2>2. CASE Goto(c, "write") /\ UNCHANGED store
    <3>1. JobAt(j, cfg[c], "write")
      BY <1>5 DEF trans_check, TInv, ProcType, JobOK, JobAt, InTransPcs
    <3>2. QED
      BY <2>1, <2>2, <3>1, GotoType, UnchangedStoreType DEF TInv, Pcs
  <2>3. CASE db_trans_rollback /\ \E status \in Codes : Answer(c, status)
    BY <2>1, <2>3, AnswerType DEF TInv, StoreType, db_trans_rollback
  <2>4. QED
    BY <1>5, <2>2, <2>3 DEF trans_check, Codes
<1>6. CASE trans_write(c)
  <2>1. k \in Ids /\ j.name \in Names /\ j.etag \in Nat /\ j.body \in Nat
    BY <1>6, JobFacts DEF TInv, trans_write, ProcType, JobOK, JobAt, InTransPcs
  <2>2. RestType'
    BY <1>6, UnchangedRestType DEF TInv, trans_write
  <2>3. /\ UpdateRes(wal, k, j.name, j.etag, j.body) \in Database
        /\ DropRes(wal, k, j.name) \in Database
    BY <2>1, UpdateResLemma, DropResLemma DEF TInv, StoreType
  <2>4. StoreType'
    BY <1>6, <2>3 DEF trans_write, TransWrite, TInv, StoreType
  <2>5. JobAt(j, cfg[c], "wbump")
    BY <1>6 DEF trans_write, TInv, ProcType, JobOK, JobAt, InTransPcs
  <2>6. QED
    BY <1>6, <2>2, <2>4, <2>5, GotoType DEF TInv, Pcs, trans_write
<1>7. CASE trans_update_ctag(c)
  <2>1. k \in Ids
    BY <1>7, JobFacts DEF TInv, trans_update_ctag, ProcType, JobOK, JobAt, InTransPcs
  <2>2. RestType'
    BY <1>7, UnchangedRestType DEF TInv, trans_update_ctag
  <2>3. StoreType'
    BY <1>7, <2>1, BumpCtagLemma DEF trans_update_ctag, TransWrite, TInv, StoreType
  <2>4. JobAt(j, cfg[c], "commit")
    BY <1>7 DEF trans_update_ctag, TInv, ProcType, JobOK, JobAt, InTransPcs
  <2>5. QED
    BY <1>7, <2>2, <2>3, <2>4, GotoType DEF TInv, Pcs, trans_update_ctag
<1>8. CASE trans_commit(c)
  <2>1. StoreType' /\ RestType'
    BY <1>8, UnchangedRestType
    DEF TInv, trans_commit, db_trans_commit, StoreType
  <2>2. QED
    BY <1>8, <2>1, AnswerType, SuccessType DEF TInv, trans_commit
<1>9. CASE db_collection_remove(c)
  <2>1. k \in Ids
    BY <1>9, JobFacts DEF TInv, db_collection_remove, At
  <2>2. StoreType' /\ RestType'
    BY <1>9, <2>1, UnchangedRestType, AutocommitType, DropColnLemma
    DEF TInv, StoreType, db_collection_remove
  <2>3. QED
    BY <1>9, <2>2, AnswerType DEF TInv, Codes, db_collection_remove
<1>10. CASE db_collection_new(c)
  <2>1. RestType'
    BY <1>10, UnchangedRestType DEF TInv, db_collection_new
  <2>2. ProcType'
    BY <1>10, AnswerType DEF TInv, Codes, db_collection_new
  <2>3. CASE UNCHANGED store
    BY <2>1, <2>2, <2>3, UnchangedStoreType DEF TInv
  <2>4. CASE db.next <= MaxColn /\ Autocommit(NewColn(db, j.url))
    <3>1. j.url \in Urls
      BY <1>10 DEF db_collection_new, At, TInv, ProcType, JobOK, JobAt, IdMethods
    <3>2. db.next \in Ids
      BY <2>4, CalStoreAssumption DEF TInv, StoreType, Database, Ids
    <3>3. StoreType'
      BY <2>4, <3>1, <3>2, NewColnLemma, AutocommitType DEF TInv, StoreType
    <3>4. QED
      BY <2>1, <2>2, <3>3 DEF TInv
  <2>5. QED
    BY <1>10, <2>3, <2>4 DEF db_collection_new
<1>11. CASE method_get(c) \/ method_propfind(c)
  BY <1>11, ReadType
<1>12. CASE prop_reply(c)
  <2>1. StoreType' /\ RestType'
    BY <1>12, UnchangedRestType, UnchangedStoreType DEF TInv, prop_reply
  <2>2. CASE Answer(c, 207)
    BY <2>1, <2>2, AnswerType DEF TInv, Codes
  <2>3. CASE /\ pc' = [pc EXCEPT ![c] = "update"]
             /\ \E e \in Codes : code' = [code EXCEPT ![c] = e]
             /\ UNCHANGED <<job, cfg>>
    <3>1. JobAt(j, cfg[c], "update")
      BY <1>12 DEF prop_reply, At, TInv, ProcType, JobOK, JobAt, PropMethods, InTransPcs
    <3>2. \A b \in Clients : JobAt(job'[b], cfg'[b], pc'[b])
      BY <2>3, <3>1 DEF TInv, ProcType, JobOK
    <3>3. ProcType'
      BY <2>3, <3>2 DEF TInv, ProcType, JobOK, Pcs
    <3>4. QED
      BY <2>1, <3>3 DEF TInv
  <2>4. QED
    BY <1>12, <2>2, <2>3 DEF prop_reply, Codes
<1>13. CASE db_collection_update(c)
  <2>1. k \in Ids
    BY <1>13, JobFacts DEF TInv, db_collection_update, At
  <2>2. StoreType' /\ RestType'
    BY <1>13, <2>1, UnchangedRestType, AutocommitType, SetPropsLemma, MergedType
    DEF TInv, StoreType, db_collection_update, At
  <2>3. JobAt(j, cfg[c], "bump")
    BY <1>13 DEF db_collection_update, At, TInv, ProcType, JobOK, JobAt, PropMethods,
                 InTransPcs
  <2>4. QED
    BY <1>13, <2>2, <2>3, GotoType DEF TInv, Pcs, db_collection_update
<1>14. CASE db_collection_update_ctag(c)
  <2>1. k \in Ids
    BY <1>14, JobFacts DEF TInv, db_collection_update_ctag, ProcType, JobOK, JobAt
  <2>2. StoreType' /\ RestType'
    BY <1>14, <2>1, UnchangedRestType, AutocommitType, BumpCtagLemma
    DEF TInv, StoreType, db_collection_update_ctag
  <2>3. QED
    BY <1>14, <2>2, AnswerType, SuccessType DEF TInv, db_collection_update_ctag
<1>15. QED
  BY <1>1, <1>2, <1>3, <1>4, <1>5, <1>6, <1>7, <1>8, <1>9, <1>10, <1>11, <1>12,
     <1>13, <1>14 DEF Serve

LEMMA OrphanType ==
  ASSUME TInv, NEW c \in Clients, Orphan(c)
  PROVE  orphans' \subseteq Ids
<1>1. CASE Unbumped(c)
  <2>1. cfg[c].id \in Ids
    BY <1>1, JobFacts DEF TInv, Unbumped
  <2>2. QED
    BY <1>1, <2>1 DEF Orphan, TInv, RestType
<1>2. CASE ~Unbumped(c)
  BY <1>2 DEF Orphan, TInv, RestType
<1>3. QED
  BY <1>1, <1>2

LEMMA BreakType ==
  ASSUME TInv, NEW c \in Clients, Break(c)
  PROVE  TInv'
<1>1. code[c] \in Codes /\ FailCode(c) \in Codes /\ Success(c) \in Codes
  BY DEF TInv, ProcType, FailCode, Success, Codes
<1>2. CASE Crash(c) \/ StatementFails(c) \/ CommitFails(c)
  <2>1. StoreType'
    BY <1>2, RollbackType DEF TInv, Crash, StatementFails, CommitFails
  <2>2. ProcType'
    BY <1>1, <1>2, AnswerType DEF TInv, Crash, StatementFails, CommitFails
  <2>3. orphans' \subseteq Ids
    BY <1>2, OrphanType DEF TInv, RestType, Crash, StatementFails, CommitFails
  <2>4. QED
    BY <1>2, <2>1, <2>2, <2>3
    DEF TInv, RestType, Crash, StatementFails, CommitFails, Fault, clients
<1>3. CASE ListingFails(c)
  <2>1. StoreType' /\ ProcType'
    BY <1>3, UnchangedStoreType, AnswerType DEF TInv, ListingFails, Codes
  <2>2. PICK ns \in SUBSET Names :
          known' = [known EXCEPT ![c] =
                      [id |-> cfg[c].id, ctag |-> cfg[c].ctag, whole |-> FALSE,
                       list |-> [n \in Names |-> IF n \in ns
                                     THEN db.res[cfg[c].id][n] ELSE None]]]
    BY <1>3 DEF ListingFails
  <2> DEFINE l == [n \in Names |-> IF n \in ns THEN db.res[cfg[c].id][n] ELSE None]
             s == [id |-> cfg[c].id, ctag |-> cfg[c].ctag, whole |-> FALSE, list |-> l]
  <2>3. cfg[c] \in Snapshot /\ cfg[c].id \in Ids
    BY <1>3, JobFacts DEF TInv, ListingFails, At
  <2>4. l \in [Names -> Res \cup {None}]
    BY <2>3 DEF TInv, StoreType, Database
  <2> HIDE DEF l
  <2>5. s \in Listing
    BY <2>3, <2>4 DEF Snapshot, Listing
  <2>6. known' = [known EXCEPT ![c] = s]
    BY <2>2 DEF l
  <2> HIDE DEF s
  <2>7. known' \in [Clients -> Listing \cup {None}]
    BY <2>5, <2>6 DEF TInv, RestType
  <2>8. QED
    BY <1>3, <2>1, <2>7 DEF ListingFails, Fault, TInv, RestType
<1>4. QED
  BY <1>2, <1>3 DEF Break

LEMMA InitType ==
  ASSUME Init
  PROVE  TInv
<1>1. NoColns \in Database /\ NoColns.next = 1
  BY DEF NoColns, Database
<1>2. 1 \in Ids
  BY CalStoreAssumption DEF Ids
<1>3. PICK u \in Urls : db = NewColn(NoColns, u)
  BY DEF Init
<1>4. StoreType
  BY <1>1, <1>2, <1>3, NewColnLemma DEF Init, StoreType
<1>5. ProcType
  BY DEF Init, ProcType, JobOK, JobAt, Pcs, Codes, InTransPcs
<1>6. RestType
  BY DEF Init, RestType
<1>7. QED
  BY <1>4, <1>5, <1>6 DEF TInv

LEMMA StutterType ==
  ASSUME TInv, UNCHANGED vars
  PROVE  TInv'
  BY DEF TInv, StoreType, ProcType, RestType, JobOK, JobAt, vars

LEMMA NextType ==
  ASSUME TInv, [Next]_vars
  PROVE  TInv'
  BY StartType, ServeType, BreakType, StutterType DEF Next

(* Every value stays in its type, and a process always knows what its next *)
(* step reads: the collection row and the resource name are there whenever *)
(* a method uses them (no method runs on a NULL st->cfg).                  *)
THEOREM TypeCorrect == Spec => [](TypeOK /\ JobOK)
<1>1. Init => TInv
  BY InitType
<1>2. TInv /\ [Next]_vars => TInv'
  BY NextType
<1>3. TInv => TypeOK /\ JobOK
  BY TInvIsTypeOK
<1>4. QED
  BY <1>1, <1>2, <1>3, PTL DEF Spec
=============================================================================
