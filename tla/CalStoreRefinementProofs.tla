---------------------- MODULE CalStoreRefinementProofs ----------------------
(***************************************************************************)
(* CalStore implements AtomicStore, for every value of the constants: each *)
(* step of the store is a step of the atomic store, or none, under the     *)
(* mapping of CalStoreRefinement.                                          *)
(***************************************************************************)
EXTENDS CalStoreRefinement, CalStoreSafety

Writing == {"put", "delete", "delcoln", "json_delcoln", "propfind"}

(* The operation each method asks for, and how it is answered.             *)
LEMMA Operations ==
  ASSUME NEW j
  PROVE  /\ j.method = "put" => /\ OkOf(j) = 201
                                /\ j.digest = None => OpOf(j) = "create"
                                /\ j.digest # None => OpOf(j) = "replace"
         /\ j.method = "delete" => /\ OkOf(j) = 204
                                   /\ j.digest = None => OpOf(j) = "delete"
                                   /\ j.digest # None => OpOf(j) = "deleteif"
         /\ j.method = "propfind" => OpOf(j) = "list" /\ OkOf(j) = 207
         /\ j.method = "delcoln" => OpOf(j) = "remove" /\ OkOf(j) = 204
         /\ j.method = "json_delcoln" => OpOf(j) = "remove" /\ OkOf(j) = 200
BY DEF OpOf, OkOf

(* What each operation requires, and what it leaves.                       *)
LEMMA Conditions ==
  ASSUME NEW a
  PROVE  /\ a.op = "create" => (Atomic!Holds(a) <=> /\ db.coln[a.id] # None /\ a.id \in Ids
                                                     /\ db.res[a.id][a.name] = None)
         /\ a.op \in {"replace", "deleteif"} =>
              (Atomic!Holds(a) <=> /\ db.res[a.id][a.name] # None
                                   /\ db.res[a.id][a.name].etag = a.digest)
         /\ a.op \in {"delete", "remove", "list"} => Atomic!Holds(a)
BY DEF Atomic!Holds

LEMMA Effects ==
  ASSUME NEW a
  PROVE  /\ a.op \in {"create", "replace"} =>
              Atomic!After(a) = [db.res EXCEPT ![a.id][a.name] = a.row]
         /\ a.op \in {"delete", "deleteif"} =>
              Atomic!After(a) = [db.res EXCEPT ![a.id][a.name] = None]
         /\ a.op = "remove" =>
              Atomic!After(a) = [db.res EXCEPT ![a.id] = [n \in Names |-> None]]
         /\ a.op = "list" => Atomic!After(a) = db.res
BY DEF Atomic!After

(* A call is one, and not None.                                            *)
LEMMA AskedType ==
  ASSUME NEW j \in Job, NEW g \in Snapshot, j.method \in Writing
  PROVE  Asked(j, g) \in Atomic!Call
<1>1. OpOf(j) \in Atomic!Ops /\ OkOf(j) \in Nat
  <2>1. OpOf(j) \in {"create", "replace", "delete", "deleteif", "list", "remove"}
    BY Operations DEF Writing
  <2>2. OkOf(j) \in {200, 201, 204, 207}
    BY Operations DEF Writing
  <2>3. QED
    BY <2>1, <2>2 DEF Atomic!Ops
<1>2. j.name \in Names \cup {None} /\ j.digest \in Nat \cup {None} /\ g.id \in Ids
  BY DEF Job, Snapshot
<1>3. [etag |-> j.etag, data |-> j.body] \in Atomic!Res
  BY DEF Job, Atomic!Res
<1>4. QED
  BY <1>1, <1>2, <1>3 DEF Asked, Atomic!Call

LEMMA CallType ==
  ASSUME TInv, NEW c \in Clients, Calling(c)
  PROVE  CallOf(c) \in Atomic!Call /\ CallOf(c) # None
<1>1. job[c] \in Job /\ cfg[c] \in Snapshot /\ job[c].method \in Writing
  BY JobFacts DEF Calling, Writing, TInv
<1>2. CallOf(c) \in Atomic!Call
  BY <1>1, AskedType DEF CallOf
<1>3. QED
  BY <1>2, RefinementAssumption

LEMMA Bars ==
  ASSUME NEW c \in Clients
  PROVE  /\ Calling(c) => callBar[c] = CallOf(c)
         /\ ~Calling(c) => callBar[c] = None
         /\ Unbumped(c) => phaseBar[c] = "done"
         /\ ~Unbumped(c) => phaseBar[c] = "pending"
BY DEF callBar, phaseBar

LEMMA BarsNext ==
  ASSUME NEW c \in Clients
  PROVE  /\ Calling(c)' => callBar'[c] = CallOf(c)'
         /\ ~Calling(c)' => callBar'[c] = None
         /\ Unbumped(c)' => phaseBar'[c] = "done"
         /\ ~Unbumped(c)' => phaseBar'[c] = "pending"
BY DEF callBar, phaseBar

(* Only the call of the one who steps changes, and its phase.              *)
LEMMA BarsMove ==
  ASSUME NEW c \in Clients, Only(c)
  PROVE  /\ callBar' = [callBar EXCEPT ![c] = callBar'[c]]
         /\ phaseBar' = [phaseBar EXCEPT ![c] = phaseBar'[c]]
<1>1. \A b \in Clients \ {c} : callBar'[b] = callBar[b] /\ phaseBar'[b] = phaseBar[b]
  BY DEF Only, callBar, phaseBar, Calling, CallOf, Unbumped
<1>2. QED
  BY <1>1 DEF callBar, phaseBar

(* No collection comes or goes.                                            *)
SameColns == /\ \A k \in Ids : db'.coln[k] = None <=> db.coln[k] = None
             /\ db'.next = db.next

(* The atomic store does not move.                                         *)
LEMMA AtomicStutter ==
  ASSUME NEW c \in Clients, Only(c), db'.res = db.res, SameColns,
         callBar'[c] = callBar[c], phaseBar'[c] = phaseBar[c],
         code' = code, known' = known
  PROVE  UNCHANGED Atomic!avars
<1>1. callBar' = callBar /\ phaseBar' = phaseBar
  <2>1. callBar = [callBar EXCEPT ![c] = callBar[c]]
    BY DEF callBar
  <2>2. phaseBar = [phaseBar EXCEPT ![c] = phaseBar[c]]
    BY DEF phaseBar
  <2>3. QED
    BY <2>1, <2>2, BarsMove
<1>2. seenBar' = seenBar
  BY DEF seenBar
<1>3. QED
  BY <1>1, <1>2 DEF SameColns, Atomic!avars

LEMMA AtomicOther ==
  ASSUME NEW c \in Clients, Only(c), db'.res = db.res, SameColns,
         ~Calling(c), ~Calling(c)', ~Unbumped(c), ~Unbumped(c)',
         code'[c] \in Nat \ {201}, code' = [code EXCEPT ![c] = code'[c]], known' = known
  PROVE  Atomic!Other(c)
<1>1. callBar' = callBar /\ phaseBar' = phaseBar /\ callBar[c] = None
  <2>1. callBar = [callBar EXCEPT ![c] = None] /\ callBar[c] = None
    BY DEF callBar
  <2>2. phaseBar = [phaseBar EXCEPT ![c] = "pending"]
    BY DEF phaseBar
  <2>3. QED
    BY <2>1, <2>2, BarsMove, BarsNext
<1>2. seenBar' = seenBar
  BY DEF seenBar
<1>3. {k \in Ids : db.coln[k] # None}' = {k \in Ids : db.coln[k] # None}
  BY DEF SameColns
<1>4. QED
  BY <1>1, <1>2, <1>3 DEF SameColns, Atomic!Other

(* The answer of a request that failed.                                    *)
Answered(c, status) == code' = [code EXCEPT ![c] = status]

LEMMA AtomicFail ==
  ASSUME NEW c \in Clients, Only(c), TInv, db'.res = db.res, SameColns,
         Calling(c), ~Calling(c)', ~Unbumped(c)', known' = known,
         NEW s \in {code[c], 200, 505}, Answered(c, s)
  PROVE  Atomic!Fail(c)
<1>1. callBar[c] # None
  BY CallType, Bars
<1>2. /\ callBar' = [callBar EXCEPT ![c] = None]
      /\ phaseBar' = [phaseBar EXCEPT ![c] = "pending"]
  BY BarsMove, BarsNext
<1>3. seenBar' = seenBar
  BY DEF seenBar
<1>4. Atomic!End(c)
  BY <1>2 DEF Atomic!End
<1>5. \E e \in {code[c], 200, 505} : Answered(c, e)
  OBVIOUS
<1>6. {k \in Ids : db.coln[k] # None}' = {k \in Ids : db.coln[k] # None}
  BY DEF SameColns
<1>7. QED
  BY <1>1, <1>3, <1>4, <1>5, <1>6 DEF SameColns, Atomic!Fail, Answered

LEMMA AtomicAsk ==
  ASSUME NEW c \in Clients, Only(c), db' = db, ~Calling(c), Calling(c)', TInv',
         ~Unbumped(c), ~Unbumped(c)', code' = code, known' = known
  PROVE  Atomic!Ask(c)
<1>1. callBar[c] = None /\ phaseBar[c] = "pending" /\ phaseBar'[c] = "pending"
  BY Bars, BarsNext
<1>2. callBar'[c] \in Atomic!Call
  <2>1. CallOf(c)' \in Atomic!Call
    <3>1. job'[c] \in Job /\ cfg'[c] \in Snapshot /\ job'[c].method \in Writing
      BY DEF Calling, Writing, TInv, ProcType, JobOK, JobAt
    <3>2. Asked(job'[c], cfg'[c]) \in Atomic!Call
      BY <3>1, AskedType
    <3>3. QED
      BY <3>2 DEF CallOf
  <2>2. QED
    BY <2>1, BarsNext
<1>3. callBar' = [callBar EXCEPT ![c] = callBar'[c]] /\ phaseBar' = phaseBar
  <2>1. phaseBar = [phaseBar EXCEPT ![c] = "pending"]
    BY <1>1 DEF phaseBar
  <2>2. QED
    BY <1>1, <2>1, BarsMove
<1>4. seenBar' = seenBar
  BY DEF seenBar
<1>5. QED
  BY <1>1, <1>2, <1>3, <1>4 DEF Atomic!Ask

(* A function that differs from another in one place.                      *)
LEMMA Patched ==
  ASSUME NEW S, NEW c \in S, NEW f, NEW g, f = [b \in S |-> f[b]],
         g = [b \in S |-> g[b]], \A b \in S \ {c} : g[b] = f[b]
  PROVE  g = [f EXCEPT ![c] = g[c]]
OBVIOUS

(* A step that answers c's call, and what such a step does to the store.   *)
EndsCall(c) == Only(c) /\ Calling(c) /\ ~Unbumped(c) /\ ~Calling(c)' /\ ~Unbumped(c)'

Outcome(c, a) ==
    /\ a = CallOf(c) /\ db'.next = db.next
    /\ db'.res = IF Atomic!Holds(a) THEN Atomic!After(a) ELSE db.res
    /\ \A k \in Ids : db'.coln[k] = None
          <=> db.coln[k] = None \/ (a.op = "remove" /\ k = a.id)
    /\ seenBar' = IF a.op = "list"
                  THEN [seenBar EXCEPT ![c] = [id |-> a.id, list |-> db.res[a.id]]]
                  ELSE seenBar
    /\ code' = [code EXCEPT ![c] = IF Atomic!Holds(a) THEN a.ok ELSE a.no]

(* The instant of a call that also answers.                                *)
LEMMA AtomicEffectAndReturn ==
  ASSUME NEW c \in Clients, TInv, EndsCall(c), NEW a, Outcome(c, a)
  PROVE  Atomic!EffectAndReturn(c)
<1> USE DEF EndsCall, Outcome
<1>1. callBar[c] = a /\ a # None /\ phaseBar[c] = "pending"
  BY CallType, Bars
<1>2. /\ callBar' = [callBar EXCEPT ![c] = None]
      /\ phaseBar' = [phaseBar EXCEPT ![c] = "pending"]
  BY BarsMove, BarsNext
<1>4. {k \in Ids : db'.coln[k] # None}
        = IF a.op = "remove" THEN {k \in Ids : db.coln[k] # None} \ {a.id}
                             ELSE {k \in Ids : db.coln[k] # None}
  OBVIOUS
<1>5. Atomic!Holds(a) <=> Atomic!Holds(callBar[c])
  BY <1>1
<1>6. Atomic!After(a) = Atomic!After(callBar[c])
  BY <1>1
<1>7. Atomic!TakesEffect(c, callBar[c])
  BY <1>1, <1>4, <1>5, <1>6 DEF Atomic!TakesEffect
<1>8. Atomic!End(c)
  BY <1>2 DEF Atomic!End
<1>9. QED
  BY <1>1, <1>5, <1>7, <1>8 DEF Atomic!EffectAndReturn

(* The instant of an unconditional write, which answers later.             *)
LEMMA AtomicEffect ==
  ASSUME NEW c \in Clients, Only(c), TInv,
         Calling(c), ~Unbumped(c), Unbumped(c)', job' = job, cfg' = cfg,
         SameColns, Atomic!Holds(CallOf(c)), CallOf(c).op \notin {"remove", "list"},
         db'.res = Atomic!After(CallOf(c)), known' = known, code' = code
  PROVE  Atomic!Effect(c)
<1> DEFINE a == CallOf(c)
<1>1. callBar[c] = a /\ a # None /\ phaseBar[c] = "pending"
  BY CallType, Bars
<1>2. Calling(c)' /\ CallOf(c)' = a
  BY DEF Calling, Unbumped, CallOf
<1>3. callBar'[c] = a /\ phaseBar'[c] = "done"
  BY <1>2, BarsNext
<1>4. callBar' = callBar /\ phaseBar' = [phaseBar EXCEPT ![c] = "done"]
  <2>1. callBar = [callBar EXCEPT ![c] = a]
    BY <1>1 DEF callBar
  <2>2. QED
    BY <1>3, <2>1, BarsMove
<1>5. seenBar' = seenBar
  BY DEF seenBar
<1>6. Atomic!Holds(callBar[c]) /\ db'.res = Atomic!After(callBar[c])
  BY <1>1
<1>7. {k \in Ids : db.coln[k] # None}' = {k \in Ids : db.coln[k] # None}
  BY DEF SameColns
<1>8. Atomic!TakesEffect(c, callBar[c])
  BY <1>1, <1>5, <1>6, <1>7 DEF Atomic!TakesEffect
<1>9. QED
  BY <1>1, <1>4, <1>6, <1>8 DEF SameColns, Atomic!Effect

(* The answer to a call that took effect before.                           *)
LEMMA AtomicReturn ==
  ASSUME NEW c \in Clients, Only(c), TInv, Calling(c), Unbumped(c),
         ~Calling(c)', ~Unbumped(c)', db'.res = db.res, SameColns,
         code' = [code EXCEPT ![c] = CallOf(c).ok], known' = known
  PROVE  Atomic!Return(c)
<1>1. callBar[c] = CallOf(c) /\ callBar[c] # None /\ phaseBar[c] = "done"
  BY CallType, Bars
<1>2. /\ callBar' = [callBar EXCEPT ![c] = None]
      /\ phaseBar' = [phaseBar EXCEPT ![c] = "pending"]
  BY BarsMove, BarsNext
<1>3. seenBar' = seenBar
  BY DEF seenBar
<1>4. QED
  BY <1>1, <1>2, <1>3 DEF SameColns, Atomic!Return, Atomic!End

-----------------------------------------------------------------------------
(* The steps, one by one.  A request that starts asks for nothing yet.      *)
LEMMA SubmitOther ==
  ASSUME TInv, NEW c \in Clients, NEW j, NEW label \in {"load", "exec"},
         Submit(c, j, label), ~Calling(c)'
  PROVE  Atomic!Other(c)
<1>1. /\ UNCHANGED <<db, known>> /\ pc[c] = "idle" /\ Only(c)
      /\ pc'[c] = label /\ code' = [code EXCEPT ![c] = code'[c]] /\ code'[c] = 0
  BY SubmitBegins DEF Submit, Begins, TInv, ProcType
<1>2. ~Calling(c) /\ ~Unbumped(c) /\ ~Unbumped(c)'
  BY <1>1 DEF Calling, Unbumped
<1>3. SameColns /\ db'.res = db.res
  BY <1>1 DEF SameColns
<1>4. QED
  BY <1>1, <1>2, <1>3, AtomicOther

LEMMA StartStep ==
  ASSUME TInv, NEW c \in Clients, Start(c)
  PROVE  Atomic!Other(c)
<1>1. ASSUME NEW j, Submit(c, j, "load")
      PROVE  Atomic!Other(c)
  <2>1. ~Calling(c)'
    BY <1>1 DEF Submit, TInv, ProcType, Calling
  <2>2. QED
    BY <1>1, <2>1, SubmitOther
<1>2. CASE StartNewcoln(c)
  <2>1. PICK u \in Urls :
          Submit(c, [Request("json_newcoln") EXCEPT !.url = u], "exec")
    BY <1>2 DEF StartNewcoln
  <2>2. job'[c].method = "json_newcoln"
    BY <2>1 DEF Submit, TInv, ProcType, Request
  <2>3. ~Calling(c)'
    BY <2>2 DEF Calling
  <2>4. QED
    BY <2>1, <2>3, SubmitOther
<1>3. CASE ~StartNewcoln(c)
  BY <1>1, <1>3
     DEF Start, StartPut, StartDelete, StartDelcoln, StartGet, StartPropfind,
         StartProppatch, StartJsonDelcoln, StartSetcolnprops
<1>4. QED
  BY <1>2, <1>3

(* The store does not change when the row is loaded: the call is asked.    *)
LEMMA LoadStep ==
  ASSUME TInv, TInv', NEW c \in Clients, load(c)
  PROVE  Atomic!ANext \/ UNCHANGED Atomic!avars
<1>1. /\ UNCHANGED <<db, known>> /\ pc[c] = "load" /\ Only(c) /\ job[c] \in Job
      /\ ~Calling(c) /\ ~Unbumped(c)
  BY StepOnly DEF load, store, clients, Serve, Calling, Unbumped, TInv, ProcType,
                  JobOK, JobAt
<1>2. SameColns /\ db'.res = db.res
  BY <1>1 DEF SameColns
<1>3. CASE \E k : Found(c, k)
  <2>1. pc'[c] = "exec" /\ code' = code /\ ~Unbumped(c)'
    BY <1>3 DEF Found, TInv, ProcType, Unbumped
  <2>2. CASE Calling(c)'
    BY <1>1, <2>1, <2>2, AtomicAsk DEF Atomic!ANext
  <2>3. CASE ~Calling(c)'
    <3>1. callBar'[c] = callBar[c] /\ phaseBar'[c] = phaseBar[c]
      BY <1>1, <2>1, <2>3, Bars, BarsNext
    <3>2. QED
      BY <1>1, <1>2, <2>1, <3>1, AtomicStutter
  <2>4. QED
    BY <2>2, <2>3
<1>4. CASE Answer(c, IF job[c].id # None THEN 400 ELSE 404)
  <2>1. /\ ~Calling(c)' /\ ~Unbumped(c)'
        /\ code'[c] \in {400, 404} /\ code' = [code EXCEPT ![c] = code'[c]]
    BY <1>4, AnswerOnly DEF Answer, Calling, Unbumped, TInv, ProcType
  <2>2. Atomic!Other(c)
    BY <1>1, <1>2, <2>1, AtomicOther
  <2>3. QED
    BY <2>2 DEF Atomic!ANext
<1>5. QED
  BY <1>3, <1>4 DEF load

LEMMA CallFields ==
  ASSUME NEW c \in Clients
  PROVE  /\ CallOf(c).op = OpOf(job[c]) /\ CallOf(c).id = cfg[c].id
         /\ CallOf(c).name = job[c].name /\ CallOf(c).digest = job[c].digest
         /\ CallOf(c).row = [etag |-> job[c].etag, data |-> job[c].body]
         /\ CallOf(c).ok = OkOf(job[c])
         /\ job[c].method = "put" => CallOf(c).no = 403
         /\ job[c].method # "put" => CallOf(c).no = 204
BY DEF CallOf, Asked

(* An insertion takes effect or violates a constraint.                     *)
LEMMA InsertStep ==
  ASSUME TInv, NEW c \in Clients, db_resource_new(c)
  PROVE  Atomic!Effect(c) \/ Atomic!EffectAndReturn(c)
<1> DEFINE a == CallOf(c)
           k == cfg[c].id
           j == job[c]
<1>1. /\ pc[c] = "exec" /\ j.method = "put" /\ j.digest = None /\ known' = known
      /\ Calling(c) /\ ~Unbumped(c) /\ Only(c)
  BY StepOnly DEF db_resource_new, At, Serve, Calling, Unbumped, clients
<1>2. k \in Ids /\ j.name \in Names /\ j.etag \in Nat /\ j.body \in Nat
  BY <1>1, JobFacts DEF TInv
<1>3. /\ a.op = "create" /\ a.ok = 201 /\ a.no = 403 /\ a.id = k /\ a.name = j.name
      /\ a.row = [etag |-> j.etag, data |-> j.body]
  BY <1>1, CallFields, Operations
<1> HIDE DEF a
<1>4. Atomic!Holds(a) <=> ~InsertViolates(db, k, j.name)
  BY <1>2, <1>3, Conditions DEF InsertViolates
<1>5. CASE InsertViolates(db, k, j.name)
  <2>1. db' = db /\ Answer(c, 403)
    BY <1>5 DEF db_resource_new, store
  <2>2. ~Calling(c)' /\ ~Unbumped(c)' /\ code' = [code EXCEPT ![c] = 403]
    BY <2>1, AnswerOnly DEF Calling, Unbumped, Answer
  <2>3. a = CallOf(c)
    BY DEF a
  <2>4. seenBar' = seenBar
    BY <1>1 DEF seenBar
  <2>5. Atomic!EffectAndReturn(c)
    <3>1. /\ db'.next = db.next /\ a.op \notin {"remove", "list"}
          /\ \A i \in Ids : db'.coln[i] = db.coln[i]
          /\ db'.res = db.res /\ ~ Atomic!Holds(a)
      BY <1>3, <1>4, <1>5, <2>1
    <3>2. /\ \A i \in Ids : db'.coln[i] = None
               <=> db.coln[i] = None \/ (a.op = "remove" /\ i = a.id)
          /\ code' = [code EXCEPT ![c] = IF Atomic!Holds(a) THEN a.ok ELSE a.no]
      BY <1>3, <2>2, <3>1
    <3>3. db'.res = IF Atomic!Holds(a) THEN Atomic!After(a) ELSE db.res
      BY <3>1
    <3>4. seenBar' = IF a.op = "list"
                     THEN [seenBar EXCEPT ![c] = [id |-> a.id, list |-> db.res[a.id]]]
                     ELSE seenBar
      BY <2>4, <3>1
    <3>5. QED
      <4>1. EndsCall(c)
        BY <1>1, <2>2, <2>3, <3>1, <3>2, <3>3, <3>4 DEF EndsCall
      <4>2. Outcome(c, a)
        BY <1>1, <2>2, <2>3, <3>1, <3>2, <3>3, <3>4 DEF Outcome
      <4>3. QED
        BY <4>1, <4>2, AtomicEffectAndReturn
  <2>6. QED
    BY <2>5
<1>6. CASE ~InsertViolates(db, k, j.name)
  <2>1. db' = InsertRes(db, k, j.name, j.etag, j.body) /\ Goto(c, "bump")
    BY <1>6 DEF db_resource_new, Autocommit
  <2>2. /\ Unbumped(c)' /\ job' = job /\ cfg' = cfg /\ code' = code
    BY <1>1, <2>1, GotoOnly DEF Unbumped, Goto
  <2>3. SameColns
    BY <2>1 DEF InsertRes, SameColns, TInv, StoreType, Database
  <2>4. db'.res = Atomic!After(a)
    <3>1. db'.res = [db.res EXCEPT ![k][j.name] = [etag |-> j.etag, data |-> j.body]]
      BY <2>1 DEF InsertRes, TInv, StoreType, Database
    <3>2. Atomic!After(a) = [db.res EXCEPT ![a.id][a.name] = a.row]
      BY <1>3, Effects
    <3>3. QED
      BY <1>3, <3>1, <3>2
  <2>5. Atomic!Effect(c)
    BY <1>1, <1>3, <1>4, <1>6, <2>2, <2>3, <2>4, AtomicEffect DEF a
  <2>6. QED
    BY <2>5
<1>7. QED
  BY <1>5, <1>6

LEMMA RemoveStep ==
  ASSUME TInv, NEW c \in Clients, db_resource_remove(c)
  PROVE  Atomic!Effect(c)
<1> DEFINE a == CallOf(c)
           k == cfg[c].id
           j == job[c]
<1>1. /\ pc[c] = "exec" /\ j.method = "delete" /\ j.digest = None /\ known' = known
      /\ Calling(c) /\ ~Unbumped(c) /\ Only(c)
  BY StepOnly DEF db_resource_remove, At, Serve, Calling, Unbumped, clients
<1>2. k \in Ids /\ j.name \in Names
  BY <1>1, JobFacts DEF TInv
<1>3. a.op = "delete" /\ a.id = k /\ a.name = j.name
  <2>1. OpOf(j) = "delete"
    BY <1>1, Operations
  <2>2. QED
    BY <2>1, CallFields
<1>4. Atomic!Holds(a)
  BY <1>3, Conditions
<1>5. db' = DropRes(db, k, j.name) /\ Goto(c, "bump")
  BY DEF db_resource_remove, Autocommit
<1>6. Unbumped(c)' /\ job' = job /\ cfg' = cfg /\ code' = code
  BY <1>1, <1>5, GotoOnly DEF Unbumped, Goto
<1>7. SameColns
  BY <1>2, <1>5, DropResLemma DEF SameColns, TInv, StoreType
<1>8. db'.res = Atomic!After(a)
  <2>1. db'.res = [db.res EXCEPT ![k][j.name] = None]
    BY <1>5 DEF DropRes, TInv, StoreType, Database
  <2>2. Atomic!After(a) = [db.res EXCEPT ![a.id][a.name] = None]
    BY <1>3, Effects
  <2>3. QED
    BY <1>3, <2>1, <2>2
<1>9. QED
  BY <1>1, <1>3, <1>4, <1>6, <1>7, <1>8, AtomicEffect

(* A step that leaves the store alone and does not answer shows nothing.   *)
LEMMA QuietStep ==
  ASSUME TInv, NEW c \in Clients, Only(c), db' = db, known' = known, code' = code,
         job' = job, cfg' = cfg, Unbumped(c)' <=> Unbumped(c),
         pc[c] \notin {"idle", "load"} <=> pc'[c] \notin {"idle", "load"}
  PROVE  UNCHANGED Atomic!avars
<1>1. callBar'[c] = callBar[c]
  <2>1. (Calling(c)' <=> Calling(c)) /\ CallOf(c)' = CallOf(c)
    BY DEF Calling, CallOf
  <2>2. QED
    BY <2>1, Bars, BarsNext
<1>2. phaseBar'[c] = phaseBar[c]
  BY Bars, BarsNext
<1>3. SameColns /\ db'.res = db.res
  BY DEF SameColns
<1>4. QED
  BY <1>1, <1>2, <1>3, AtomicStutter

LEMMA TransStep ==
  ASSUME TInv, NEW c \in Clients,
         trans_open(c) \/ trans_write(c) \/ trans_update_ctag(c)
  PROVE  UNCHANGED Atomic!avars
<1>1. /\ pc[c] \in {"exec", "write", "wbump"} /\ db' = db /\ known' = known
      /\ pc'[c] \in {"check", "wbump", "commit"} /\ Only(c)
      /\ job' = job /\ cfg' = cfg /\ code' = code
  BY GotoOnly, StepOnly
     DEF trans_open, trans_write, trans_update_ctag, At, Serve, clients, db_trans_open,
         TransWrite, Goto
<1>2. QED
  BY <1>1, QuietStep DEF Unbumped

(* The check of the etag: a call whose condition is false ends there.      *)
LEMMA CheckStep ==
  ASSUME SInv, NEW c \in Clients, trans_check(c)
  PROVE  Atomic!EffectAndReturn(c) \/ UNCHANGED Atomic!avars
<1> DEFINE a == CallOf(c)
           k == cfg[c].id
           j == job[c]
<1>1. /\ pc[c] = "check" /\ known' = known /\ Only(c) /\ wal = db /\ TInv
      /\ ~Unbumped(c)
  BY StepOnly DEF trans_check, Serve, clients, SInv, TransOK, InTransPcs, Unbumped
<1>2. /\ j.method \in {"put", "delete"} /\ j.digest # None /\ Calling(c)
  BY <1>1, CalStoreAssumption DEF TInv, ProcType, JobOK, JobAt, InTransPcs, Calling
<1>3. /\ a.op \in {"replace", "deleteif"} /\ a.id = k /\ a.name = j.name
      /\ a.digest = j.digest /\ a.no = IF j.method = "put" THEN 403 ELSE 204
  <2>1. OpOf(j) \in {"replace", "deleteif"}
    BY <1>2, Operations
  <2>2. QED
    BY <1>2, <2>1 DEF CallOf, Asked
<1> HIDE DEF a
<1>4. Atomic!Holds(a) <=> Matches(c)
  <2>1. Atomic!Holds(a) <=> /\ db.res[a.id][a.name] # None
                            /\ db.res[a.id][a.name].etag = a.digest
    BY <1>3, Conditions
  <2>2. QED
    BY <1>1, <1>3, <2>1 DEF Matches, RowIn
<1>5. CASE Matches(c)
  <2>1. db' = db /\ Goto(c, "write")
    BY <1>5 DEF trans_check, store
  <2>2. pc'[c] = "write" /\ job' = job /\ cfg' = cfg /\ code' = code
    BY <1>1, <2>1, GotoOnly DEF Goto
  <2>3. UNCHANGED Atomic!avars
    BY <1>1, <2>1, <2>2, QuietStep DEF Unbumped
  <2>4. QED
    BY <2>3
<1>6. CASE ~Matches(c)
  <2>1. db' = db /\ Answer(c, a.no)
    BY <1>3, <1>6 DEF trans_check, db_trans_rollback
  <2>2. ~Calling(c)' /\ ~Unbumped(c)' /\ code' = [code EXCEPT ![c] = a.no]
    BY <1>1, <2>1, AnswerOnly DEF Calling, Unbumped, Answer
  <2>3. a = CallOf(c)
    BY DEF a
  <2>4. seenBar' = seenBar
    BY <1>1 DEF seenBar
  <2>5. Atomic!EffectAndReturn(c)
    <3>1. EndsCall(c)
      BY <1>1, <1>2, <1>3, <1>4, <1>6, <2>1, <2>2, <2>3, <2>4 DEF EndsCall
    <3>2. Outcome(c, a)
      BY <1>1, <1>2, <1>3, <1>4, <1>6, <2>1, <2>2, <2>3, <2>4 DEF Outcome
    <3>3. QED
      BY <1>1, <3>1, <3>2, AtomicEffectAndReturn
  <2>6. QED
    BY <2>5
<1>7. QED
  BY <1>5, <1>6

(* The COMMIT: the resource changes, on the condition that was checked.    *)
LEMMA CommitStep ==
  ASSUME SInv, WrittenOK, NEW c \in Clients, trans_commit(c)
  PROVE  Atomic!EffectAndReturn(c)
<1> DEFINE a == CallOf(c)
           k == cfg[c].id
           j == job[c]
<1>1. /\ pc[c] = "commit" /\ known' = known /\ Only(c) /\ TInv /\ ~Unbumped(c)
      /\ db' = wal /\ Answer(c, Success(c))
  BY StepOnly DEF trans_commit, Serve, clients, SInv, Unbumped, db_trans_commit
<1>2. /\ j.method \in {"put", "delete"} /\ j.digest # None /\ Calling(c)
  BY <1>1, CalStoreAssumption DEF TInv, ProcType, JobOK, JobAt, InTransPcs, Calling
<1>3. /\ k \in Ids /\ j.name \in Names
  BY <1>1, <1>2, JobFacts DEF TInv
<1>4. /\ a.op = IF j.method = "put" THEN "replace" ELSE "deleteif"
      /\ a.id = k /\ a.name = j.name
      /\ a.digest = j.digest /\ a.ok = IF j.method = "put" THEN 201 ELSE 204
      /\ a.row = [etag |-> j.etag, data |-> j.body]
  BY <1>2, CallFields, Operations
<1>5. Success(c) = a.ok
  <2>1. Success(c) = IF j.method = "put" THEN 201 ELSE 204
    BY <1>2 DEF Success
  <2>2. QED
    BY <1>4, <2>1
<1> HIDE DEF a
<1>6. Atomic!Holds(a)
  <2>1. Atomic!Holds(a) <=> /\ db.res[a.id][a.name] # None
                            /\ db.res[a.id][a.name].etag = a.digest
    BY <1>4, Conditions
  <2>2. QED
    BY <1>1, <1>4, <2>1 DEF SInv, TransOK, InTransPcs
<1>7. wal.res = [db.res EXCEPT ![k][j.name] = IF j.method = "put" THEN a.row ELSE None]
  <2>1. \A i \in Ids, m \in Names : i # k \/ m # j.name => wal.res[i][m] = db.res[i][m]
    BY <1>1 DEF SInv, TransOK, InTransPcs
  <2>2. wal.res[k][j.name] = IF j.method = "put" THEN a.row ELSE None
    BY <1>1, <1>4 DEF WrittenOK
  <2>3. /\ wal.res \in [Ids -> [Names -> Res \cup {None}]]
        /\ db.res \in [Ids -> [Names -> Res \cup {None}]]
    BY <1>1 DEF TInv, StoreType, Database
  <2> DEFINE v == IF j.method = "put" THEN a.row ELSE None
             R == [db.res EXCEPT ![k][j.name] = v]
  <2>4. \A i \in Ids : i # k => wal.res[i] = R[i]
    BY <1>3, <2>1, <2>3
  <2>5. wal.res[k] = R[k]
    <3>1. R[k] = [db.res[k] EXCEPT ![j.name] = v]
      BY <1>3, <2>3
    <3>2. wal.res[k] \in [Names -> Res \cup {None}] /\ db.res[k] \in [Names -> Res \cup {None}]
      BY <1>3, <2>3
    <3>3. wal.res[k][j.name] = v /\ \A m \in Names \ {j.name} : wal.res[k][m] = db.res[k][m]
      BY <1>3, <2>1, <2>2
    <3> HIDE DEF v
    <3>4. wal.res[k] = [db.res[k] EXCEPT ![j.name] = v]
      BY <1>3, <3>2, <3>3
    <3>5. QED
      BY <3>1, <3>4
  <2>6. QED
    BY <2>3, <2>4, <2>5
<1>8. wal.res = Atomic!After(a)
  <2>1. CASE j.method = "put"
    <3>1. Atomic!After(a) = [db.res EXCEPT ![a.id][a.name] = a.row]
      BY <1>4, <2>1, Effects
    <3>2. QED
      BY <1>4, <1>7, <2>1, <3>1
  <2>2. CASE j.method = "delete"
    <3>1. Atomic!After(a) = [db.res EXCEPT ![a.id][a.name] = None]
      BY <1>4, <2>2, Effects
    <3>2. QED
      BY <1>4, <1>7, <2>2, <3>1
  <2>3. QED
    BY <1>2, <2>1, <2>2
<1>9. wal.next = db.next /\ \A i \in Ids : wal.coln[i] = None <=> db.coln[i] = None
  <2>1. wal.next = db.next /\ wal.coln = BumpCtag(db, k).coln
    BY <1>1 DEF SInv, TransOK, InTransPcs
  <2>2. \A i \in Ids : BumpCtag(db, k).coln[i] = None <=> db.coln[i] = None
    BY <1>1, <1>3, BumpCtagLemma DEF TInv, StoreType
  <2>3. QED
    BY <2>1, <2>2
<1>10. ~Calling(c)' /\ ~Unbumped(c)' /\ code' = [code EXCEPT ![c] = a.ok]
  BY <1>1, <1>5, AnswerOnly DEF Calling, Unbumped, Answer
<1>11. a = CallOf(c) /\ a.op \notin {"remove", "list"}
  BY <1>4 DEF a
<1>12. seenBar' = seenBar
  BY <1>1 DEF seenBar
<1>13. QED
  <2>1. EndsCall(c)
    BY <1>1, <1>2, <1>6, <1>8, <1>9, <1>10, <1>11, <1>12 DEF EndsCall
  <2>2. Outcome(c, a)
    BY <1>1, <1>2, <1>6, <1>8, <1>9, <1>10, <1>11, <1>12 DEF Outcome
  <2>3. QED
    BY <1>1, <2>1, <2>2, AtomicEffectAndReturn

(* A collection goes, with all that is in it, in one step.                 *)
LEMMA DropStep ==
  ASSUME TInv, NEW c \in Clients, db_collection_remove(c)
  PROVE  Atomic!EffectAndReturn(c)
<1> DEFINE a == CallOf(c)
           k == cfg[c].id
           j == job[c]
<1>1. /\ pc[c] = "exec" /\ j.method \in {"delcoln", "json_delcoln"} /\ known' = known
      /\ db' = DropColn(db, k) /\ Calling(c) /\ ~Unbumped(c) /\ Only(c)
      /\ Answer(c, IF j.method = "delcoln" THEN 204 ELSE 200)
  BY StepOnly
     DEF db_collection_remove, At, Serve, Calling, Unbumped, clients, Autocommit
<1>2. k \in Ids
  BY <1>1, JobFacts DEF TInv
<1>3. a.op = "remove" /\ a.id = k /\ a.ok = IF j.method = "delcoln" THEN 204 ELSE 200
  <2>1. OpOf(j) = "remove" /\ OkOf(j) = IF j.method = "delcoln" THEN 204 ELSE 200
    BY <1>1, Operations
  <2>2. QED
    BY <2>1 DEF CallOf, Asked
<1> HIDE DEF a
<1>4. Atomic!Holds(a)
  BY <1>3, Conditions
<1>5. db'.res = Atomic!After(a)
  <2>1. db'.res = [db.res EXCEPT ![k] = [n \in Names |-> None]]
    BY <1>1 DEF DropColn, TInv, StoreType, Database
  <2>2. Atomic!After(a) = [db.res EXCEPT ![a.id] = [n \in Names |-> None]]
    BY <1>3, Effects
  <2>3. QED
    BY <1>3, <2>1, <2>2
<1>6. /\ db'.next = db.next
      /\ \A i \in Ids : db'.coln[i] = None
           <=> db.coln[i] = None \/ (a.op = "remove" /\ i = a.id)
  BY <1>1, <1>2, <1>3 DEF DropColn, TInv, StoreType, Database
<1>7. ~Calling(c)' /\ ~Unbumped(c)' /\ code' = [code EXCEPT ![c] = a.ok]
  <2>1. Answer(c, a.ok)
    BY <1>1, <1>3
  <2>2. pc'[c] = "idle"
    BY <1>1, AnswerOnly
  <2>3. QED
    BY <2>1, <2>2 DEF Calling, Unbumped, Answer
<1>8. a = CallOf(c) /\ a.op # "list"
  BY <1>3 DEF a
<1>9. seenBar' = seenBar
  BY <1>1 DEF seenBar
<1>10. QED
  <2>1. EndsCall(c)
    BY <1>1, <1>4, <1>5, <1>6, <1>7, <1>8, <1>9 DEF EndsCall
  <2>2. Outcome(c, a)
    BY <1>1, <1>4, <1>5, <1>6, <1>7, <1>8, <1>9 DEF Outcome
  <2>3. QED
    BY <2>1, <2>2, AtomicEffectAndReturn

(* A listing shows the contents of one instant.                            *)
LEMMA ListStep ==
  ASSUME TInv, NEW c \in Clients, method_propfind(c)
  PROVE  Atomic!EffectAndReturn(c)
<1> DEFINE a == CallOf(c)
           k == cfg[c].id
           s == [id |-> k, ctag |-> cfg[c].ctag, whole |-> TRUE, list |-> db.res[k]]
<1>1. /\ pc[c] = "exec" /\ job[c].method = "propfind" /\ db' = db
      /\ known' = [known EXCEPT ![c] = s] /\ Answer(c, 207)
      /\ Calling(c) /\ ~Unbumped(c) /\ Only(c)
  BY StepOnly DEF method_propfind, At, Serve, Calling, Unbumped, store
<1>2. cfg[c] \in Snapshot /\ k \in Ids
  BY <1>1, JobFacts DEF TInv
<1>3. a.op = "list" /\ a.id = k /\ a.ok = 207
  <2>1. OpOf(job[c]) = "list" /\ OkOf(job[c]) = 207
    BY <1>1, Operations
  <2>2. QED
    BY <2>1 DEF CallOf, Asked
<1> HIDE DEF a
<1>4. Atomic!Holds(a) /\ Atomic!After(a) = db.res
  BY <1>3, Conditions, Effects
<1>5. seenBar' = [seenBar EXCEPT ![c] = [id |-> a.id, list |-> db.res[a.id]]]
  <2>1. s \in Listing
    BY <1>2 DEF Listing, Snapshot, TInv, StoreType, Database
  <2>2. s # None /\ known'[c] = s /\ s.id = k /\ s.list = db.res[k]
    BY <1>1, <2>1, CalStoreAssumption DEF TInv, RestType
  <2> HIDE DEF s
  <2>3. seenBar'[c] = [id |-> k, list |-> db.res[k]]
    BY <2>2 DEF seenBar
  <2>4. \A b \in Clients \ {c} : seenBar'[b] = seenBar[b]
    BY <1>1 DEF seenBar, TInv, RestType
  <2>5. seenBar' = [seenBar EXCEPT ![c] = seenBar'[c]]
    <3>1. seenBar = [b \in Clients |-> seenBar[b]]
      BY DEF seenBar
    <3>2. seenBar' = [b \in Clients |-> seenBar'[b]]
      BY DEF seenBar
    <3>3. QED
      BY <2>4, <3>1, <3>2, Patched
  <2>6. QED
    BY <1>3, <2>3, <2>5
<1>6. ~Calling(c)' /\ ~Unbumped(c)' /\ code' = [code EXCEPT ![c] = a.ok]
  BY <1>1, <1>3, AnswerOnly DEF Calling, Unbumped, Answer
<1>7. a = CallOf(c)
  BY DEF a
<1>8. QED
  <2>1. EndsCall(c)
    BY <1>1, <1>3, <1>4, <1>5, <1>6, <1>7 DEF EndsCall
  <2>2. Outcome(c, a)
    BY <1>1, <1>3, <1>4, <1>5, <1>6, <1>7 DEF Outcome
  <2>3. QED
    BY <2>1, <2>2, AtomicEffectAndReturn

(* The answer to an unconditional write, once the ctag is written.         *)
LEMMA BumpStep ==
  ASSUME TInv, NEW c \in Clients, db_collection_update_ctag(c)
  PROVE  Atomic!Return(c) \/ UNCHANGED Atomic!avars
<1> DEFINE k == cfg[c].id
           j == job[c]
<1>1. /\ pc[c] = "bump" /\ known' = known /\ db' = BumpCtag(db, k) /\ Only(c)
      /\ Answer(c, Success(c))
  BY StepOnly DEF db_collection_update_ctag, Serve, clients, Autocommit
<1>2. j.method \in PropMethods \cup {"put", "delete"}
  BY <1>1 DEF TInv, ProcType, JobOK, JobAt
<1>3. k \in Ids
  BY <1>1, <1>2, JobFacts DEF TInv, PropMethods
<1>4. SameColns /\ db'.res = db.res
  <2>1. /\ BumpCtag(db, k).res = db.res /\ BumpCtag(db, k).next = db.next
        /\ \A i \in Ids : BumpCtag(db, k).coln[i] = None <=> db.coln[i] = None
    BY <1>3, BumpCtagLemma DEF TInv, StoreType
  <2>2. QED
    BY <1>1, <2>1 DEF SameColns
<1>5. ~Calling(c)' /\ ~Unbumped(c)' /\ code' = [code EXCEPT ![c] = Success(c)]
  BY <1>1, AnswerOnly DEF Calling, Unbumped, Answer
<1>6. CASE j.method \in {"put", "delete"}
  <2>1. Calling(c) /\ Unbumped(c)
    BY <1>1, <1>6 DEF Calling, Unbumped
  <2>2. Success(c) = IF j.method = "put" THEN 201 ELSE 204
    BY <1>6 DEF Success
  <2>3. CallOf(c).ok = Success(c)
    <3>1. OkOf(j) = IF j.method = "put" THEN 201 ELSE 204
      BY <1>6, Operations
    <3>2. QED
      BY <2>2, <3>1 DEF CallOf, Asked
  <2>4. Atomic!Return(c)
    BY <1>1, <1>4, <1>5, <2>1, <2>3, AtomicReturn
  <2>5. QED
    BY <2>4
<1>7. CASE j.method \in PropMethods
  <2>1. ~Calling(c) /\ ~Unbumped(c)
    BY <1>7 DEF Calling, Unbumped, PropMethods
  <2>2. code' = code
    <3>1. Success(c) = code[c]
      BY <1>7 DEF Success, PropMethods
    <3>2. QED
      BY <1>5, <3>1 DEF TInv, ProcType
  <2>3. callBar'[c] = callBar[c] /\ phaseBar'[c] = phaseBar[c]
    BY <1>5, <2>1, Bars, BarsNext
  <2>4. UNCHANGED Atomic!avars
    BY <1>1, <1>4, <2>2, <2>3, AtomicStutter
  <2>5. QED
    BY <2>4
<1>8. QED
  BY <1>2, <1>6, <1>7

(* A new collection is one that never was.                                 *)
LEMMA NewStep ==
  ASSUME TInv, NEW c \in Clients, db_collection_new(c)
  PROVE  Atomic!Create(c) \/ Atomic!Other(c)
<1> DEFINE u == job[c].url
           used == 1 .. (db.next - 1)
           open == {k \in Ids : db.coln[k] # None}
<1>1. /\ pc[c] = "exec" /\ job[c].method = "json_newcoln" /\ known' = known
      /\ ~Calling(c) /\ ~Unbumped(c) /\ Only(c) /\ u \in Urls
  BY StepOnly DEF db_collection_new, At, Serve, Calling, Unbumped, clients, TInv,
                  ProcType, JobOK, JobAt, IdMethods
<1>2. CASE db.next <= MaxColn /\ db' = NewColn(db, u) /\ Answer(c, 200)
  <2>1. db \in Database /\ db.next \in Ids
    BY <1>2, CalStoreAssumption DEF Ids, TInv, StoreType, Database
  <2>2. /\ NewColn(db, u).res = db.res /\ NewColn(db, u).next = db.next + 1
        /\ NewColn(db, u).coln[db.next] # None
        /\ \A i \in Ids : i # db.next => NewColn(db, u).coln[i] = db.coln[i]
    BY <1>1, <2>1, NewColnLemma
  <2>3. ~Calling(c)' /\ ~Unbumped(c)' /\ code' = [code EXCEPT ![c] = 200]
    BY <1>2, AnswerOnly DEF Calling, Unbumped, Answer
  <2>4. callBar[c] = None /\ callBar' = callBar /\ phaseBar' = phaseBar
    <3>1. callBar = [callBar EXCEPT ![c] = None] /\ callBar[c] = None
      BY <1>1 DEF callBar
    <3>2. phaseBar = [phaseBar EXCEPT ![c] = "pending"]
      BY <1>1 DEF phaseBar
    <3>3. QED
      BY <1>1, <2>3, <3>1, <3>2, BarsMove, BarsNext
  <2>5. seenBar' = seenBar
    BY <1>1 DEF seenBar
  <2>6. used' = used \cup {db.next} /\ db.next \in Ids \ used
    <3>1. db.next \in Nat \ {0} /\ db'.next = db.next + 1
      BY <1>2, <2>1, <2>2 DEF Database
    <3>2. 1 .. (db'.next - 1) = (1 .. (db.next - 1)) \cup {db.next}
      BY <3>1
    <3>3. db.next \in Ids \ used
      BY <2>1, <3>1
    <3>4. QED
      BY <3>2, <3>3
  <2>7. open' = open \cup {db.next}
    BY <1>2, <2>1, <2>2
  <2>8. Atomic!Create(c)
    <3>1. \E k \in Ids \ used : open' = open \cup {k} /\ used' = used \cup {k}
      BY <2>6, <2>7
    <3>2. db'.res = db.res
      BY <1>2, <2>2
    <3>3. QED
      BY <2>3, <2>4, <2>5, <3>1, <3>2 DEF Atomic!Create
  <2>9. QED
    BY <2>8
<1>3. CASE db' = db /\ Answer(c, 400)
  <2>1. /\ ~Calling(c)' /\ ~Unbumped(c)'
        /\ code'[c] = 400 /\ code' = [code EXCEPT ![c] = code'[c]]
    BY <1>3, AnswerOnly DEF Calling, Unbumped, Answer, TInv, ProcType
  <2>2. SameColns /\ db'.res = db.res
    BY <1>3 DEF SameColns
  <2>3. Atomic!Other(c)
    BY <1>1, <2>1, <2>2, AtomicOther
  <2>4. QED
    BY <2>3
<1>4. QED
  BY <1>2, <1>3 DEF db_collection_new, Autocommit, store

(* A GET, and the answer to a change of properties.                        *)
LEMMA GetStep ==
  ASSUME TInv, NEW c \in Clients, method_get(c)
  PROVE  Atomic!Other(c)
<1>1. /\ pc[c] = "exec" /\ job[c].method = "get" /\ known' = known /\ db' = db
      /\ ~Calling(c) /\ ~Unbumped(c) /\ Only(c)
      /\ \E s \in {200, 304, 404} : Answer(c, s)
  <2>1. Only(c)
    BY StepOnly DEF Serve
  <2>2. pc[c] = "exec" /\ job[c].method = "get" /\ known' = known /\ db' = db
    BY DEF method_get, At, store
  <2>3. Answer(c, 200) \/ Answer(c, 304) \/ Answer(c, 404)
    BY DEF method_get
  <2>4. \E s \in {200, 304, 404} : Answer(c, s)
    BY <2>3
  <2>5. QED
    BY <2>1, <2>2, <2>4 DEF Calling, Unbumped
<1>2. /\ ~Calling(c)' /\ ~Unbumped(c)'
      /\ code'[c] \in {200, 304, 404} /\ code' = [code EXCEPT ![c] = code'[c]]
  BY <1>1, AnswerOnly DEF Calling, Unbumped, Answer, TInv, ProcType
<1>3. SameColns /\ db'.res = db.res
  BY <1>1 DEF SameColns
<1>4. QED
  BY <1>1, <1>2, <1>3, AtomicOther

LEMMA PropReplyStep ==
  ASSUME TInv, NEW c \in Clients, prop_reply(c)
  PROVE  Atomic!Other(c)
<1>1. /\ pc[c] = "exec" /\ job[c].method \in PropMethods /\ known' = known /\ db' = db
      /\ ~Calling(c) /\ ~Unbumped(c) /\ Only(c)
  BY StepOnly DEF prop_reply, At, Serve, Calling, Unbumped, store, clients, PropMethods
<1>2. /\ ~Calling(c)' /\ ~Unbumped(c)'
      /\ code'[c] \in {200, 207} /\ code' = [code EXCEPT ![c] = code'[c]]
  <2>1. CASE Answer(c, 207)
    BY <2>1, AnswerOnly DEF Calling, Unbumped, Answer, TInv, ProcType
  <2>2. CASE /\ pc' = [pc EXCEPT ![c] = "update"] /\ job' = job
             /\ code' = [code EXCEPT ![c] =
                           IF job[c].method = "proppatch" THEN 207 ELSE 200]
    <3>1. code'[c] \in {200, 207} /\ code' = [code EXCEPT ![c] = code'[c]]
      BY <2>2 DEF TInv, ProcType
    <3>2. QED
      BY <1>1, <2>2, <3>1 DEF Calling, Unbumped, PropMethods
  <2>3. QED
    BY <2>1, <2>2 DEF prop_reply
<1>3. SameColns /\ db'.res = db.res
  BY <1>1 DEF SameColns
<1>4. QED
  BY <1>1, <1>2, <1>3, AtomicOther

LEMMA UpdateStep ==
  ASSUME TInv, NEW c \in Clients, db_collection_update(c)
  PROVE  UNCHANGED Atomic!avars
<1>1. /\ pc[c] = "update" /\ job[c].method \in PropMethods /\ known' = known
      /\ db' = SetProps(db, cfg[c].id, Merged(c)) /\ Goto(c, "bump") /\ Only(c)
      /\ ~Calling(c) /\ ~Unbumped(c)
  BY StepOnly DEF db_collection_update, At, Serve, clients, Autocommit, PropMethods,
                  Calling, Unbumped
<1>2. /\ pc'[c] = "bump" /\ job' = job /\ code' = code
      /\ ~Calling(c)' /\ ~Unbumped(c)'
  BY <1>1, GotoOnly DEF Goto, Calling, Unbumped, PropMethods
<1>3. cfg[c].id \in Ids /\ Merged(c) \in Props
  BY <1>1, JobFacts, MergedType DEF TInv, PropMethods
<1>4. SameColns /\ db'.res = db.res
  <2> DEFINE D == SetProps(db, cfg[c].id, Merged(c))
  <2>1. /\ D.res = db.res /\ D.next = db.next
        /\ \A i \in Ids : D.coln[i] = None <=> db.coln[i] = None
    BY <1>3, SetPropsLemma DEF TInv, StoreType
  <2>2. QED
    BY <1>1, <2>1 DEF SameColns
<1>5. callBar'[c] = callBar[c] /\ phaseBar'[c] = phaseBar[c]
  BY <1>1, <1>2, Bars, BarsNext
<1>6. QED
  BY <1>1, <1>2, <1>4, <1>5, AtomicStutter

(* A process that dies, or whose statement fails.                          *)
LEMMA BreakStep ==
  ASSUME SInv, NEW c \in Clients, Crash(c) \/ StatementFails(c)
  PROVE  Atomic!ANext \/ UNCHANGED Atomic!avars
<1>1. /\ pc[c] # "idle" /\ known' = known /\ Only(c) /\ TInv /\ Abandon(c)
      /\ Answer(c, code[c]) \/ Answer(c, FailCode(c))
  BY StepOnly DEF Crash, StatementFails, Break, clients, SInv
<1>2. SameColns /\ db'.res = db.res
  BY <1>1 DEF SameColns, Abandon, db_trans_rollback, store
<1>3. FailCode(c) \in {code[c], 200, 500, 505} /\ (code[c] # 0 => FailCode(c) = code[c])
  BY DEF FailCode
<1>4. /\ ~Calling(c)' /\ ~Unbumped(c)'
      /\ code'[c] \in {code[c], FailCode(c)} /\ code' = [code EXCEPT ![c] = code'[c]]
  BY <1>1, AnswerOnly DEF Calling, Unbumped, Answer, TInv, ProcType
<1>5. CASE Calling(c)
  <2>1. FailCode(c) # 500 \/ code[c] = 500
    <3>1. job[c].method = "json_delcoln" => pc[c] = "exec"
      BY <1>1, <1>5 DEF Calling, TInv, ProcType, JobOK, JobAt, Pcs, InTransPcs, PropMethods
    <3>2. QED
      BY <1>5, <3>1 DEF FailCode, Calling
  <2>2. code'[c] \in {code[c], 200, 505}
    BY <1>3, <1>4, <2>1
  <2>3. Answered(c, code'[c])
    BY <1>4 DEF Answered
  <2>4. Atomic!Fail(c)
    <3> DEFINE s == code'[c]
    <3>1. s \in {code[c], 200, 505} /\ Answered(c, s)
      BY <2>2, <2>3
    <3>2. Only(c) /\ TInv /\ known' = known /\ ~Calling(c)' /\ ~Unbumped(c)'
      BY <1>1, <1>4
    <3> HIDE DEF s
    <3>3. QED
      BY <1>2, <1>5, <3>1, <3>2, AtomicFail
  <2>5. QED
    BY <2>4 DEF Atomic!ANext
<1>6. CASE ~Calling(c)
  <2>1. ~Unbumped(c)
    BY <1>6 DEF Calling, Unbumped
  <2>2. CASE code'[c] = code[c]
    <3>1. code' = code
      BY <1>4, <2>2 DEF TInv, ProcType, SInv
    <3>2. callBar'[c] = callBar[c] /\ phaseBar'[c] = phaseBar[c]
      BY <1>4, <1>6, <2>1, Bars, BarsNext
    <3>3. QED
      BY <1>1, <1>2, <3>1, <3>2, AtomicStutter
  <2>3. CASE code'[c] # code[c]
    <3>1. code'[c] \in {200, 500, 505}
      BY <1>3, <1>4, <2>3
    <3>2. Atomic!Other(c)
      BY <1>1, <1>2, <1>4, <1>6, <2>1, <3>1, AtomicOther
    <3>3. QED
      BY <3>2 DEF Atomic!ANext
  <2>4. QED
    BY <2>2, <2>3
<1>7. QED
  BY <1>5, <1>6

LEMMA InitMaps == Init => Atomic!AInit
<1> SUFFICES ASSUME Init
             PROVE  Atomic!AInit
  OBVIOUS
<1>1. PICK u \in Urls : db = NewColn(NoColns, u)
  BY DEF Init
<1>2. 1 \in Ids
  BY CalStoreAssumption DEF Ids
<1>3. NoColns \in Database /\ NoColns.next = 1
  BY DEF NoColns, Database
<1>4. /\ db.res = NoColns.res /\ db.next = 2 /\ db.coln[1] # None
      /\ \A i \in Ids : i # 1 => db.coln[i] = None
  <2>1. /\ db.res = NoColns.res /\ db.next = NoColns.next + 1
        /\ db.coln[NoColns.next] # None
        /\ \A i \in Ids : i # NoColns.next => db.coln[i] = NoColns.coln[i]
    BY <1>1, <1>2, <1>3, NewColnLemma
  <2>2. QED
    BY <1>2, <1>3, <2>1 DEF NoColns
<1>5. db.res = [k \in Ids |-> [n \in Names |-> None]]
  BY <1>4 DEF NoColns
<1>6. {k \in Ids : db.coln[k] # None} = {1} /\ 1 .. (db.next - 1) = {1}
  BY <1>2, <1>4
<1>7. callBar = [c \in Clients |-> None] /\ phaseBar = [c \in Clients |-> "pending"]
  BY DEF Init, callBar, phaseBar, Calling, Unbumped
<1>8. seenBar = [c \in Clients |-> None]
  BY DEF Init, seenBar
<1>9. QED
  BY <1>2, <1>5, <1>6, <1>7, <1>8 DEF Init, Atomic!AInit

LEMMA StepMaps ==
  ASSUME FaultKinds \subseteq {"crash", "statement"}, IInv, TInv', [Next]_vars
  PROVE  [Atomic!ANext]_(Atomic!avars)
<1>1. SInv /\ TInv /\ WrittenOK
  BY SInvIsIInv DEF SInv
<1>2. CASE UNCHANGED vars
  BY <1>2 DEF vars, Atomic!avars, callBar, phaseBar, seenBar, Calling, Unbumped, CallOf
<1>3. ASSUME NEW c \in Clients, Start(c)
      PROVE  Atomic!ANext
  BY <1>1, <1>3, StartStep DEF Atomic!ANext
<1>4. ASSUME NEW c \in Clients, Serve(c)
      PROVE  Atomic!ANext \/ UNCHANGED Atomic!avars
  <2>1. CASE load(c)
    BY <1>1, <2>1, LoadStep
  <2>2. CASE db_resource_new(c) \/ db_resource_remove(c)
    BY <1>1, <2>2, InsertStep, RemoveStep DEF Atomic!ANext
  <2>3. CASE \/ trans_open(c) \/ trans_check(c) \/ trans_write(c)
             \/ trans_update_ctag(c) \/ trans_commit(c)
    BY <1>1, <2>3, TransStep, CheckStep, CommitStep DEF Atomic!ANext
  <2>4. CASE db_collection_remove(c) \/ db_collection_new(c)
    BY <1>1, <2>4, DropStep, NewStep DEF Atomic!ANext
  <2>5. CASE method_get(c) \/ method_propfind(c)
    BY <1>1, <2>5, GetStep, ListStep DEF Atomic!ANext
  <2>6. CASE prop_reply(c) \/ db_collection_update(c) \/ db_collection_update_ctag(c)
    BY <1>1, <2>6, PropReplyStep, UpdateStep, BumpStep DEF Atomic!ANext
  <2>7. QED
    BY <1>4, <2>1, <2>2, <2>3, <2>4, <2>5, <2>6 DEF Serve
<1>5. ASSUME NEW c \in Clients, Break(c)
      PROVE  Atomic!ANext \/ UNCHANGED Atomic!avars
  <2>1. Crash(c) \/ StatementFails(c)
    BY <1>5 DEF Break, CommitFails, ListingFails, Fault
  <2>2. QED
    BY <1>1, <2>1, BreakStep
<1>6. QED
  BY <1>2, <1>3, <1>4, <1>5 DEF Next

(* Whatever the requests, and however their statements interleave, fail or *)
(* are cut off by the death of a process: every behaviour of the store is  *)
(* one of the atomic store, where each request takes effect in one instant *)
(* between its start and its answer (db.c, kcaldav.c).  The two faults     *)
(* whose results the code does not look at, a COMMIT that fails and a      *)
(* listing cut short, are left out: with them it does not hold.            *)
THEOREM Refines ==
  ASSUME FaultKinds \subseteq {"crash", "statement"}
  PROVE  Spec => ImplementsAtomicStore
<1>1. Init => Atomic!AInit
  BY InitMaps
<1>2. IInv /\ TInv' /\ [Next]_vars => [Atomic!ANext]_(Atomic!avars)
  BY StepMaps
<1>3. IInv => TInv
  BY SInvIsIInv DEF SInv
<1>4. Spec => []IInv
  BY Inductive
<1>5. QED
  BY <1>1, <1>2, <1>3, <1>4, PTL DEF Spec, ImplementsAtomicStore, Atomic!ASpec
=============================================================================
