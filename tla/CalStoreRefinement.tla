------------------------- MODULE CalStoreRefinement -------------------------
(***************************************************************************)
(* CalStore implements AtomicStore: a request is a call from the moment    *)
(* its collection row is loaded; an unconditional write takes effect with  *)
(* its first statement, a conditional one with its COMMIT (or when the     *)
(* check fails), a listing with its SELECT.                                *)
(***************************************************************************)
EXTENDS CalStore

OpOf(j) ==
    CASE j.method = "put"      -> IF j.digest = None THEN "create" ELSE "replace"
      [] j.method = "delete"   -> IF j.digest = None THEN "delete" ELSE "deleteif"
      [] j.method = "propfind" -> "list"
      [] OTHER                 -> "remove"

OkOf(j) == CASE j.method = "put"          -> 201
             [] j.method = "propfind"     -> 207
             [] j.method = "json_delcoln" -> 200
             [] OTHER                     -> 204

Calling(c) == pc[c] \notin {"idle", "load"} /\ job[c].method \in
                 {"put", "delete", "delcoln", "json_delcoln", "propfind"}

Asked(j, g) ==
    [op |-> OpOf(j), id |-> g.id, name |-> j.name, digest |-> j.digest,
     row |-> [etag |-> j.etag, data |-> j.body],
     ok |-> OkOf(j), no |-> IF j.method = "put" THEN 403 ELSE 204]

CallOf(c) == Asked(job[c], cfg[c])

callBar  == [c \in Clients |-> IF Calling(c) THEN CallOf(c) ELSE None]
phaseBar == [c \in Clients |-> IF Unbumped(c) THEN "done" ELSE "pending"]
seenBar  == [c \in Clients |->
               IF known[c] = None THEN None
               ELSE [id |-> known[c].id, list |-> known[c].list]]

Atomic == INSTANCE AtomicStore WITH
    stored <- db.res, open <- {k \in Ids : db.coln[k] # None},
    used <- 1 .. (db.next - 1),
    call <- callBar, phase <- phaseBar, reply <- code, seen <- seenBar

ASSUME RefinementAssumption == None \notin Atomic!Call

(* Every behaviour of the store, requests and faults interleaved in any    *)
(* way, is one of the atomic store (a COMMIT that fails and a listing cut  *)
(* short excepted).                                                        *)
ImplementsAtomicStore == Atomic!ASpec
=============================================================================
