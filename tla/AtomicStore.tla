---------------------------- MODULE AtomicStore ----------------------------
(***************************************************************************)
(* What the calendar store promises about resources, without saying how: a *)
(* conditional key-value store in which every call takes effect in one     *)
(* instant between the moment its collection is resolved and its answer,   *)
(* and a listing shows the contents of one instant.  Collections come and  *)
(* go; one that is gone never comes back under the same identity.          *)
(***************************************************************************)
EXTENDS Naturals

CONSTANTS Clients, Ids, Names, None

Ops == {"create", "replace", "delete", "deleteif", "remove", "list"}

Res == [etag : Nat, data : Nat]

(* A call, with the statuses that answer it: done, or its condition false. *)
Call == [op : Ops, id : Ids, name : Names \cup {None},
         digest : Nat \cup {None}, row : Res, ok : Nat, no : Nat]

VARIABLES
    stored,   \* stored[k][n]: the resource n of collection k, or None
    open,     \* the collections there are
    used,     \* the collections there ever were
    call,     \* what each client has asked for, once its collection is known
    phase,    \* "pending", "done" or "refused"
    reply,    \* status of the last answer
    seen      \* each client's last listing

avars == <<stored, open, used, call, phase, reply, seen>>

-----------------------------------------------------------------------------
Holds(a) ==
    LET r == stored[a.id][a.name] IN
    CASE a.op = "create"                  -> a.id \in open /\ r = None
      [] a.op \in {"replace", "deleteif"} -> r # None /\ r.etag = a.digest
      [] OTHER                            -> TRUE

After(a) ==
    CASE a.op \in {"create", "replace"}  -> [stored EXCEPT ![a.id][a.name] = a.row]
      [] a.op \in {"delete", "deleteif"} -> [stored EXCEPT ![a.id][a.name] = None]
      [] a.op = "remove" -> [stored EXCEPT ![a.id] = [n \in Names |-> None]]
      [] OTHER           -> stored

(* The instant of the call.                                                *)
TakesEffect(c, a) ==
    /\ phase[c] = "pending"
    /\ stored' = IF Holds(a) THEN After(a) ELSE stored
    /\ open' = IF a.op = "remove" THEN open \ {a.id} ELSE open
    /\ seen' = IF a.op = "list"
               THEN [seen EXCEPT ![c] = [id |-> a.id, list |-> stored[a.id]]]
               ELSE seen

End(c) == call' = [call EXCEPT ![c] = None] /\ phase' = [phase EXCEPT ![c] = "pending"]

Effect(c) ==
    /\ call[c] # None
    /\ TakesEffect(c, call[c])
    /\ phase' = [phase EXCEPT ![c] = IF Holds(call[c]) THEN "done" ELSE "refused"]
    /\ UNCHANGED <<used, call, reply>>

Return(c) ==
    /\ call[c] # None /\ phase[c] # "pending"
    /\ reply' = [reply EXCEPT ![c] = IF phase[c] = "done" THEN call[c].ok
                                                          ELSE call[c].no]
    /\ End(c)
    /\ UNCHANGED <<stored, open, used, seen>>

EffectAndReturn(c) ==
    /\ call[c] # None
    /\ TakesEffect(c, call[c])
    /\ reply' = [reply EXCEPT ![c] = IF Holds(call[c]) THEN call[c].ok
                                                       ELSE call[c].no]
    /\ End(c)
    /\ UNCHANGED used

(* The call ends in an error, or unanswered; before or after its effect.   *)
Fail(c) ==
    /\ call[c] # None
    /\ \E e \in {reply[c], 200, 505} : reply' = [reply EXCEPT ![c] = e]
    /\ End(c)
    /\ UNCHANGED <<stored, open, used, seen>>

Ask(c) ==
    /\ call[c] = None
    /\ call'[c] \in Call /\ call' = [call EXCEPT ![c] = call'[c]]
    /\ UNCHANGED <<stored, open, used, phase, reply, seen>>

Create(c) ==
    /\ call[c] = None
    /\ \E k \in Ids \ used : open' = open \cup {k} /\ used' = used \cup {k}
    /\ reply' = [reply EXCEPT ![c] = 200]
    /\ UNCHANGED <<stored, call, phase, seen>>

(* Everything else a client may ask says nothing of resources; only a call *)
(* that took effect is answered 201.                                       *)
Other(c) ==
    /\ call[c] = None
    /\ reply'[c] \in Nat \ {201} /\ reply' = [reply EXCEPT ![c] = reply'[c]]
    /\ UNCHANGED <<stored, open, used, call, phase, seen>>

AInit ==
    /\ stored = [k \in Ids |-> [n \in Names |-> None]]
    /\ \E k \in Ids : open = {k} /\ used = {k}
    /\ call  = [c \in Clients |-> None]
    /\ phase = [c \in Clients |-> "pending"]
    /\ reply = [c \in Clients |-> 0]
    /\ seen  = [c \in Clients |-> None]

ANext == \E c \in Clients :
    \/ Ask(c) \/ Effect(c) \/ Return(c) \/ EffectAndReturn(c)
    \/ Fail(c) \/ Create(c) \/ Other(c)

ASpec == AInit /\ [][ANext]_avars
=============================================================================
