---------------------------- MODULE CaldavParser ----------------------------
(***************************************************************************)
(* The parser of CalDAV request bodies: Expat reads the document and calls *)
(* the handlers that caldav.c has installed at the time, which install     *)
(* others.  An event is <<"open", element>>, <<"text", characters>> or     *)
(* <<"close", element>>; Expat sees to it that they nest, and may hand a   *)
(* text over in pieces.                                                    *)
(***************************************************************************)
EXTENDS Naturals, Sequences, SequencesExt, FiniteSets

CONSTANTS
    Grammars,  \* what documents are made of: the children of each element,
               \* the elements with text, the texts, the number of events
    Document,  \* the parent of the root
    Unset

Requests == {"propfind", "propertyupdate", "calendar-query", "calendar-multiget"}
Properties == {"displayname", "calendar-description", "calendar-color"}
Elements == Requests \cup Properties \cup {"prop", "href"}  \* the others are unknown

VARIABLES
    grammar,    \* the grammar of this document
    doc,        \* history: the events so far
    open,       \* Expat: the elements that are open
    handlers,   \* element handlers: "parse", "prop" or "none"
    buffering,  \* the default handler is parsebuffer
    buf, fresh, \* the buffer's string; its size is zero (and the string old)
    request,    \* type of the request, Unset before p->p is allocated
    props,      \* properties: <<key (or CALPROP__MAX), value, valid>>
    hrefs,
    outcome     \* "parsing", then "done", "error", "malformed" or "crash"

xmlvars == <<grammar, doc, open, handlers, buffering, buf, fresh, request, props,
             hrefs, outcome>>
parsed == <<request, props, hrefs>>

CALPROP__MAX == "unknown"

-----------------------------------------------------------------------------
Hex == {"0", "4", "a", "f"}
Alnum == Hex \cup {"g"}
propvalid_rgb(cp) == /\ Len(cp) \in {7, 9} /\ cp[1] = "#"
                     /\ \A i \in 2 .. Len(cp) : cp[i] \in Hex

propvalids(key, cp) == IF key # "calendar-color" THEN 0
                       ELSE IF propvalid_rgb(cp) THEN 1 ELSE -1

BadEncoding == "?"

(* Expat hands over no empty text; a request has a type.                   *)
ASSUME GrammarsAssumption ==
    /\ \A g \in Grammars : \A text \in g.texts : text \in Seq(STRING) /\ text # <<>>
    /\ Unset \notin Requests

(* The path in a href: "+" is a blank, an escape one octet; from i on.     *)
Decoded(cp) ==
    LET n == Len(cp)
        Rest[i \in 1 .. n + 3] ==
            IF i > n THEN <<>>
            ELSE IF cp[i] = "+" THEN <<" ">> \o Rest[i + 1]
            ELSE IF cp[i] # "%" THEN <<cp[i]>> \o Rest[i + 1]
            ELSE IF i + 2 > n \/ cp[i + 1] \notin Alnum \/ cp[i + 2] \notin Alnum
                 THEN <<BadEncoding>>
            ELSE <<cp[i] \o cp[i + 1] \o cp[i + 2]>> \o Rest[i + 3]
    IN Rest[1]

Fails == outcome' = "error"
Nothing == UNCHANGED <<handlers, buffering, buf, fresh, parsed, outcome>>

Buffer_Keeps == buffering' = TRUE /\ UNCHANGED fresh
Buffer == buffering' = TRUE /\ fresh' = TRUE

(* A property of the list; its value is kept if it is to be set.           *)
propadd(key) ==
    IF request = Unset THEN Fails /\ UNCHANGED parsed
    ELSE /\ props' = Append(props,
              IF key = CALPROP__MAX \/ request # "propertyupdate" THEN <<key, Unset, 0>>
              ELSE <<key, buf, propvalids(key, buf)>>)
         /\ UNCHANGED <<request, hrefs, outcome>>

caldav_alloc(type) ==
    IF request # Unset THEN Fails /\ UNCHANGED parsed
    ELSE request' = type /\ UNCHANGED <<props, hrefs, outcome>>

parseopen(e) ==
    CASE e \in Requests -> caldav_alloc(e) /\ UNCHANGED <<handlers, buffering, buf, fresh>>
      [] e = "href" -> Buffer /\ UNCHANGED <<handlers, buf, parsed, outcome>>
      [] e = "prop" ->
            handlers' = "prop" /\ UNCHANGED <<buffering, buf, fresh, parsed, outcome>>
      [] OTHER -> Nothing

propopen(e) ==
    IF e \in Properties THEN Buffer /\ UNCHANGED <<handlers, buf, parsed, outcome>>
    ELSE propadd(CALPROP__MAX) /\ UNCHANGED <<handlers, buffering, buf, fresh>>

(* A href outside a request dereferences a null pointer.                   *)
close_href ==
    IF fresh THEN Nothing
    ELSE IF request = Unset
    THEN outcome' = "crash" /\ UNCHANGED <<handlers, buffering, buf, fresh, parsed>>
    ELSE /\ hrefs' = Append(hrefs, Decoded(buf))
         /\ outcome' = IF BadEncoding \in Range(Decoded(buf)) THEN "error" ELSE outcome
         /\ buffering' = FALSE
         /\ UNCHANGED <<handlers, buf, fresh, request, props>>

parseclose(e) ==
    CASE e \in Requests ->
            /\ handlers' = "none" /\ buffering' = FALSE
            /\ UNCHANGED <<buf, fresh, parsed, outcome>>
      [] e = "href" -> close_href
      [] OTHER -> Nothing

propclose(e) ==
    CASE e = "prop" ->
            handlers' = "parse" /\ UNCHANGED <<buffering, buf, fresh, parsed, outcome>>
      [] e \in Properties ->
            propadd(e) /\ buffering' = FALSE /\ UNCHANGED <<handlers, buf, fresh>>
      [] OTHER -> Nothing

parsebuffer(text) ==
    IF buffering
    THEN /\ buf' = IF fresh THEN text ELSE buf \o text
         /\ fresh' = FALSE
         /\ UNCHANGED <<handlers, buffering, parsed, outcome>>
    ELSE Nothing

-----------------------------------------------------------------------------
Parent == IF open = <<>> THEN Document ELSE Last(open)
Event(kind, what) == doc' = Append(doc, <<kind, what>>) /\ UNCHANGED grammar
More == outcome = "parsing" /\ Len(doc) < grammar.max /\ (open = <<>> => doc = <<>>)

OpenElement ==
    /\ More
    /\ \E e \in grammar.children[Parent] :
       /\ Event("open", e)
       /\ open' = Append(open, e)
       /\ CASE handlers = "parse" -> parseopen(e)
            [] handlers = "prop"  -> propopen(e)
            [] handlers = "none"  -> Nothing

CloseElement ==
    /\ More /\ open # <<>>
    /\ Event("close", Last(open))
    /\ open' = Front(open)
    /\ CASE handlers = "parse" -> parseclose(Last(open))
         [] handlers = "prop"  -> propclose(Last(open))
         [] handlers = "none"  -> Nothing

Text ==
    /\ More /\ Parent \in grammar.textual
    /\ \E text \in grammar.texts : Event("text", text) /\ parsebuffer(text)
    /\ UNCHANGED open

(* The end of the document; Expat refuses one that is cut short.           *)
XML_Parse ==
    /\ outcome = "parsing"
    /\ outcome' = IF open = <<>> /\ doc # <<>> THEN "done" ELSE "malformed"
    /\ UNCHANGED <<grammar, doc, open, handlers, buffering, buf, fresh, parsed>>

XmlInit ==
    /\ grammar \in Grammars
    /\ doc = <<>> /\ open = <<>>
    /\ handlers = "parse" /\ buffering = FALSE
    /\ buf = <<" ">> /\ fresh = FALSE
    /\ request = Unset /\ props = <<>> /\ hrefs = <<>>
    /\ outcome = "parsing"

XmlNext == OpenElement \/ CloseElement \/ Text \/ XML_Parse

XmlSpec == XmlInit /\ [][XmlNext]_xmlvars

-----------------------------------------------------------------------------
(* What a document d says, without the handlers' state.                    *)

Count(d, kind, k) == Cardinality({i \in 1 .. k : d[i][1] = kind})
Depth(d, k) == Count(d, "open", k) - Count(d, "close", k)
Opened(d) == {k \in DOMAIN d : d[k][1] = "open"}
Within(d, k) == LET S == {b \in Opened(d) : b < k /\ Depth(d, b) = Depth(d, k - 1)} IN
                CHOOSE b \in S : \A c \in S : c <= b
Is(d, k, names) == d[k][2] \in names
In(d, k, names) == k > 1 /\ Is(d, Within(d, k), names)
TextIn(d, b, k) == d[k][1] = "text" /\ Within(d, k) = b
OwnText(d, b) ==
    FlattenSeq([k \in DOMAIN d |-> IF TextIn(d, b, k) THEN d[k][2] ELSE <<>>])

(* One request, properties named in "prop" and nowhere deeper, and nothing *)
(* but text in a property or a href.                                       *)
Proper(d) ==
    /\ 1 \in Opened(d) /\ Is(d, 1, Requests)
    /\ \A k \in Opened(d) \ {1} :
       /\ ~Is(d, k, Requests) /\ ~In(d, k, Properties \cup {"href"})
       /\ In(d, k, {"prop"}) => ~Is(d, k, {"prop"})
       /\ ~In(d, Within(d, k), {"prop"})

Named(d)  == {k \in Opened(d) : In(d, k, {"prop"})}
Linked(d) == {k \in Opened(d) : Is(d, k, {"href"}) /\ ~In(d, k, {"prop"})
                                /\ OwnText(d, k) # <<>>}

Sets(d, k) == Is(d, 1, {"propertyupdate"}) /\ Is(d, k, Properties)
AsNamed(d, k, prop) ==
    /\ prop[1] = IF Is(d, k, Properties) THEN d[k][2] ELSE CALPROP__MAX
    /\ ~Sets(d, k) => prop[2] = Unset
    /\ Sets(d, k) /\ OwnText(d, k) # <<>> =>
          prop = <<d[k][2], OwnText(d, k), propvalids(d[k][2], OwnText(d, k))>>

(* The list holds, in the order of the document, one entry for each of the *)
(* elements k in S.                                                        *)
Place(S, k) == Cardinality({c \in S : c <= k})

(* Of a proper document the parser returns the request, the properties     *)
(* named, in order, with the text of each as its value if they are to be   *)
(* set, and the paths linked to, decoded; it refuses one only for a bad    *)
(* escape.  (The value of an empty property that is to be set is left      *)
(* open.)                                                                  *)
RequestAsWritten ==
    outcome \in {"done", "error", "crash"} /\ Proper(doc) =>
    LET bad == \E k \in Linked(doc) : BadEncoding \in Range(Decoded(OwnText(doc, k)))
    IN /\ outcome = IF bad THEN "error" ELSE "done"
       /\ request = doc[1][2]
       /\ Len(hrefs) = Cardinality(Linked(doc))
       /\ \A k \in Linked(doc) : hrefs[Place(Linked(doc), k)] = Decoded(OwnText(doc, k))
       /\ ~bad => /\ Len(props) = Cardinality(Named(doc))
                  /\ \A k \in Named(doc) : AsNamed(doc, k, props[Place(Named(doc), k)])
=============================================================================
