------------------------------- MODULE Paths --------------------------------
(***************************************************************************)
(* The names in URLs.  A text is a sequence of pieces: "/" and "+", three  *)
(* escapes, a blank, "%" (an escape cut short), the script's own name,     *)
(* which begins every link, and words.                                     *)
(***************************************************************************)
EXTENDS Naturals, Sequences, SequencesExt, FiniteSetsExt, TLC

pname == "/kcaldav"

LOCAL Octet == "+" :> " " @@ "%20" :> " " @@ "%2B" :> "+" @@ "%2F" :> "/"
LOCAL Escape == " " :> "+" @@ "+" :> "%2B" @@ "/" :> "%2F" @@ "%" :> "%25"
               @@ "%20" :> "%2520" @@ "%2B" :> "%252B" @@ "%2F" :> "%252F"
               @@ pname :> "%2Fkcaldav"

LOCAL Each(map, in) ==
    [i \in DOMAIN in |-> IF in[i] \in DOMAIN map THEN map[in[i]] ELSE in[i]]

http_decode(in) == Each(Octet, in)

(* close_href of the CalDAV parser decodes alike, the whole path and not   *)
(* its last part only, and fails on an escape cut short.                   *)
close_href(in) == Each(Octet, in)

khttp_urlencode(in) == Each(Escape, in)

Slashes(in) == {i \in DOMAIN in : in[i] = "/"}

NoPath == [principal |-> <<>>, collection |-> <<>>, resource |-> <<"no path">>]

(* /principal/collection/resource: up to the first "/", up to the last,    *)
(* and what is left.                                                       *)
http_paths(in) ==
    IF in = <<>> \/ Head(in) # "/" THEN NoPath
    ELSE LET rest  == Tail(in)
             first == Min(Slashes(rest) \cup {Len(rest) + 1})
             after == SubSeq(rest, first + 1, Len(rest))
             last  == Max(Slashes(after) \cup {0})
         IN [principal  |-> SubSeq(rest, 1, first - 1),
             collection |-> SubSeq(after, 1, last - 1),
             resource   |-> http_decode(SubSeq(after, last + 1, Len(after)))]

http_safe_string(cp) ==
    /\ cp \notin {<<>>, <<".">>, <<"..">>}
    /\ \A i \in DOMAIN cp : cp[i] \notin {"/", " ", "%", "%20", "%2B", "%2F"}
=============================================================================
