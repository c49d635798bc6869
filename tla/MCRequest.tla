------------------------------ MODULE MCRequest ------------------------------
(* Small databases and requests for Request.                               *)
EXTENDS RequestInv

U == <<"u">>
V == <<"v">>
Cal  == <<"cal">>
Plus == <<"a", "+", "b">>
Ics  == <<"r">>

SmallUsers == {U, V}
SmallUrls  == {Cal, Plus}
SmallNames == {Ics, <<>>}

Rights(uv, vu) == (U :> (U :> 0 @@ V :> uv)) @@ (V :> (U :> vu @@ V :> 0))
Calendar(id, owner, url) == [id |-> id, owner |-> owner, url |-> url, ctag |-> 1]
RowOf(coln, name, etag) == [coln |-> coln, name |-> name, etag |-> etag]

SmallDatabases ==
    {[cols |-> {Calendar(1, U, Cal), Calendar(2, U, Plus)},
      rows |-> {RowOf(1, Ics, 3), RowOf(2, Ics, 4)}, proxy |-> Rights(READ, 0), next |-> 5],
     [cols |-> {Calendar(1, U, Cal), Calendar(2, V, Cal)},
      rows |-> {RowOf(1, Ics, 3), RowOf(1, <<"a", " ", "b">>, 4), RowOf(1, <<"a", "+", "b">>, 6)},
      proxy |-> Rights(WRITE, READ), next |-> 7]}

-----------------------------------------------------------------------------
All == <<"calendar-color", "calendar-data", "calendar-description", "calendar-home-set",
         "calendar-proxy-read-for", "calendar-proxy-write-for", "calendar-timezone",
         "calendar-user-address-set", "current-user-principal",
         "current-user-privilege-set", "displayname", "getcontenttype", "getctag",
         "getetag", "group-member-set", "group-membership", "min-date-time", "owner",
         "principal-URL", "quota-available-bytes", "quota-used-bytes", "resourcetype",
         "schedule-calendar-transp", "supported-calendar-component-set",
         "supported-calendar-data", "unknown">>

Body(type, props, hrefs) ==
    [mime |-> "text/xml", type |-> type, props |-> props, hrefs |-> hrefs]
Ask(method, user, path, body) ==
    [method |-> method, user |-> user, auth |-> "good", json |-> FALSE, path |-> path,
     body |-> body, depth |-> "none", match |-> None]

Path(u, url, name) == <<"/">> \o u \o <<"/">> \o url \o <<"/">> \o name

Methods == {"GET", "PUT", "DELETE", "PROPFIND", "PROPPATCH", "REPORT", "POST", "MKCOL"}
Somewhere ==
    {<<"/">>, <<"/">> \o U, <<"/">> \o U \o <<"/">>, <<"/">> \o U \o <<"/", "x">>,
     Path(U, <<"calendar-proxy-write">>, <<>>), Path(U, <<"calendar-proxy-read">>, Ics),
     Path(U, Cal, <<>>), Path(U, Cal, Ics), Path(U, Plus, <<>>), Path(U, Plus, Ics),
     Path(U, Cal, <<"a", "%20", "b">>), Path(U, Cal \o <<"/", "x">>, Ics),
     Path(<<"w">>, Cal, Ics)}

Anyhow == {Ask(m, u, p, Body("propfind", All, <<>>)) :
             m \in Methods, u \in {U, V, <<"w">>}, p \in Somewhere}

Access == {[Ask(m, U, p, Body("propfind", <<>>, <<>>)) EXCEPT !.auth = a, !.json = j] :
             m \in {"GET", "OPTIONS", "unknown"}, p \in {<<>>, Path(U, Cal, Ics)},
             a \in {"none", "malformed", "wrong", "stale", "replay", "good"}, j \in BOOLEAN}

Bodies == {[Ask(m, u, Path(U, Cal, n), [Body(type, <<"getetag">>, h) EXCEPT !.mime = mime])
              EXCEPT !.depth = d] :
             m \in {"PROPFIND", "REPORT"}, u \in {U, V}, n \in {<<>>, Ics},
             type \in XmlTypes \cup {"ical"}, d \in {"0", "1"},
             h \in {<<>>, <<<<pname, "/", "%">>>>},
             mime \in {"text/xml", "text/calendar", "text/plain"}}

Multigets == {Ask("REPORT", u, Path(U, Cal, <<>>),
                  Body("calendar-multiget", <<"getetag", "displayname", "x">>, <<g, h>>)) :
             u \in {U, V},
             g, h \in {<<pname>> \o Path(U, Cal, Ics), <<pname>> \o Path(U, Cal, <<>>),
                       <<pname>> \o Path(V, Cal, Ics), <<pname>> \o Path(U, Plus, Ics),
                       <<pname>> \o Path(U, Cal, <<"a", "%20", "b">>),
                       <<pname>> \o Path(U, Cal, <<"a", "%2B", "b">>),
                       Path(U, Cal, Ics), <<pname, "x">>}}

Conditional == {[Ask("GET", U, Path(U, Cal, Ics), Body("propfind", <<>>, <<>>))
                   EXCEPT !.match = e] : e \in {3, 4}}

(* Three changes amid the requests that read most, one amid the others.    *)
Crowded == {Ask("PROPFIND", V, Path(U, Plus, <<>>), Body("propfind", All, <<>>)),
            Ask("REPORT", U, Path(U, Cal, <<>>),
                Body("calendar-multiget", <<"getetag", "displayname", "x">>,
                     <<<<pname>> \o Path(U, Cal, Ics), <<pname>> \o Path(U, Plus, Ics)>>))}

SmallRequests == Anyhow \cup Access \cup Bodies \cup Multigets \cup Conditional \cup Crowded

Changes(r) == IF r \in Crowded THEN 3 ELSE 1
=============================================================================
