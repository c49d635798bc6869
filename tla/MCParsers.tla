------------------------------ MODULE MCParsers -----------------------------
(***************************************************************************)
(* Small documents for the four readers and writers of text: each of the   *)
(* alphabets and grammars below is about one hazard.  A behaviour is one   *)
(* of one machine, on one document; the others stay out of it.             *)
(***************************************************************************)
EXTENDS ICal, ICalLines, CaldavParser, Conf, TLC

-----------------------------------------------------------------------------
(* Lines of iCalendars.                                                    *)
L(name, val) == <<name, <<>>, val>>
B(type) == L("BEGIN", type)
E(type) == L("END", type)
At(name, val, zone) == <<name, <<<<"TZID", zone>>>>, val>>
As(name, val, type) == <<name, <<<<"VALUE", type>>>>, val>>
Rule(key, val) == L("RRULE", <<<<"FREQ", "DAILY">>,
                               <<key, val>>>>)

Day == "20240501"
Date  == <<Day>>
Local == <<Day, "T", "120000">>
Utc   == <<Day, "T", "120000", "Z">>
Zero  == <<"19700101", "T", "000000", "Z">>
Hour(sign) == [sign |-> sign, digits |-> <<0, 1, 0, 0>>]

Start == B("VCALENDAR")

\* Zones defined before or after their use, inside or outside; a start and
\* an end in one zone or in two.
Zones == [max |-> 6, lines |-> {Start, B("VTIMEZONE"), E("VTIMEZONE"), L("TZID", "z"),
    L("TZID", "y"), B("VTODO"), At("DTSTART", Local, "z"), At("DTEND", Local, "y")}]
\* UNTIL and DTSTART in every order.
Untils == [max |-> 6, lines |-> {Start, B("VTIMEZONE"), L("TZID", "z"),
    B("VTODO"), E("VTODO"), L("DTSTART", Date), L("DTSTART", Utc), At("DTSTART", Local, "z"),
    Rule("UNTIL", Date), Rule("UNTIL", Utc)}]
\* The rules of a zone; and what its offset makes of them.
ZoneRules == [max |-> 6, lines |-> {Start, B("VTIMEZONE"), L("TZID", "z"), B("DAYLIGHT"),
    L("DTSTART", Local), Rule("UNTIL", Local), Rule("UNTIL", Utc)}]
Shifts == [max |-> 7, lines |-> {Start, B("VTIMEZONE"), L("TZID", "z"), B("DAYLIGHT"),
    L("DTSTART", Local), Rule("UNTIL", Utc), L("TZOFFSETTO", Hour("-"))}]
\* Components in components, known and unknown, ended or not.
Nested == [max |-> 6, lines |-> {Start, E("VCALENDAR"), B("VTIMEZONE"), E("VTIMEZONE"),
    L("TZID", "z"), B("STANDARD"), E("STANDARD"), B("VALARM"), E("VALARM"),
    B("X-PART")}]
\* Events: complete, incomplete, twice.
Events == [max |-> 6, lines |-> {Start, B("VEVENT"), E("VEVENT"), L("UID", "u"),
    L("UID", "v"), L("UID", ""), L("DTSTART", Date), L("DTSTART", Zero), L(None, "")}]
\* Every value, well formed or not.
Chars == {"P", "T", "-", "1", "D", "H"}
Values == [max |-> 2, lines |-> {Start, L("X-NAME", "u")}
    \cup {L("DURATION", v) : v \in UNION {[1 .. n -> Chars] : n \in 0 .. 3}}
    \cup {L("DURATION", DurationText(m, num)) : m \in Marks, num \in Numbers}
    \cup {L("DURATION", SignedFirst(m, num)) : m \in Marks \ {""}, num \in Numbers}]
Instants == [max |-> 3, lines |-> {Start, B("VTIMEZONE"), B("STANDARD")}
    \cup {L(a, v) : a \in Stamps \cup {"DTSTART", "DTEND"},
          v \in {Date, Local, Utc, Zero, <<>>, <<Day, "T">>, <<"x">>, <<Day, "x", "120000">>,
                 <<Day, "T", "12">>, <<Day, "T", "120000", "x">>}}
    \cup {As("DTSTART", v, type) : v \in {Date, Local}, type \in {"DATE", "DATE-TIME"}}
    \cup {At("DTSTART", v, z) : v \in {Date, Utc}, z \in {"z", ""}}
    \cup {[At("DTSTART", Local, "z") EXCEPT ![2] = @ \o @]}]
Rules == [max |-> 3, lines |-> {Start, L("RRULE", <<>>)}
    \cup {Rule(key, v) : key \in DOMAIN Limits, v \in {<<0>>, <<1, 59>>, <<-1>>, <<12, 999>>, <<None>>}}
    \cup {Rule(key, v) : key \in {"COUNT", "INTERVAL"}, v \in {0, 7, None}}
    \cup {Rule("WKST", "MO"), Rule("WKST", None), Rule("UNTIL", Utc), Rule("UNTIL", <<>>),
          Rule("X", None), L("RRULE", <<<<"FREQ", None>>>>),
          L("RRULE", <<<<"COUNT", 7>>>>)}
    \cup {Rule("BYDAY", <<[sign |-> s, digits |-> d, day |-> w]>>) :
          s \in {"", "-"}, d \in {<<>>, <<2>>, <<1, 2>>, <<1, 2, 3>>}, w \in {"MO", "XX"}}]
Offsets == [max |-> 4, lines |-> {Start, B("VTIMEZONE"), B("STANDARD"), Rule("COUNT", 1)}
    \cup {L("TZOFFSETFROM", [sign |-> s, digits |-> d]) : s \in {"+", "-", ""},
          d \in {<<0, 1, 3, 0>>, <<2, 4, 0, 0>>, <<0, 0, 6, 0>>, <<1, 0>>, <<0, 1, 0, None>>,
                 <<2, 3, 5, 9, 5, 9>>, <<0, 0, 0, 0, 6, 0>>}}]

SmallAlphabets == {Zones, Untils, ZoneRules, Shifts, Nested, Events, Values, Instants, Rules,
                   Offsets}

-----------------------------------------------------------------------------
(* Request bodies.                                                         *)
Colour == <<"#", "0", "4", "a", "f", "0", "0">>
Kids(parent, children) == parent :> children
NoKids == [e \in Elements \cup {"unknown"} |-> {}]

\* Property updates, wrapped in an unknown element.
Updates == [max |-> 12, texts |-> {<<"a">>, Colour}, textual |-> Properties,
   children |-> Kids(Document, {"propertyupdate"}) @@ Kids("propertyupdate", {"set"})
      @@ Kids("set", {"prop"})
      @@ Kids("prop", {"displayname", "calendar-color", "unknown"}) @@ NoKids]
\* Links with escapes, whole and in pieces.
Multigets == [max |-> 9, texts |-> {<<"a">>, <<"+", "%">>, <<"4", "f">>},
   textual |-> {"href"},
   children |-> Kids(Document, {"calendar-multiget"})
      @@ Kids("calendar-multiget", {"prop", "href"})
      @@ Kids("prop", {"displayname", "href"}) @@ NoKids]
\* Anything anywhere.
Every == {"propfind", "propertyupdate", "prop", "href", "displayname", "unknown"}
Wild == [max |-> 6, texts |-> {<<"a">>}, textual |-> {"href", "displayname"},
   children |-> [e \in Elements \cup {Document, "unknown"} |-> Every]]

SmallGrammars == {Updates, Multigets, Wild}

-----------------------------------------------------------------------------
(* Nodes to be printed: octets from start to end around every fold.        *)
Seqs(S, n) == UNION {[1 .. k -> S] : k \in 0 .. n}
SmallNodes ==
    [name : {<<"a">>, <<"a", "a", "a">>},
     param : {Absent, <<>>, <<"a">>, <<"2", "t">>, <<"a", "3", "t", "t">>},
     val : Seqs({"a", "sp", "2", "t"}, 4) \cup Seqs({"a", "sp", "cr", ":", "2", "3", "t"}, 3)
           \cup {<<"a">> \o v : v \in Seqs({"4", "t", "x"}, 5)}]

-----------------------------------------------------------------------------
(* Configuration files.                                                    *)
SmallFiles ==
    {[max |-> 2,
      lines |-> {Written(s) : s \in LogfileLines \cup DebugLines} \cup
        {<<"nl">>, <<"#", "a", "nl">>, <<"logfile", "=", "nl">>,
         <<"debug", "=", "a", "nl">>, <<"a", "=", "a", "nl">>, <<"a", "nl">>,
         <<"=", "a", "nl">>, <<"logfile", "=", "a", "\\", "#", "a">>}]}

-----------------------------------------------------------------------------
ICalIdle == /\ alphabet = None /\ text = <<>> /\ first = <<>> /\ comps = <<>>
            /\ stack = <<>> /\ status = "idle"
LinesIdle == /\ node = [name |-> <<>>, param |-> Absent, val |-> <<>>]
             /\ part = 9 /\ at = 1 /\ col = 0 /\ out = <<>>
XmlIdle == /\ grammar = Unset /\ doc = <<>> /\ open = <<>> /\ handlers = "none"
           /\ buffering = FALSE /\ buf = <<>> /\ fresh = TRUE /\ request = Unset
           /\ props = <<>> /\ hrefs = <<>> /\ outcome = "idle"
ConfIdle == /\ file = NoValue /\ read = <<>> /\ logfile = NoValue /\ verbose = 0
            /\ verdict = "idle"

Init == \/ ICalInit /\ LinesIdle /\ XmlIdle /\ ConfIdle
        \/ ICalIdle /\ LinesInit /\ XmlIdle /\ ConfIdle
        \/ ICalIdle /\ LinesIdle /\ XmlInit /\ ConfIdle
        \/ ICalIdle /\ LinesIdle /\ XmlIdle /\ ConfInit

Next == \/ ICalNext /\ UNCHANGED <<linevars, xmlvars, confvars>>
        \/ LinesNext /\ UNCHANGED <<icalvars, xmlvars, confvars>>
        \/ XmlNext /\ UNCHANGED <<icalvars, linevars, confvars>>
        \/ ConfNext /\ UNCHANGED <<icalvars, linevars, xmlvars>>

Spec == Init /\ [][Next]_<<icalvars, linevars, xmlvars, confvars>>
=============================================================================
