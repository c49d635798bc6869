-------------------------------- MODULE ICal --------------------------------
(***************************************************************************)
(* The iCalendar parser: ical_parse reads a text line by line into a chain *)
(* of nodes and a list of components with their parsed attributes.  It     *)
(* recurs at every BEGIN; the stack below is its recursion.  The text may  *)
(* end anywhere.                                                           *)
(*                                                                         *)
(* A line is what ical_line makes of it (module ICalLines): <<name,        *)
(* parameters, value>>, a parameter being a <<key, value>>.  Names and     *)
(* keywords, which the code compares without case, are in upper case.      *)
(* Values are made of the tokens that their parsers tell apart.            *)
(***************************************************************************)
EXTENDS Integers, Sequences, SequencesExt, FiniteSets

CONSTANTS
    Alphabets,  \* what texts are written with: [lines : sets of lines, max : their length]
    None,       \* not set
    Bad         \* result of a value parser that fails

icaltypes   == {"VCALENDAR", "VEVENT", "VTODO", "VJOURNAL", "VFREEBUSY",
                "VTIMEZONE", "VALARM"}
icaltztypes == {"DAYLIGHT", "STANDARD"}
icalwkdays  == {"SU", "MO", "TU", "WE", "TH", "FR", "SA"}
Days        == {"19700101", "20240501"}
Clocks      == {"000000", "120000"}
icalfreqs   == {"SECONDLY", "MINUTELY", "HOURLY", "DAILY", "WEEKLY",
                "MONTHLY", "YEARLY"}

VARIABLES
    alphabet,  \* the lines this text is written with
    text,      \* history: the lines read, as written
    first,     \* the chain of nodes: what ical_print will print
    comps,     \* the components, in the order of their BEGIN
    stack,     \* the calls of ical_parsecomp and ical_parsetz in progress
    status     \* "reading", then "ok" or "error"

Name(line)  == line[1]
Param(line) == line[2]
Val(line)   == line[3]

icalvars == <<alphabet, text, first, comps, stack, status>>

-----------------------------------------------------------------------------
(* Values.  Each parser returns what it stores, or Bad.                    *)

(* A date is <<day>>, a local time <<day, "T", clock>>, a UTC time         *)
(* <<day, "T", clock, "Z">>; tm is zero at the epoch.                      *)
ical_datetime(v) ==
    IF \/ Len(v) \notin {1, 3, 4} \/ v[1] \notin Days
       \/ Len(v) > 1 /\ (v[2] # "T" \/ v[3] \notin Clocks)
       \/ Len(v) = 4 /\ v[4] # "Z"
    THEN Bad
    ELSE [type |-> CASE Len(v) = 1 -> "DATE"
                     [] Len(v) = 3 -> "DATETIME"
                     [] Len(v) = 4 -> "DATETIMEUTC",
          zero |-> v[1] = "19700101" /\ (Len(v) = 1 \/ v[3] = "000000")]

(* DTSTART and DTEND.  The zone is looked up later.                        *)
ical_tzdatetime(v, param) ==
    LET time  == ical_datetime(v)
        Says(val) == \E i \in DOMAIN param : param[i] = <<"VALUE", val>>
        zones == SelectSeq(param, LAMBDA q : q[1] = "TZID" /\ q[2] # "")
    IN IF \/ time = Bad
          \/ Says("DATE-TIME") /\ time.type = "DATE"
          \/ Says("DATE") /\ time.type # "DATE"
          \/ Len(zones) > 0 /\ (time.type = "DATETIMEUTC" \/ Len(zones) > 1)
       THEN Bad
       ELSE [time |-> time, tzstr |-> IF zones = <<>> THEN None ELSE zones[1][2]]

OfType(time, type) == IF time # Bad /\ time.type = type THEN time ELSE Bad
ical_localdatetime(v) == OfType(ical_datetime(v), "DATETIME")
ical_utcdatetime(v)   == OfType(ical_datetime(v), "DATETIMEUTC")

ical_string(v) == IF v = "" THEN Bad ELSE v

(* A list of bounded numbers.                                              *)
ical_llong(v, min, max) ==
    IF \A i \in DOMAIN v : v[i] \in min .. max THEN v ELSE Bad

Number(digits) == FoldLeft(LAMBDA n, d : 10 * n + d, 0, digits)

(* A week number of at most two digits, maybe signed, and a weekday.       *)
ical_wk(t) ==
    IF Len(t.digits) > 2 \/ t.day \notin icalwkdays THEN Bad
    ELSE [wk |-> IF t.sign = "-" THEN -Number(t.digits) ELSE Number(t.digits),
          wkday |-> t.day]

ical_wklist(v) ==
    LET days == [i \in DOMAIN v |-> ical_wk(v[i])]
    IN IF \E i \in DOMAIN v : days[i] = Bad THEN Bad ELSE days

Limits == [BYHOUR     |-> <<0, 23>>, BYMINUTE |-> <<0, 59>>, BYSECOND  |-> <<1, 59>>,
           BYMONTHDAY |-> <<1, 31>>, BYMONTH  |-> <<1, 12>>, BYWEEKNO  |-> <<1, 53>>,
           BYYEARDAY  |-> <<1, 366>>, BYSETPOS |-> <<-366, 366>>]
Singles == {"COUNT", "INTERVAL", "WKST"}
Lists   == DOMAIN Limits \cup {"BYDAY"}

NoRule == [set |-> FALSE, freq |-> None, until |-> None,
           single |-> [key \in Singles |-> None], by |-> [key \in Lists |-> <<>>]]

Overwrite(rule, key, v) ==
    IF v = Bad THEN Bad ELSE [rule EXCEPT !.single[key] = v]
Grow(rule, key, v) ==
    IF v = Bad THEN Bad ELSE [rule EXCEPT !.by[key] = @ \o v]

(* One parameter of a rule: single values overwrite, lists grow.           *)
ical_rrule_param(rule, param) ==
    LET key == param[1]  v == param[2] IN
    CASE rule = Bad -> Bad
      [] key = "FREQ" -> IF v \in icalfreqs THEN [rule EXCEPT !.freq = v] ELSE Bad
      [] key = "UNTIL" ->
            IF ical_datetime(v) = Bad THEN Bad
            ELSE [rule EXCEPT !.until = ical_datetime(v)]
      [] key \in {"COUNT", "INTERVAL"} ->
            Overwrite(rule, key, IF v \in Int THEN v ELSE Bad)
      [] key = "WKST" -> Overwrite(rule, key, IF v \in icalwkdays THEN v ELSE Bad)
      [] key = "BYDAY" -> Grow(rule, key, ical_wklist(v))
      [] key \in DOMAIN Limits ->
            Grow(rule, key, ical_llong(v, Limits[key][1], Limits[key][2]))
      [] OTHER -> Bad

(* A whole rule, on top of an earlier one of the same component.           *)
ical_rrule(rule, v) ==
    LET new == FoldLeft(ical_rrule_param, [rule EXCEPT !.set = TRUE], v)
    IN IF new = Bad \/ new.freq = None THEN Bad ELSE new

(* DURATION: cp holds one character per element; a number ends at its unit *)
(* letter, which is overwritten with NUL.  From position i: whether the    *)
(* rest is taken, the numbers stored, and where the first NUL is.          *)
Digits_NoZero == {"1", "2"}
Digits == {"0", "1", "2"}

Units  == {"D", "W", "H", "M", "S"}

ical_duration(cp) ==
    LET n    == Len(cp)
        from == IF n > 1 /\ cp[2] \in {"-", "+"} THEN 3 ELSE 2
        sign == IF n > 1 /\ cp[2] = "-" THEN -1 ELSE 1
        AfterDigits(i) == CHOOSE j \in i .. n + 1 :
            /\ j > n \/ cp[j] \notin Digits
            /\ \A k \in i .. j - 1 : cp[k] \in Digits
        Done(ok, nul) ==
            [ok |-> ok, sign |-> sign, num |-> [u \in Units |-> <<>>], nul |-> nul]
        Rest[i \in 1 .. n + 1] ==
            IF i > n THEN Done(TRUE, i)
            ELSE IF cp[i] = "T" THEN IF i = n THEN Done(FALSE, n + 1) ELSE Rest[i + 1]
            ELSE LET j == AfterDigits(i) IN
                 IF j > n THEN Done(TRUE, n + 1)
                 ELSE IF i = j \/ cp[j] \notin Units THEN Done(j = n, j)
                 ELSE LET later == Rest[j + 1] IN
                      [later EXCEPT !.nul = j,
                          !.num[cp[j]] = IF @ = <<>> THEN SubSeq(cp, i, j - 1) ELSE @]
    IN IF n < from \/ cp[1] # "P" THEN Done(FALSE, n + 1)
       ELSE Rest[from]

(* (+-)HHMM[SS], in seconds.                                               *)
ical_utc_offs(v) ==
    LET d == v.digits
        Two(i) == 10 * d[i] + d[i + 1]
    IN IF \/ Len(d) \notin {4, 6} \/ v.sign \notin {"+", "-"}
          \/ \E i \in DOMAIN d : d[i] \notin 0 .. 9
          \/ Two(1) >= 24 \/ Two(3) >= 60
          \/ Len(d) = 6 /\ Two(5) >= 60
       THEN Bad
       ELSE LET offset == Two(1) * 3600 + Two(3) * 60 + (IF Len(d) = 6 THEN Two(5) ELSE 0)
            IN IF v.sign = "-" THEN -offset ELSE offset

-----------------------------------------------------------------------------
(* Components and their attributes.                                        *)

Stamps == {"CREATED", "LAST-MODIFIED", "DTSTAMP"}
Attributes == Stamps \cup {"UID", "TZID", "DTSTART", "DTEND", "DURATION", "RRULE"}
TzAttributes == {"DTSTART", "TZOFFSETFROM", "TZOFFSETTO", "RRULE"}

(* A line that has no name has not the name of an attribute.               *)
ASSUME NoneAssumption == None \notin Attributes

Comp(type) ==
    [type |-> type, tzs |-> <<>>,
     attr |-> [a \in Attributes |-> IF a = "RRULE" THEN NoRule ELSE None]]
Tz(type) ==
    [type |-> type,
     attr |-> [DTSTART |-> None, TZOFFSETFROM |-> 0, TZOFFSETTO |-> 0, RRULE |-> NoRule]]

(* What an attribute's line makes of its earlier value.                    *)
CompValue(line, old) ==
    CASE Name(line) \in {"UID", "TZID"} -> ical_string(Val(line))
      [] Name(line) \in Stamps -> ical_utcdatetime(Val(line))
      [] Name(line) \in {"DTSTART", "DTEND"} -> ical_tzdatetime(Val(line), Param(line))
      [] Name(line) = "DURATION" ->
            LET d == ical_duration(Val(line)) IN IF d.ok THEN [sign |-> d.sign, num |-> d.num] ELSE Bad
      [] Name(line) = "RRULE" -> ical_rrule(old, Val(line))

TzValue(line, old) ==
    CASE Name(line) = "DTSTART" -> ical_localdatetime(Val(line))
      [] Name(line) \in {"TZOFFSETFROM", "TZOFFSETTO"} -> ical_utc_offs(Val(line))
      [] Name(line) = "RRULE" -> ical_rrule(old, Val(line))

-----------------------------------------------------------------------------
(* Checks at the end of a component, and of the whole.                     *)

UntilFits(c) ==
    LET start == c.attr.DTSTART  until == c.attr.RRULE.until IN
    \/ until = None \/ start = None
    \/ until.type = IF start.tzstr # None THEN "DATETIMEUTC" ELSE start.time.type

UntilFitsTz_OffsetFromOnly(z) ==
    LET start == z.attr.DTSTART  until == z.attr.RRULE.until IN
    \/ until = None \/ start = None
    \/ until.type = start.type
    \/ z.attr.TZOFFSETFROM # 0 /\ until.type = "DATETIMEUTC"

UntilFitsTz(z) ==
    LET start == z.attr.DTSTART  until == z.attr.RRULE.until IN
    \/ until = None \/ start = None
    \/ until.type = start.type
    \/ /\ z.attr.TZOFFSETTO # 0 \/ z.attr.TZOFFSETFROM # 0
       /\ until.type = "DATETIMEUTC"

(* An event has a UID and a DTSTART that is not zero.                      *)
Complete(c) ==
    CASE c.type = "VEVENT" -> /\ c.attr.UID # None
                              /\ c.attr.DTSTART # None /\ ~c.attr.DTSTART.time.zero
      [] c.type = "VTIMEZONE" -> c.attr.TZID # None
      [] OTHER -> TRUE

Resolves(cs, time) ==
    \/ time = None \/ time.tzstr = None
    \/ \E z \in DOMAIN cs : cs[z].type = "VTIMEZONE" /\ cs[z].attr.TZID = time.tzstr

ical_postparse(cs) ==
    \A i \in DOMAIN cs : /\ Resolves(cs, cs[i].attr.DTSTART)
                         /\ Resolves(cs, cs[i].attr.DTEND)

(* A frame is a call of ical_parsetz when tz is set.                       *)
FrameEnds(frame, cs) ==
    IF frame.tz = None THEN UntilFits(cs[frame.comp]) /\ Complete(cs[frame.comp])
    ELSE UntilFitsTz(cs[frame.comp].tzs[frame.tz])

-----------------------------------------------------------------------------
Line(name) == {line \in alphabet.lines : Name(line) = name}
Top == Last(stack)
Reading == status = "reading" /\ Len(text) < alphabet.max
InComp == Reading /\ stack # <<>> /\ Top.tz = None
InTz   == Reading /\ stack # <<>> /\ Top.tz # None

(* icalnode_alloc: the node of a line that reached its component, whose    *)
(* value a DURATION's parser overwrites.                                   *)
Take(line) == text' = Append(text, line) /\ first' = Append(first, line)
TakeCut(line, nul) ==
    /\ text' = Append(text, line)
    /\ first' = Append(first, [line EXCEPT ![3] = SubSeq(@, 1, nul - 1)])

ICalInit ==
    /\ alphabet \in Alphabets
    /\ text = <<>> /\ first = <<>> /\ comps = <<>> /\ stack = <<>>
    /\ status = "reading"

Push(frame) == stack' = Append(stack, frame)

(* A new component is the last of all; comps of a type are its sublist.    *)
Open(type) ==
    /\ comps' = Append(comps, Comp(type))
    /\ Push([comp |-> Len(comps) + 1, tz |-> None])

(* A line without a colon.                                                 *)
ical_line_fails ==
    /\ Reading
    /\ \E line \in Line(None) : text' = Append(text, line)
    /\ status' = "error"
    /\ UNCHANGED <<alphabet, first, comps, stack>>

(* The text starts with BEGIN:VCALENDAR.                                   *)
ical_parse ==
    /\ Reading /\ text = <<>>
    /\ \E line \in alphabet.lines \ Line(None) :
       /\ Take(line)
       /\ IF Name(line) = "BEGIN" /\ Val(line) = "VCALENDAR"
          THEN Open("VCALENDAR") /\ UNCHANGED status
          ELSE status' = "error" /\ UNCHANGED <<comps, stack>>
    /\ UNCHANGED alphabet

(* BEGIN of a component, whatever it is in.                                *)
ical_parsecomp ==
    /\ InComp
    /\ \E line \in Line("BEGIN") :
       Val(line) \in icaltypes /\ Take(line) /\ Open(Val(line))
    /\ UNCHANGED <<alphabet, status>>

LastZone == LET zones == {i \in DOMAIN comps : comps[i].type = "VTIMEZONE"} IN
            IF zones = {} THEN None ELSE CHOOSE i \in zones : \A k \in zones : k <= i

(* BEGIN of DAYLIGHT or STANDARD, in any component: it belongs to the      *)
(* time zone that began last.                                              *)
ical_parsetz ==
    /\ InComp
    /\ \E line \in Line("BEGIN") :
       /\ Val(line) \in icaltztypes /\ Take(line)
       /\ IF LastZone = None
          THEN status' = "error" /\ UNCHANGED <<comps, stack>>
          ELSE /\ comps' = [comps EXCEPT ![LastZone].tzs = Append(@, Tz(Val(line)))]
               /\ Push([comp |-> LastZone, tz |-> Len(comps[LastZone].tzs) + 1])
               /\ UNCHANGED status
    /\ UNCHANGED alphabet

(* What this frame's END line says.                                        *)
TypeOf(frame) == IF frame.tz = None THEN comps[frame.comp].type
                 ELSE comps[frame.comp].tzs[frame.tz].type

(* Lines without effect: unknown properties and components, an END that    *)
(* does not match, a BEGIN inside DAYLIGHT or STANDARD.                     *)
Ignored(line) ==
    CASE Name(line) = "BEGIN" ->
            Top.tz # None \/ Val(line) \notin icaltypes \cup icaltztypes
      [] Name(line) = "END" -> Val(line) # TypeOf(Top)
      [] OTHER -> Name(line) \notin IF Top.tz = None THEN Attributes ELSE TzAttributes

Ignore ==
    /\ Reading /\ stack # <<>>
    /\ \E line \in alphabet.lines \ Line(None) : Ignored(line) /\ Take(line)
    /\ UNCHANGED <<alphabet, comps, stack, status>>

comp_attribute_OfLast ==
    /\ InComp
    /\ \E line \in alphabet.lines : Name(line) \in Attributes /\
       LET v == CompValue(line, Last(comps).attr[Name(line)]) IN
       /\ Take(line)
       /\ IF v = Bad THEN status' = "error" /\ UNCHANGED comps
          ELSE /\ comps' = [comps EXCEPT ![Len(comps)].attr[Name(line)] = v]
               /\ UNCHANGED status
    /\ UNCHANGED <<alphabet, stack>>

comp_attribute ==
    /\ InComp
    /\ \E line \in alphabet.lines : Name(line) \in Attributes /\
       LET v == CompValue(line, comps[Top.comp].attr[Name(line)]) IN
       /\ IF Name(line) = "DURATION" THEN TakeCut(line, ical_duration(Val(line)).nul)
                                    ELSE Take(line)
       /\ IF v = Bad THEN status' = "error" /\ UNCHANGED comps
          ELSE /\ comps' = [comps EXCEPT ![Top.comp].attr[Name(line)] = v]
               /\ UNCHANGED status
    /\ UNCHANGED <<alphabet, stack>>

tz_attribute ==
    /\ InTz
    /\ \E line \in alphabet.lines : Name(line) \in TzAttributes /\
       LET v == TzValue(line, comps[Top.comp].tzs[Top.tz].attr[Name(line)]) IN
       /\ Take(line)
       /\ IF v = Bad THEN status' = "error" /\ UNCHANGED comps
          ELSE /\ comps' = [comps EXCEPT ![Top.comp].tzs[Top.tz].attr[Name(line)] = v]
               /\ UNCHANGED status
    /\ UNCHANGED <<alphabet, stack>>

(* The matching END: the checks, then back to the caller; ical_postparse   *)
(* after the outermost.                                                    *)
Return ==
    /\ Reading /\ stack # <<>>
    /\ \E line \in Line("END") : Val(line) = TypeOf(Top) /\ Take(line)
    /\ stack' = Front(stack)
    /\ status' = IF ~FrameEnds(Top, comps) THEN "error"
                 ELSE IF Len(stack) > 1 THEN "reading"
                 ELSE IF ical_postparse(comps) THEN "ok" ELSE "error"
    /\ UNCHANGED <<alphabet, comps>>

EndOfText_InnermostOnly ==
    /\ status = "reading"
    /\ stack' = <<>>
    /\ status' = IF stack # <<>> /\ FrameEnds(Top, comps) /\ ical_postparse(comps)
                 THEN "ok" ELSE "error"
    /\ UNCHANGED <<alphabet, text, first, comps>>

(* The text ends: so does every component in progress.                     *)
EndOfText ==
    /\ status = "reading"
    /\ stack' = <<>>
    /\ status' = IF /\ stack # <<>>
                    /\ \A k \in DOMAIN stack : FrameEnds(stack[k], comps)
                    /\ ical_postparse(comps)
                 THEN "ok" ELSE "error"
    /\ UNCHANGED <<alphabet, text, first, comps>>

ICalNext ==
    \/ ical_line_fails \/ ical_parse \/ ical_parsecomp \/ ical_parsetz
    \/ Ignore \/ comp_attribute \/ tz_attribute \/ Return \/ EndOfText

ICalSpec == ICalInit /\ [][ICalNext]_icalvars

-----------------------------------------------------------------------------
(* What a text says, without a parser's state: a line belongs to the last  *)
(* component begun before it and not ended before it.                      *)

Level(k) == Cardinality({i \in 1 .. k : Name(text[i]) = "BEGIN"})
            - Cardinality({i \in 1 .. k : Name(text[i]) = "END"})
LastOf(S) == CHOOSE b \in S : \A c \in S : c <= b
Owner(k) ==
    LET level == Level(k - 1)
        begun == {b \in 1 .. k - 1 : Name(text[b]) = "BEGIN"}
    IN LastOf({b \in begun : Level(b) = level})

(* Every END matches, every component is a known one, and only DAYLIGHT    *)
(* and STANDARD are begun in a time zone.                                  *)
WellNested ==
    /\ text # <<>> /\ text[1] = <<"BEGIN", <<>>, "VCALENDAR">>
    /\ \A k \in 2 .. Len(text) :
       /\ Name(text[k]) # None /\ Level(k - 1) > 0
       /\ Name(text[k]) = "END" => Val(text[k]) = Val(text[Owner(k)])
       /\ Name(text[k]) = "BEGIN" =>
             Val(text[k]) \in CASE Val(text[Owner(k)]) = "VTIMEZONE" -> icaltztypes
                                [] Val(text[Owner(k)]) \in icaltztypes -> {}
                                [] OTHER -> icaltypes

InOrder(S) == SetToSortSeq(S, LAMBDA i, k : i < k)
Begins(b, types) == {k \in DOMAIN text : /\ Name(text[k]) = "BEGIN" /\ Val(text[k]) \in types
                                         /\ b = None \/ (k > 1 /\ Owner(k) = b)}
Lines(b, name) == {k \in b + 1 .. Len(text) : Name(text[k]) = name /\ Owner(k) = b}
IsTz(b) == Val(text[b]) \in icaltztypes

(* The value of a component's attribute: that of its last line; rules add  *)
(* up.                                                                     *)
ValueAt(b, k, old) == IF IsTz(b) THEN TzValue(text[k], old) ELSE CompValue(text[k], old)

AttrOf(b, a, unset) ==
    LET lines == InOrder(Lines(b, a))
        Then(old, k) == IF old = Bad THEN Bad ELSE ValueAt(b, k, old)
    IN FoldLeft(Then, unset, lines)

AttrsOf(b, unset) == [a \in DOMAIN unset |-> AttrOf(b, a, unset[a])]

TzOf(b)   == [type |-> Val(text[b]), attr |-> AttrsOf(b, Tz(Val(text[b])).attr)]
CompOf(b) ==
    LET zones == InOrder(Begins(b, icaltztypes)) IN
    [type |-> Val(text[b]), attr |-> AttrsOf(b, Comp(Val(text[b])).attr),
     tzs |-> [i \in DOMAIN zones |-> TzOf(zones[i])]]

Components == LET bs == InOrder(Begins(None, icaltypes)) IN
              [i \in DOMAIN bs |-> CompOf(bs[i])]

(* Of a well nested text, in whatever order its lines come, the parser     *)
(* holds for each component exactly what the lines that belong to it say   *)
(* (ical_parsecomp, ical_parsetz).                                         *)
ReadAsWritten == status = "ok" /\ WellNested => comps = Components

(* The types that an UNTIL may have beside the DTSTART at line k: that     *)
(* DTSTART's own; UTC instead, if its line names a zone; in a DAYLIGHT or  *)
(* STANDARD, UTC as well, once an offset is not zero.  (The comment at     *)
(* ical.c:1180 would have UTC instead there too: the code takes both.)     *)
Shifted(b) == \E name \in {"TZOFFSETFROM", "TZOFFSETTO"} :
    LET lines == Lines(b, name) IN
    lines # {} /\ ical_utc_offs(Val(text[LastOf(lines)])) # 0
UntilTypes(b, k) ==
    LET own   == {ical_datetime(Val(text[k])).type}
        zoned == \E q \in ToSet(Param(text[k])) : q[1] = "TZID" /\ q[2] # ""
    IN IF IsTz(b) THEN own \cup (IF Shifted(b) THEN {"DATETIMEUTC"} ELSE {})
       ELSE IF zoned THEN {"DATETIMEUTC"} ELSE own

UntilIsRight(b, until) ==
    LET starts == Lines(b, "DTSTART") IN
    until = None \/ starts = {} \/ until.type \in UntilTypes(b, LastOf(starts))

(* What a text must satisfy: values are well formed, a component is        *)
(* complete, an UNTIL has a type that the DTSTART beside it allows, and    *)
(* every zone named is defined somewhere.                                  *)
Faultless ==
    LET Sound(b, attr) == /\ \A a \in DOMAIN attr : attr[a] # Bad
                          /\ UntilIsRight(b, attr.RRULE.until) IN
    /\ \A b \in Begins(None, icaltypes) :
       LET c == CompOf(b) IN Sound(b, c.attr) /\ Complete(c)
    /\ \A b \in Begins(None, icaltztypes) : Sound(b, TzOf(b).attr)
    /\ ical_postparse(Components)

(* The verdict on a well nested text is by what it says, not by the order  *)
(* it says it in (RFC 5545 "does not impose ordering constraints",         *)
(* ical_postparse): it is accepted exactly if it is faultless.             *)
VerdictByContent == status # "reading" /\ WellNested => (status = "ok" <=> Faultless)

(* A DURATION whose sign, if any, comes after the P is read as what it     *)
(* says: its sign and its numbers.  One whose sign comes before the P, as  *)
(* RFC 2445 4.3.6 has it, which ical_duration names, is refused.           *)
Amounts == {<<>>, <<"1">>, <<"2", "0">>}
Marks   == {"", "+", "-"}
Mark(m) == IF m = "" THEN <<>> ELSE <<m>>
DurationText(mark, num) ==
    LET Part(u) == IF num[u] = <<>> THEN <<>> ELSE Append(num[u], u)
        time    == Part("H") \o Part("M") \o Part("S")
    IN <<"P">> \o Mark(mark) \o Part("W") \o Part("D")
       \o (IF time = <<>> THEN <<>> ELSE <<"T">> \o time)
Numbers == [Units -> Amounts] \ {[u \in Units |-> <<>>]}
DurationSaid(mark, num) == [sign |-> IF mark = "-" THEN -1 ELSE 1, num |-> num]
SignedFirst(mark, num) == Mark(mark) \o DurationText("", num)

(* A duration that is read is no failure.                                  *)
ASSUME BadAssumption == \A mark \in Marks, num \in Numbers : Bad # DurationSaid(mark, num)

DurationsRead ==
    stack # <<>> /\ Top.tz = None /\ Name(Last(text)) = "DURATION" =>
    \A mark \in Marks, num \in Numbers :
       /\ DurationText(mark, num) = Val(Last(text)) =>
             status # "error" /\ comps[Top.comp].attr.DURATION = DurationSaid(mark, num)
       /\ mark # "" /\ SignedFirst(mark, num) = Val(Last(text)) => status = "error"

(* "Prints an iCalendar p as parsed with ical_parse(3)" (ical_print.3): the *)
(* nodes still hold the lines as they were read.                           *)
PrintedAsParsed == status = "ok" => first = text
=============================================================================
