------------------------------ MODULE ICalLines -----------------------------
(***************************************************************************)
(* The lines of an iCalendar: icalnode_print writes a node folded into     *)
(* physical lines, ical_line joins them and takes the line apart.          *)
(*                                                                         *)
(* Octets are told apart as far as the two do: "2", "3" and "4" lead a     *)
(* character of so many octets, "t" may follow one ("t" in general for the *)
(* ranges that the code allows after each lead), "x" is in no character;   *)
(* every other octet is printable ASCII, or one of "sp", "cr", "lf".       *)
(***************************************************************************)
EXTENDS Naturals, Sequences, SequencesExt

CONSTANTS
    Width,  \* octets of a physical line (74)
    Nodes,  \* the nodes printed: name, param (Absent if none), val
    Absent

ASSUME WidthAssumption == Width \in Nat /\ Width >= 6

Octets == STRING \cup {"2", "3", "4", "t", "x", "sp", "tab", "cr", "lf", ":", ";"}
Without(stops) == {s \in Seq(Octets) : \A i \in DOMAIN s : s[i] \notin stops}

(* What ical_line may have returned.                                       *)
ASSUME NodesAssumption ==
    Nodes \subseteq [name : Without({"lf", ":", ";"}),
                     param : Without({"lf", ":"}) \cup {Absent}, val : Without({"lf"})]

VARIABLES
    node,  \* the node
    part,  \* which of its parts is being put
    at,    \* the next octet of this part
    col,   \* octets in this physical line
    out    \* octets written

linevars == <<node, part, at, col, out>>

(* icalnode_print: what is put one after the other; a delimiter goes by    *)
(* icalnode_putchar, a text by icalnode_puts.                              *)
Parts == IF node.param = Absent THEN <<node.name, <<":">>, node.val>>
         ELSE <<node.name, <<";">>, node.param, <<":">>, node.val>>
Delimiter == part % 2 = 0
Here == Parts[part]

(* Octets of the character at position i.                                  *)
Unit(s, i) ==
    LET Leads(lead, n) ==
            /\ s[i] = lead /\ i + n - 1 <= Len(s)
            /\ \A k \in i + 1 .. i + n - 1 : s[k] = "t"
    IN CASE Leads("2", 2) -> 2 [] Leads("3", 3) -> 3 [] Leads("4", 4) -> 4
         [] OTHER -> 1

Fold_NoBlank == <<"cr", "lf">>
Fold == <<"cr", "lf", "sp">>

Put(octets, fold) ==
    /\ out' = out \o (IF fold THEN Fold ELSE <<>>) \o octets
    /\ col' = (IF fold THEN 1 ELSE col) + Len(octets)

icalnode_puts_Octets ==
    /\ part <= Len(Parts) /\ ~Delimiter /\ at <= Len(Here)
    /\ Put(<<Here[at]>>, col + 1 >= Width)
    /\ at' = at + 1
    /\ UNCHANGED <<node, part>>

icalnode_puts_Late ==
    /\ part <= Len(Parts) /\ ~Delimiter /\ at <= Len(Here)
    /\ LET n == Unit(Here, at) IN
       /\ Put(SubSeq(Here, at, at + n - 1), col >= Width)
       /\ at' = at + n
    /\ UNCHANGED <<node, part>>

(* One character of a text, on a new line if it would fill this one.       *)
icalnode_puts ==
    /\ part <= Len(Parts) /\ ~Delimiter /\ at <= Len(Here)
    /\ LET n == Unit(Here, at) IN
       /\ Put(SubSeq(Here, at, at + n - 1), col + n >= Width)
       /\ at' = at + n
    /\ UNCHANGED <<node, part>>

icalnode_putchar ==
    /\ part <= Len(Parts) /\ Delimiter /\ at = 1
    /\ Put(Here, col = Width)
    /\ at' = 2
    /\ UNCHANGED <<node, part>>

NextPart ==
    /\ part <= Len(Parts) /\ at > Len(Here)
    /\ part' = part + 1 /\ at' = 1
    /\ UNCHANGED <<node, col, out>>

Printed == part = Len(Parts) + 2

icalnode_print ==
    /\ part = Len(Parts) + 1
    /\ part' = part + 1 /\ out' = out \o <<"cr", "lf">> /\ col' = 0
    /\ UNCHANGED <<node, at>>

LinesInit ==
    /\ node \in Nodes
    /\ part = 1 /\ at = 1 /\ col = 0 /\ out = <<>>

LinesNext == icalnode_puts \/ icalnode_putchar \/ NextPart \/ icalnode_print

LinesSpec == LinesInit /\ [][LinesNext]_linevars

-----------------------------------------------------------------------------
(* ical_line, of a text that may fold with CRLF or LF, space or tab.       *)
Joined(s) ==
    LET n == Len(s)
        After(i) == i <= n /\ s[i] \in {"sp", "tab"}
        Rest[i \in 1 .. n + 4] ==
            IF i > n THEN <<>>
            ELSE IF s[i] = "lf" THEN IF After(i + 1) THEN Rest[i + 2] ELSE <<>>
            ELSE IF s[i] = "cr" /\ i < n /\ s[i + 1] = "lf"
                 THEN IF After(i + 2) THEN Rest[i + 3] ELSE <<>>
            ELSE <<s[i]>> \o Rest[i + 1]
    IN Rest[1]

FirstAt(s, c) == SelectInSeq(s, LAMBDA o : o = c)

(* The value starts after the first colon, the parameters at the first     *)
(* semicolon before it.                                                    *)
ical_line(s) ==
    LET line  == Joined(s)
        colon == FirstAt(line, ":")
        head  == SubSeq(line, 1, colon - 1)
        semi  == FirstAt(head, ";")
    IN IF colon = 0 THEN Absent
       ELSE [name  |-> IF semi = 0 THEN head ELSE SubSeq(head, 1, semi - 1),
             param |-> IF semi = 0 THEN Absent ELSE SubSeq(head, semi + 1, Len(head)),
             val   |-> SubSeq(line, colon + 1, Len(line))]

-----------------------------------------------------------------------------
(* What is printed is read as the same node, wherever the folds fall       *)
(* (icalnode_print, ical_line): beside a delimiter, a blank, a lone CR.    *)
PrintedIsRead == Printed => ical_line(out) = node

Ends == {i \in DOMAIN out : out[i] = "lf"}
Starts == {1} \cup {i + 1 : i \in Ends}
PhysicalLine(i) ==
    SubSeq(out, i, (CHOOSE e \in Ends : e >= i /\ \A d \in Ends : d >= i => e <= d) - 2)

(* No physical line is longer than Width octets (icalnode_puts,            *)
(* icalnode_putchar).                                                      *)
LinesFit == Printed => \A i \in Starts \ {Len(out) + 1} : Len(PhysicalLine(i)) <= Width

(* A text of whole characters.                                             *)
Whole(s) ==
    LET Rest[i \in 1 .. Len(s) + 1] ==
            \/ i > Len(s)
            \/ /\ s[i] \notin {"t", "x"} /\ (s[i] \in {"2", "3", "4"} => Unit(s, i) > 1)
               /\ Rest[i + Unit(s, i)]
    IN Rest[1]

(* Folding splits no character: if the node is text, so is each of its     *)
(* physical lines.  "We need to accept multi-byte characters and not break *)
(* them up" (icalnode_puts).                                               *)
CharactersWhole ==
    Printed /\ (\A p \in DOMAIN Parts : Whole(Parts[p])) =>
    \A i \in Starts \ {Len(out) + 1} : Whole(PhysicalLine(i))
=============================================================================
