-------------------------------- MODULE Conf --------------------------------
(***************************************************************************)
(* The configuration file, read line by line by conf_read.  A line is a    *)
(* sequence of characters, the keywords being one each; "nl" ends every    *)
(* line but the last of a file without a final newline.                    *)
(***************************************************************************)
EXTENDS Naturals, Sequences, SequencesExt

CONSTANTS
    Files,    \* what files are written with: [lines, max]
    NoValue   \* logfile not set; no key

VARIABLES
    file,     \* what this one is written with
    read,     \* history: the lines read
    logfile, verbose,  \* struct conf
    verdict   \* "reading", then "success", as conf_read returns

confvars == <<file, read, logfile, verbose, verdict>>

-----------------------------------------------------------------------------
Blank == {"sp", "nl"}
Trimmed_Left(s) ==
    LET ink == {i \in DOMAIN s : s[i] \notin Blank} IN
    IF ink = {} THEN <<>> ELSE SubSeq(s, CHOOSE i \in ink : \A k \in ink : i <= k, Len(s))

Trimmed(s) ==
    LET ink == {i \in DOMAIN s : s[i] \notin Blank} IN
    IF ink = {} THEN <<>>
    ELSE SubSeq(s, CHOOSE i \in ink : \A k \in ink : i <= k,
                   CHOOSE i \in ink : \A k \in ink : k <= i)

(* Everything after the first hash without a backslash is cut.  A hash     *)
(* with one is moved over it with the rest of the line, but not its NUL:   *)
(* the last character of the line then stands there twice.                 *)
Uncomment(line) ==
    LET See(s, c) ==
            IF s.cut THEN s
            ELSE IF c # "#" THEN [s EXCEPT !.out = Append(@, c)]
            ELSE IF s.out # <<>> /\ Last(s.out) = "\\"
            THEN [s EXCEPT !.out = Append(Front(@), "#"), !.moved = @ + 1]
            ELSE [s EXCEPT !.cut = TRUE]
        seen == FoldLeft(See, [out |-> <<>>, cut |-> FALSE, moved |-> 0], line)
    IN FoldLeft(See, seen, [i \in 1 .. seen.moved |-> Last(line)]).out

(* The key and the value of a line that is not blank; a line without "="   *)
(* or without a key has neither.                                           *)
conf_parse_keyval(line) ==
    LET eq  == SelectInSeq(line, LAMBDA c : c = "=")
        key == Trimmed(SubSeq(line, 1, eq - 1))
    IN IF eq = 0 \/ key = <<>> THEN [key |-> NoValue, val |-> <<>>]
       ELSE [key |-> key, val |-> Trimmed(SubSeq(line, eq + 1, Len(line)))]

(* strtonum, from 0 to 10.                                                 *)
Numerals == [v \in {<<"0">>, <<"3">>, <<"1", "0">>} |->
                CASE v = <<"0">> -> 0 [] v = <<"3">> -> 3 [] v = <<"1", "0">> -> 10]

Set(key, val) ==
    CASE key = <<"logfile">> -> logfile' = val /\ UNCHANGED <<verbose, verdict>>
      [] key = <<"debug">> /\ val \in DOMAIN Numerals ->
            verbose' = Numerals[val] /\ UNCHANGED <<logfile, verdict>>
      [] key = <<"debug">> /\ val \notin DOMAIN Numerals ->
            verbose' = 0 /\ verdict' = "success" /\ UNCHANGED logfile
      [] OTHER -> verdict' = "success" /\ UNCHANGED <<logfile, verbose>>

(* A line that cannot be used ends the reading, and is no failure.         *)
ReadLine ==
    /\ verdict = "reading" /\ Len(read) < file.max
    /\ read # <<>> => Last(Last(read)) = "nl"
    /\ \E line \in file.lines :
       LET text == Trimmed(Uncomment(line))  kv == conf_parse_keyval(text) IN
       /\ read' = Append(read, line)
       /\ IF text = <<>> \/ (kv.key # NoValue /\ kv.val = <<>>)
          THEN UNCHANGED <<logfile, verbose, verdict>>
          ELSE Set(kv.key, kv.val)
    /\ UNCHANGED file

EndOfFile ==
    /\ verdict = "reading"
    /\ verdict' = "success"
    /\ UNCHANGED <<file, read, logfile, verbose>>

ConfInit ==
    /\ file \in Files
    /\ read = <<>> /\ logfile = NoValue /\ verbose = 0 /\ verdict = "reading"

ConfNext == ReadLine \/ EndOfFile

-----------------------------------------------------------------------------
(* A line as the manual has it written: blanks around key and value, the   *)
(* hashes of the value escaped, maybe a comment.                           *)
Escaped(val) == FoldLeft(LAMBDA s, c : s \o (IF c = "#" THEN <<"\\", "#">> ELSE <<c>>),
                         <<>>, val)
Written(s) == s.before \o s.key \o s.around \o <<"=">> \o s.around \o Escaped(s.val)
              \o s.after \o <<"nl">>

Blanks == {<<>>, <<"sp">>}
Comments == {<<>>, <<"sp", "#", "a">>, <<"#", "\\", "#">>}
LogfileLines ==
    [key : {<<"logfile">>}, before : Blanks, around : Blanks, after : Comments,
     val : {<<"a">>, <<"#", "a">>, <<"a", "#", "#", "a">>, <<"a", "=", "#">>,
            <<"a", "sp", "a">>, <<"\\", "a">>}]
DebugLines == [key : {<<"debug">>}, before : Blanks, around : Blanks, after : Comments,
               val : DOMAIN Numerals]

(* "Everything after the first unescaped hash" is stripped, "un-escaping   *)
(* along the way" (conf_read): a setting is read as it was meant, whatever *)
(* blanks, escapes and comments are on its line, and touches no other.     *)
SettingsAsWritten ==
    [][read' # read =>
       \A s \in LogfileLines \cup DebugLines :
          Last(read') = Written(s) =>
          /\ verdict' = "reading"
          /\ logfile' = IF s.key = <<"logfile">> THEN s.val ELSE logfile
          /\ verbose' = IF s.key = <<"debug">> THEN Numerals[s.val] ELSE verbose]_confvars
=============================================================================
