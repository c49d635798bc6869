---------------------------- MODULE ParserProofs ----------------------------
(***************************************************************************)
(* The readers and writers of text, on texts of any length.                *)
(***************************************************************************)
EXTENDS ICalLines, ICal, CaldavParser, Conf, Integers, FiniteSetTheorems,
        WellFoundedInduction, TLAPS

-----------------------------------------------------------------------------
(* Induction over data: a set of numbers has a least.                      *)

LEMMA Least ==
  ASSUME NEW S \in SUBSET Nat, S # {}
  PROVE  \E m \in S : \A k \in S : m <= k
<1> DEFINE R == OpToRel(<, Nat)
<1>1. IsWellFoundedOn(R, Nat)
  BY NatLessThanWellFounded
<1>2. \A x, y \in Nat : x < y => <<x, y>> \in R
  BY DEF OpToRel
<1> HIDE DEF R
<1>3. \E x \in S : \A y \in S : ~ (<<y, x>> \in R)
  BY <1>1, WFMin
<1>4. PICK x \in S : \A y \in S : ~ (<<y, x>> \in R)
  BY <1>3
<1>5. \A y \in S : x \in Nat /\ y \in Nat /\ ~ (y < x)
  BY <1>2, <1>4, Zenon
<1>6. \A y \in S : x <= y
  BY <1>5
<1>7. QED
  BY <1>6

-----------------------------------------------------------------------------
(* Whole.                                                                  *)

WholeEq(s, f) ==
    f = [i \in 1 .. Len(s) + 1 |->
            \/ i > Len(s)
            \/ /\ s[i] \notin {"t", "x"} /\ (s[i] \in {"2", "3", "4"} => Unit(s, i) > 1)
               /\ f[i + Unit(s, i)]]
WholeFrom(s) == CHOOSE f : WholeEq(s, f)

LEMMA WholeIs == ASSUME NEW s PROVE Whole(s) <=> WholeFrom(s)[1]
BY Zenon DEF Whole, WholeFrom, WholeEq

-----------------------------------------------------------------------------
(* ICalLines.  A step of the printing loop writes a piece, maybe after a   *)
(* fold of three octets.                                                   *)

Size(o) == IF o = "2" THEN 2 ELSE IF o = "3" THEN 3 ELSE IF o = "4" THEN 4 ELSE 1

(* t is s, a fold of f octets and the piece u.                             *)
Grown(s, t, u, f) ==
    /\ f \in {0, 3} /\ t \in Seq(Octets)
    /\ Len(t) = Len(s) + f + Len(u)
    /\ \A i \in 1 .. Len(s) : t[i] = s[i]
    /\ f = 3 => /\ t[Len(s) + 1] = "cr" /\ t[Len(s) + 2] = "lf"
                /\ t[Len(s) + 3] = "sp"
    /\ \A j \in 1 .. Len(u) : t[Len(s) + f + j] = u[j]

LEMMA Octet ==
  /\ "cr" \in Octets /\ "lf" \in Octets /\ "sp" \in Octets
  /\ ":" \in Octets /\ ";" \in Octets
BY DEF Octets

LEMMA Tripled ==
  ASSUME NEW S, NEW a \in S, NEW b \in S, NEW c \in S
  PROVE  /\ <<a, b, c>> \in Seq(S) /\ Len(<<a, b, c>>) = 3
         /\ <<a, b, c>>[1] = a /\ <<a, b, c>>[2] = b /\ <<a, b, c>>[3] = c
OBVIOUS

LEMMA Chained ==
  ASSUME NEW S, NEW s \in Seq(S), NEW b \in Seq(S), NEW t, t = s \o b
  PROVE  /\ t \in Seq(S) /\ Len(t) = Len(s) + Len(b)
         /\ \A i \in 1 .. Len(s) : t[i] = s[i]
         /\ \A i \in 1 .. Len(b) : t[Len(s) + i] = b[i]
OBVIOUS

LEMMA ChainedTwice ==
  ASSUME NEW S, NEW s \in Seq(S), NEW c \in Seq(S), NEW u \in Seq(S),
         NEW sc, sc = s \o c, NEW t, t = sc \o u
  PROVE  /\ t \in Seq(S) /\ Len(t) = Len(s) + Len(c) + Len(u)
         /\ \A i \in 1 .. Len(s) : t[i] = s[i]
         /\ \A i \in 1 .. Len(c) : t[Len(s) + i] = c[i]
         /\ \A i \in 1 .. Len(u) : t[Len(s) + Len(c) + i] = u[i]
<1>0. /\ s \in Seq(S) /\ c \in Seq(S) /\ u \in Seq(S) /\ sc = s \o c /\ t = sc \o u
  OBVIOUS
<1>1. /\ sc \in Seq(S) /\ Len(sc) = Len(s) + Len(c)
      /\ \A i \in 1 .. Len(s) : sc[i] = s[i]
      /\ \A i \in 1 .. Len(c) : sc[Len(s) + i] = c[i]
  BY <1>0, Chained
<1>2. /\ t \in Seq(S) /\ Len(t) = Len(sc) + Len(u)
      /\ \A i \in 1 .. Len(sc) : t[i] = sc[i]
      /\ \A i \in 1 .. Len(u) : t[Len(sc) + i] = u[i]
  BY <1>0, <1>1, Chained
<1>5. QED
  BY <1>1, <1>2

LEMMA FoldIs == Fold \in Seq(Octets) /\ Len(Fold) = 3
                /\ Fold[1] = "cr" /\ Fold[2] = "lf" /\ Fold[3] = "sp"
BY Octet, Tripled, Zenon DEF Fold

LEMMA Growth ==
  ASSUME NEW s \in Seq(Octets), NEW u \in Seq(Octets)
  PROVE  /\ Grown(s, s \o <<>> \o u, u, 0)
         /\ Grown(s, s \o Fold \o u, u, 3)
<1>1. Grown(s, s \o <<>> \o u, u, 0)
  <2>1. s \o <<>> = s
    OBVIOUS
  <2>2. Grown(s, s \o u, u, 0)
    BY Chained DEF Grown
  <2>3. QED
    BY <2>1, <2>2, Zenon
<1>2. Grown(s, s \o Fold \o u, u, 3)
  <2>1. ASSUME NEW c \in Seq(Octets), Len(c) = 3, c[1] = "cr", c[2] = "lf", c[3] = "sp",
               NEW sc, sc = s \o c, NEW t, t = sc \o u
        PROVE  Grown(s, t, u, 3)
    <3>1. s \in Seq(Octets) /\ c \in Seq(Octets) /\ u \in Seq(Octets)
          /\ sc = s \o c /\ t = sc \o u
      BY <2>1
    <3>2. /\ t \in Seq(Octets) /\ Len(t) = Len(s) + Len(c) + Len(u)
          /\ \A i \in 1 .. Len(s) : t[i] = s[i]
          /\ \A i \in 1 .. Len(c) : t[Len(s) + i] = c[i]
          /\ \A i \in 1 .. Len(u) : t[Len(s) + Len(c) + i] = u[i]
      BY <3>1, ChainedTwice
    <3>3. QED
      BY <2>1, <3>2 DEF Grown
  <2>2. QED
    BY <2>1, FoldIs, Zenon
<1>3. QED
  BY <1>1, <1>2

(* What Unit finds at a position.                                          *)
LEMMA UnitIs ==
  ASSUME NEW s \in Seq(Octets), NEW i \in 1 .. Len(s)
  PROVE  /\ Unit(s, i) \in 1 .. 4 /\ i + Unit(s, i) - 1 <= Len(s)
         /\ \/ Unit(s, i) = 1
            \/ Unit(s, i) = Size(s[i])
         /\ \A k \in i + 1 .. i + Unit(s, i) - 1 : s[k] = "t"
<1> DEFINE Leads(lead, n) ==
      /\ s[i] = lead /\ i + n - 1 <= Len(s)
      /\ \A k \in i + 1 .. i + n - 1 : s[k] = "t"
<1>0. Unit(s, i) = CASE Leads("2", 2) -> 2 [] Leads("3", 3) -> 3 [] Leads("4", 4) -> 4
                     [] OTHER -> 1
  BY Zenon DEF Unit
<1>1. Leads("2", 2) => ~Leads("3", 3) /\ ~Leads("4", 4)
  OBVIOUS
<1>2. Leads("3", 3) => ~Leads("4", 4)
  OBVIOUS
<1>a. Leads("2", 2) => i + 1 <= Len(s) /\ s[i] = "2" /\ s[i + 1] = "t"
  OBVIOUS
<1>b. Leads("3", 3) => i + 2 <= Len(s) /\ s[i] = "3" /\ s[i + 1] = "t" /\ s[i + 2] = "t"
  OBVIOUS
<1>c. Leads("4", 4) => i + 3 <= Len(s) /\ s[i] = "4" /\ s[i + 1] = "t" /\ s[i + 2] = "t"
                       /\ s[i + 3] = "t"
  OBVIOUS
<1> HIDE DEF Leads
<1>3. CASE Leads("2", 2)
  <2>1. Unit(s, i) = 2
    BY <1>0, <1>1, <1>3, Zenon
  <2>2. QED
    BY <2>1, <1>a, <1>3 DEF Size
<1>4. CASE Leads("3", 3)
  <2>1. Unit(s, i) = 3
    BY <1>0, <1>1, <1>2, <1>4, Zenon
  <2>2. QED
    BY <2>1, <1>b, <1>4 DEF Size
<1>5. CASE Leads("4", 4)
  <2>1. Unit(s, i) = 4
    BY <1>0, <1>1, <1>2, <1>5, Zenon
  <2>2. QED
    BY <2>1, <1>c, <1>5 DEF Size
<1>6. CASE ~Leads("2", 2) /\ ~Leads("3", 3) /\ ~Leads("4", 4)
  <2>1. Unit(s, i) = 1
    BY <1>0, <1>6, Zenon
  <2>2. QED
    BY <2>1
<1>7. QED
  BY <1>3, <1>4, <1>5, <1>6

-----------------------------------------------------------------------------
(* Lines that fit: what the loop keeps of the octets s, with c of them in  *)
(* the last line.                                                          *)

Plain(s, i, k) == \A j \in i .. k : s[j] # "lf"
LastFits(s, c) ==
    \A i \in 1 .. Len(s) + 1 : Plain(s, i, Len(s)) => Len(s) + 1 - i <= c
OthersFit(s) ==
    \A e \in 1 .. Len(s) : s[e] = "lf" =>
       \A i \in 1 .. e : Plain(s, i, e - 1) => e - i - 1 <= Width
FitOK(s, c) == LastFits(s, c) /\ OthersFit(s)

(* A line ends with CRLF.                                                  *)
EndsOK(s) == \A e \in 1 .. Len(s) : s[e] = "lf" => e > 1 /\ s[e - 1] = "cr"

LEMMA LastFitsGrows ==
  ASSUME NEW s \in Seq(Octets), NEW t \in Seq(Octets), NEW u \in Seq(Octets),
         NEW f \in {0, 3}, Grown(s, t, u, f), NEW c \in Nat, LastFits(s, c)
  PROVE  LastFits(t, (IF f = 3 THEN 1 ELSE c) + Len(u))
<1> SUFFICES ASSUME NEW i \in 1 .. Len(t) + 1, Plain(t, i, Len(t))
             PROVE  Len(t) + 1 - i <= (IF f = 3 THEN 1 ELSE c) + Len(u)
  BY DEF LastFits
<1>1. Len(t) = Len(s) + f + Len(u) /\ Len(s) \in Nat /\ Len(u) \in Nat /\ Len(t) \in Nat
  BY DEF Grown
<1>2. CASE f = 3
  <2>1. t[Len(s) + 2] = "lf"
    BY <1>2 DEF Grown
  <2>2. Len(s) + 2 \notin i .. Len(t)
    BY <2>1 DEF Plain
  <2>3. i > Len(s) + 2
    BY <1>1, <1>2, <2>2
  <2>4. QED
    BY <1>1, <1>2, <2>3
<1>3. CASE f = 0
  <2>1. CASE i > Len(s)
    BY <1>1, <1>3, <2>1
  <2>2. CASE i <= Len(s)
    <3>1. \A j \in i .. Len(s) : t[j] = s[j] /\ t[j] # "lf"
      BY <1>1, <1>3 DEF Plain, Grown
    <3>2. Plain(s, i, Len(s))
      BY <3>1 DEF Plain
    <3>3. Len(s) + 1 - i <= c
      BY <3>2, <2>2, <1>1 DEF LastFits
    <3>4. QED
      BY <3>3, <1>1, <1>3
  <2>3. QED
    BY <2>1, <2>2, <1>1
<1>4. QED
  BY <1>2, <1>3

(* The only line that can end is the last, with the fold.                  *)
LEMMA OthersFitGrow ==
  ASSUME NEW s \in Seq(Octets), NEW t \in Seq(Octets), NEW u \in Seq(Octets),
         NEW f \in {0, 3}, Grown(s, t, u, f), Plain(u, 1, Len(u)),
         NEW c \in 0 .. Width, FitOK(s, c)
  PROVE  OthersFit(t)
<1> SUFFICES ASSUME NEW e \in 1 .. Len(t), t[e] = "lf",
                    NEW i \in 1 .. e, Plain(t, i, e - 1)
             PROVE  e - i - 1 <= Width
  BY DEF OthersFit
<1>1. /\ Len(t) = Len(s) + f + Len(u) /\ Len(s) \in Nat /\ Len(u) \in Nat /\ Len(t) \in Nat
      /\ Width \in Nat
  BY WidthAssumption DEF Grown
<1>2. e <= Len(s) + f
  <2> SUFFICES ASSUME e > Len(s) + f PROVE FALSE
    BY <1>1
  <2>1. e - Len(s) - f \in 1 .. Len(u)
    BY <1>1
  <2>2. t[Len(s) + f + (e - Len(s) - f)] = u[e - Len(s) - f]
    BY <2>1 DEF Grown
  <2>3. t[e] = u[e - Len(s) - f]
    <3>1. \A l, m, o \in Nat : l + m + (o - l - m) = o
      OBVIOUS
    <3>2. Len(s) \in Nat /\ f \in Nat /\ e \in Nat
      BY <1>1
    <3>3. QED
      BY <2>2, <3>1, <3>2, Zenon
  <2>4. QED
    BY <2>1, <2>3 DEF Plain
<1>3. CASE e <= Len(s)
  <2>1. s[e] = "lf"
    BY <1>1, <1>3 DEF Grown
  <2>2. \A j \in i .. e - 1 : t[j] = s[j] /\ t[j] # "lf"
    BY <1>1, <1>3 DEF Plain, Grown
  <2>3. Plain(s, i, e - 1)
    BY <2>2 DEF Plain
  <2>4. e \in 1 .. Len(s)
    BY <1>1, <1>3
  <2>5. QED
    BY <2>1, <2>3, <2>4 DEF FitOK, OthersFit
<1>4. CASE e > Len(s)
  <2>1. f = 3 /\ t[Len(s) + 1] = "cr" /\ t[Len(s) + 3] = "sp"
    BY <1>1, <1>2, <1>4 DEF Grown
  <2>2. e = Len(s) + 2
    <3>1. \A n, m \in Nat : m <= n + 3 /\ m > n => m \in {n + 1, n + 2, n + 3}
      OBVIOUS
    <3>2. e \in Nat /\ Len(s) \in Nat /\ e <= Len(s) + 3 /\ e > Len(s)
      BY <1>1, <1>2, <1>4, <2>1
    <3>3. "cr" # "lf" /\ "sp" # "lf"
      OBVIOUS
    <3>4. QED
      BY <2>1, <3>1, <3>2, <3>3, Zenon
  <2>3. CASE i > Len(s)
    BY <1>1, <2>2, <2>3
  <2>4. CASE i <= Len(s)
    <3>1. \A j \in i .. Len(s) : t[j] = s[j] /\ t[j] # "lf"
      BY <1>1, <2>2 DEF Plain, Grown
    <3>2. Plain(s, i, Len(s))
      BY <3>1 DEF Plain
    <3>3. Len(s) + 1 - i <= c
      BY <3>2, <2>4, <1>1 DEF FitOK, LastFits
    <3>4. QED
      BY <3>3, <1>1, <2>2
  <2>5. QED
    BY <2>3, <2>4, <1>1
<1>5. QED
  BY <1>3, <1>4, <1>1

LEMMA EndsGrow ==
  ASSUME NEW s \in Seq(Octets), NEW t \in Seq(Octets), NEW u \in Seq(Octets),
         NEW f \in {0, 3}, Grown(s, t, u, f), Plain(u, 1, Len(u)), EndsOK(s)
  PROVE  EndsOK(t)
<1> SUFFICES ASSUME NEW e \in 1 .. Len(t), t[e] = "lf"
             PROVE  e > 1 /\ t[e - 1] = "cr"
  BY DEF EndsOK
<1>1. /\ Len(t) = Len(s) + f + Len(u) /\ Len(s) \in Nat /\ Len(u) \in Nat /\ Len(t) \in Nat
  BY DEF Grown
<1>2. e <= Len(s) + f
  <2> SUFFICES ASSUME e > Len(s) + f PROVE FALSE
    BY <1>1
  <2>1. e - Len(s) - f \in 1 .. Len(u)
    BY <1>1
  <2>2. t[Len(s) + f + (e - Len(s) - f)] = u[e - Len(s) - f]
    BY <2>1 DEF Grown
  <2>3. t[e] = u[e - Len(s) - f]
    <3>1. \A l, m, o \in Nat : l + m + (o - l - m) = o
      OBVIOUS
    <3>2. Len(s) \in Nat /\ f \in Nat /\ e \in Nat
      BY <1>1
    <3>3. QED
      BY <2>2, <3>1, <3>2, Zenon
  <2>4. QED
    BY <2>1, <2>3 DEF Plain
<1>3. CASE e <= Len(s)
  <2>1. e \in 1 .. Len(s) /\ t[e] = s[e]
    BY <1>1, <1>3 DEF Grown
  <2>2. e > 1 /\ s[e - 1] = "cr"
    BY <2>1 DEF EndsOK
  <2>3. e - 1 \in 1 .. Len(s)
    BY <2>1, <2>2, <1>1
  <2>4. QED
    BY <2>2, <2>3 DEF Grown
<1>4. CASE e > Len(s)
  <2>1. f = 3 /\ t[Len(s) + 1] = "cr" /\ t[Len(s) + 3] = "sp"
    BY <1>1, <1>2, <1>4 DEF Grown
  <2>2. e = Len(s) + 2
    <3>1. \A n, m \in Nat : m <= n + 3 /\ m > n => m \in {n + 1, n + 2, n + 3}
      OBVIOUS
    <3>2. e \in Nat /\ Len(s) \in Nat /\ e <= Len(s) + 3 /\ e > Len(s)
      BY <1>1, <1>2, <1>4, <2>1
    <3>3. "cr" # "lf" /\ "sp" # "lf"
      OBVIOUS
    <3>4. QED
      BY <2>1, <3>1, <3>2, <3>3, Zenon
  <2>3. QED
    BY <2>1, <2>2, <1>1
<1>5. QED
  BY <1>3, <1>4, <1>1

(* The octets after s that end the last line.                              *)
Ended(s, t) ==
    /\ t \in Seq(Octets) /\ Len(t) = Len(s) + 2
    /\ \A i \in 1 .. Len(s) : t[i] = s[i]
    /\ t[Len(s) + 1] = "cr" /\ t[Len(s) + 2] = "lf"

LEMMA End ==
  ASSUME NEW s \in Seq(Octets)
  PROVE  Ended(s, s \o <<"cr", "lf">>)
<1>1. ASSUME NEW c \in Seq(Octets), Len(c) = 2, c[1] = "cr", c[2] = "lf",
             NEW t, t = s \o c
      PROVE  Ended(s, t)
  <2>1. s \in Seq(Octets) /\ c \in Seq(Octets) /\ t = s \o c
    BY <1>1
  <2>2. /\ t \in Seq(Octets) /\ Len(t) = Len(s) + Len(c)
        /\ \A i \in 1 .. Len(s) : t[i] = s[i]
        /\ \A i \in 1 .. Len(c) : t[Len(s) + i] = c[i]
    BY <2>1, Chained
  <2>3. QED
    BY <1>1, <2>2 DEF Ended
<1>2. \A S : \A a, b \in S : <<a, b>> \in Seq(S) /\ Len(<<a, b>>) = 2
                             /\ <<a, b>>[1] = a /\ <<a, b>>[2] = b
  OBVIOUS
<1>3. /\ <<"cr", "lf">> \in Seq(Octets) /\ Len(<<"cr", "lf">>) = 2
      /\ <<"cr", "lf">>[1] = "cr" /\ <<"cr", "lf">>[2] = "lf"
  BY <1>2, Octet, Zenon
<1>4. QED
  BY <1>1, <1>3, Zenon

LEMMA FitEnds ==
  ASSUME NEW s \in Seq(Octets), NEW t \in Seq(Octets), Ended(s, t),
         NEW c \in 0 .. Width, FitOK(s, c)
  PROVE  FitOK(t, 0)
<1>1. /\ Len(t) = Len(s) + 2 /\ Len(s) \in Nat /\ Len(t) \in Nat /\ Width \in Nat
  BY WidthAssumption DEF Ended
<1>2. LastFits(t, 0)
  <2> SUFFICES ASSUME NEW i \in 1 .. Len(t) + 1, Plain(t, i, Len(t))
               PROVE  Len(t) + 1 - i <= 0
    BY DEF LastFits
  <2>1. t[Len(t)] = "lf"
    BY <1>1 DEF Ended
  <2>2. Len(t) \notin i .. Len(t)
    BY <2>1 DEF Plain
  <2>3. QED
    BY <1>1, <2>2
<1>3. OthersFit(t)
  <2> SUFFICES ASSUME NEW e \in 1 .. Len(t), t[e] = "lf",
                      NEW i \in 1 .. e, Plain(t, i, e - 1)
               PROVE  e - i - 1 <= Width
    BY DEF OthersFit
  <2>1. \A j \in 1 .. Len(s) : t[j] = s[j]
    BY DEF Ended
  <2>2. CASE e <= Len(s)
    <3>1. s[e] = "lf" /\ e \in 1 .. Len(s)
      BY <2>1, <2>2, <1>1
    <3>2. \A j \in i .. e - 1 : s[j] # "lf"
      BY <2>1, <2>2, <1>1 DEF Plain
    <3>3. QED
      BY <3>1, <3>2 DEF FitOK, OthersFit, Plain
  <2>3. CASE e > Len(s)
    <3>1. e # Len(s) + 1
      BY DEF Ended
    <3>2. e = Len(s) + 2
      BY <1>1, <2>3, <3>1
    <3>3. CASE i > Len(s)
      BY <1>1, <3>2, <3>3
    <3>4. CASE i <= Len(s)
      <4>1. \A j \in i .. Len(s) : s[j] # "lf"
        BY <2>1, <1>1, <3>2 DEF Plain
      <4>2. Len(s) + 1 - i <= c
        <5>1. Plain(s, i, Len(s))
          BY <4>1, Zenon DEF Plain
        <5>2. i \in 1 .. Len(s) + 1
          BY <3>4, <1>1
        <5>3. QED
          BY <5>1, <5>2, Zenon DEF FitOK, LastFits
      <4>3. QED
        BY <4>2, <3>2, <1>1
    <3>5. QED
      BY <3>3, <3>4, <1>1
  <2>4. QED
    BY <2>2, <2>3, <1>1
<1>4. QED
  BY <1>2, <1>3 DEF FitOK

LEMMA EndsEnd ==
  ASSUME NEW s \in Seq(Octets), NEW t \in Seq(Octets), Ended(s, t), EndsOK(s)
  PROVE  EndsOK(t)
<1> SUFFICES ASSUME NEW e \in 1 .. Len(t), t[e] = "lf"
             PROVE  e > 1 /\ t[e - 1] = "cr"
  BY DEF EndsOK
<1>1. /\ Len(t) = Len(s) + 2 /\ Len(s) \in Nat /\ Len(t) \in Nat
      /\ \A i \in 1 .. Len(s) : t[i] = s[i]
      /\ t[Len(s) + 1] = "cr" /\ t[Len(s) + 2] = "lf"
  BY DEF Ended
<1>2. CASE e <= Len(s)
  <2>1. e \in 1 .. Len(s) /\ t[e] = s[e]
    BY <1>1, <1>2
  <2>2. e > 1 /\ s[e - 1] = "cr"
    BY <2>1 DEF EndsOK
  <2>3. e - 1 \in 1 .. Len(s)
    BY <2>1, <2>2, <1>1
  <2>4. QED
    BY <2>2, <2>3, <1>1
<1>3. CASE e > Len(s)
  <2>1. e # Len(s) + 1
    BY <1>1
  <2>2. e = Len(s) + 2
    BY <1>1, <1>3, <2>1
  <2>3. QED
    BY <2>2, <1>1
<1>4. QED
  BY <1>2, <1>3, <1>1

-----------------------------------------------------------------------------
(* Characters kept whole: every octet of s that continues none begins one. *)

Char(s, i) ==
    /\ s[i] # "x" /\ i + Size(s[i]) - 1 <= Len(s)
    /\ \A k \in i + 1 .. i + Size(s[i]) - 1 : s[k] = "t"
    /\ i + Size(s[i]) <= Len(s) => s[i + Size(s[i])] # "t"
CutOK(s) ==
    /\ Len(s) > 0 => s[1] # "t"
    /\ \A i \in 1 .. Len(s) : s[i] # "t" => Char(s, i)

(* One whole character.                                                    *)
Single(u) ==
    /\ Len(u) > 0 /\ Len(u) = Size(u[1]) /\ u[1] \notin {"t", "x"}
    /\ \A k \in 2 .. Len(u) : u[k] = "t"

LEMMA Sizes ==
  /\ \A o : Size(o) \in 1 .. 4
  /\ Size("cr") = 1 /\ Size("lf") = 1 /\ Size("sp") = 1 /\ Size(":") = 1 /\ Size(";") = 1
BY DEF Size

(* What stays in place, and what comes next does not continue it.          *)
LEMMA CharStays ==
  ASSUME NEW s \in Seq(Octets), NEW t \in Seq(Octets), Len(s) <= Len(t),
         \A k \in 1 .. Len(s) : t[k] = s[k],
         Len(s) < Len(t) => t[Len(s) + 1] # "t",
         NEW i \in 1 .. Len(s), Char(s, i)
  PROVE  Char(t, i)
<1> DEFINE n == Size(s[i])
<1>0. n \in 1 .. 4
  BY Sizes, Zenon
<1>1. n \in 1 .. 4 /\ t[i] = s[i] /\ Len(s) \in Nat /\ Len(t) \in Nat
  BY <1>0
<1>2. /\ s[i] # "x" /\ i + n - 1 <= Len(s)
      /\ \A k \in i + 1 .. i + n - 1 : s[k] = "t"
      /\ i + n <= Len(s) => s[i + n] # "t"
  BY DEF Char
<1>3. n = Size(t[i])
  BY <1>1
<1> HIDE DEF n
<1>4. \A k \in i + 1 .. i + n - 1 : t[k] = "t"
  <2> TAKE k \in i + 1 .. i + n - 1
  <2>1. k \in 1 .. Len(s)
    BY <1>1, <1>2
  <2>2. QED
    BY <2>1, <1>2
<1>5. ASSUME i + n <= Len(t) PROVE t[i + n] # "t"
  <2>1. CASE i + n <= Len(s)
    <3>1. i + n \in 1 .. Len(s)
      BY <1>1, <2>1
    <3>2. QED
      BY <3>1, <2>1, <1>2
  <2>2. CASE i + n > Len(s)
    <3>1. i + n = Len(s) + 1
      BY <1>1, <1>2, <2>2
    <3>2. QED
      BY <3>1, <1>5, <1>1
  <2>3. QED
    BY <2>1, <2>2, <1>1
<1>6. t[i] # "x" /\ i + n - 1 <= Len(t)
  BY <1>1, <1>2
<1>7. QED
  BY <1>3, <1>4, <1>5, <1>6, Zenon DEF Char

LEMMA CutGrows ==
  ASSUME NEW s \in Seq(Octets), NEW t \in Seq(Octets), NEW u \in Seq(Octets),
         NEW f \in {0, 3}, Grown(s, t, u, f), Single(u), CutOK(s)
  PROVE  CutOK(t)
<1>1. /\ Len(t) = Len(s) + f + Len(u) /\ Len(s) \in Nat /\ Len(u) \in Nat /\ Len(t) \in Nat
      /\ \A k \in 1 .. Len(s) : t[k] = s[k]
      /\ \A j \in 1 .. Len(u) : t[Len(s) + f + j] = u[j]
      /\ f = 3 => /\ t[Len(s) + 1] = "cr" /\ t[Len(s) + 2] = "lf"
                  /\ t[Len(s) + 3] = "sp"
  BY DEF Grown
<1>2. /\ Len(u) > 0 /\ Len(u) = Size(u[1]) /\ u[1] # "t" /\ u[1] # "x"
      /\ \A k \in 2 .. Len(u) : u[k] = "t"
  BY DEF Single
<1> DEFINE b == Len(s) + f + 1
<1>3. b \in 1 .. Len(t) /\ t[b] = u[1]
  <2>1. 1 \in 1 .. Len(u)
    BY <1>1, <1>2
  <2>2. t[Len(s) + f + 1] = u[1]
    BY <2>1, <1>1
  <2>3. QED
    BY <2>2, <1>1, <1>2
<1>4. t[Len(s) + 1] # "t"
  <2>1. CASE f = 0
    <3>1. b = Len(s) + 1
      BY <2>1, <1>1
    <3>2. QED
      BY <3>1, <1>2, <1>3
  <2>2. CASE f = 3
    BY <2>2, <1>1
  <2>3. QED
    BY <2>1, <2>2
<1>5. t[1] # "t"
  <2>1. CASE Len(s) = 0
    BY <2>1, <1>4
  <2>2. CASE Len(s) > 0
    BY <2>2, <1>1 DEF CutOK
  <2>3. QED
    BY <2>1, <2>2, <1>1
<1>6. ASSUME NEW i \in 1 .. Len(t), t[i] # "t" PROVE Char(t, i)
  <2>1. CASE i <= Len(s)
    <3>1. i \in 1 .. Len(s) /\ s[i] # "t"
      BY <2>1, <1>1, <1>6
    <3>2. Char(s, i)
      BY <3>1 DEF CutOK
    <3>3. Len(s) <= Len(t)
      BY <1>1
    <3>4. QED
      BY <3>1, <3>2, <3>3, <1>1, <1>4, CharStays
  <2>2. CASE i = b
    <3>1. Size(t[i]) = Len(u) /\ i + Len(u) - 1 = Len(t) /\ t[i] # "x"
      BY <2>2, <1>1, <1>2, <1>3
    <3>2. \A k \in i + 1 .. i + Len(u) - 1 : t[k] = "t"
      <4> TAKE k \in i + 1 .. i + Len(u) - 1
      <4>1. k - Len(s) - f \in 2 .. Len(u) /\ Len(s) + f + (k - Len(s) - f) = k
        BY <2>2, <1>1
      <4>2. t[Len(s) + f + (k - Len(s) - f)] = u[k - Len(s) - f]
        <5>1. k - Len(s) - f \in 1 .. Len(u)
          BY <4>1
        <5>2. \A j \in 1 .. Len(u) : t[Len(s) + f + j] = u[j]
          BY <1>1
        <5>3. QED
          BY <5>1, <5>2, Zenon
      <4>3. QED
        BY <4>1, <4>2, <1>2
    <3>3. QED
      BY <3>1, <3>2, <1>1 DEF Char
  <2>3. CASE i > b
    <3>1. PICK j \in 2 .. Len(u) : i = Len(s) + f + j
      <4>1. i - Len(s) - f \in 2 .. Len(u) /\ i = Len(s) + f + (i - Len(s) - f)
        BY <2>3, <1>1
      <4>2. QED
        BY <4>1
    <3>2. t[i] = u[j] /\ u[j] = "t"
      BY <3>1, <1>1, <1>2
    <3>3. QED
      BY <3>2, <1>6
  <2>4. CASE Len(s) < i /\ i < b
    <3>1. f = 3 /\ i \in Len(s) + 1 .. Len(s) + 3
      BY <2>4, <1>1
    <3>2. t[i] \in {"cr", "lf", "sp"}
      BY <3>1, <1>1
    <3>3. Size(t[i]) = 1 /\ t[i] # "x"
      BY <3>2, Sizes
    <3>4. t[i + 1] # "t"
      <4>1. t[Len(s) + 4] # "t"
        BY <3>1, <1>1, <1>2, <1>3
      <4>2. QED
        BY <3>1, <4>1, <1>1
    <3>5. i + 1 <= Len(t)
      BY <1>1, <1>3, <2>4
    <3>6. QED
      BY <3>3, <3>4, <3>5, <1>1 DEF Char
  <2>5. b \in Int /\ i \in Int /\ Len(s) \in Int
    BY <1>1
  <2> HIDE DEF b
  <2>6. QED
    BY <2>1, <2>2, <2>3, <2>4, <2>5
<1>7. QED
  BY <1>5, <1>6 DEF CutOK

LEMMA CutEnds ==
  ASSUME NEW s \in Seq(Octets), NEW t \in Seq(Octets), Ended(s, t), CutOK(s)
  PROVE  CutOK(t)
<1>1. /\ Len(t) = Len(s) + 2 /\ Len(s) \in Nat /\ Len(t) \in Nat
      /\ \A i \in 1 .. Len(s) : t[i] = s[i]
      /\ t[Len(s) + 1] = "cr" /\ t[Len(s) + 2] = "lf"
  BY DEF Ended
<1>2. t[1] # "t"
  <2>1. CASE Len(s) = 0
    BY <2>1, <1>1
  <2>2. CASE Len(s) > 0
    BY <2>2, <1>1 DEF CutOK
  <2>3. QED
    BY <2>1, <2>2, <1>1
<1>3. ASSUME NEW i \in 1 .. Len(t), t[i] # "t" PROVE Char(t, i)
  <2>1. CASE i <= Len(s)
    <3>1. i \in 1 .. Len(s) /\ s[i] # "t"
      BY <2>1, <1>1, <1>3
    <3>2. Char(s, i)
      BY <3>1 DEF CutOK
    <3>3. Len(s) <= Len(t) /\ t[Len(s) + 1] # "t"
      BY <1>1
    <3>4. QED
      BY <3>1, <3>2, <3>3, <1>1, CharStays
  <2>2. CASE i > Len(s)
    <3>1. i = Len(s) + 1 \/ i = Len(s) + 2
      BY <2>2, <1>1
    <3>2. t[i] \in {"cr", "lf"}
      BY <3>1, <1>1
    <3>3. Size(t[i]) = 1 /\ t[i] # "x"
      BY <3>2, Sizes
    <3>4. i + 1 <= Len(t) => t[i + 1] # "t"
      BY <3>1, <1>1
    <3>5. QED
      BY <3>3, <3>4, <1>1 DEF Char
  <2>3. QED
    BY <2>1, <2>2, <1>1
<1>4. QED
  BY <1>2, <1>3 DEF CutOK

(* A character at b; and a set of positions that with each holds the next. *)
Heads(s, b) == s[b] \notin {"t", "x"} /\ (s[b] \in {"2", "3", "4"} => Unit(s, b) > 1)
Closed(s, B) ==
    \A b \in B : b <= Len(s) => Heads(s, b) /\ b + Unit(s, b) \in B
Leads(s, i) == \E B \in SUBSET (1 .. Len(s) + 1) : i \in B /\ Closed(s, B)

LEMMA LeadsOn ==
  ASSUME NEW s \in Seq(Octets), NEW i \in 1 .. Len(s) + 1
  PROVE  Leads(s, i) <=> i > Len(s) \/ (Heads(s, i) /\ Leads(s, i + Unit(s, i)))
<1>1. ASSUME i > Len(s) PROVE Leads(s, i)
  <2>1. {i} \in SUBSET (1 .. Len(s) + 1) /\ i \in {i} /\ Closed(s, {i})
    BY <1>1 DEF Closed
  <2>2. QED
    BY <2>1 DEF Leads
<1>2. ASSUME ~ (i > Len(s)), Leads(s, i) PROVE Heads(s, i) /\ Leads(s, i + Unit(s, i))
  <2>1. PICK B \in SUBSET (1 .. Len(s) + 1) : i \in B /\ Closed(s, B)
    BY <1>2 DEF Leads
  <2>2. i <= Len(s)
    BY <1>2
  <2>3. QED
    BY <2>1, <2>2 DEF Closed, Leads
<1>3. ASSUME ~ (i > Len(s)), Heads(s, i), Leads(s, i + Unit(s, i)) PROVE Leads(s, i)
  <2> DEFINE n == Unit(s, i)
  <2>1. PICK B \in SUBSET (1 .. Len(s) + 1) : i + n \in B /\ Closed(s, B)
    BY <1>3 DEF Leads
  <2>2. Closed(s, B \cup {i})
    <3> SUFFICES ASSUME NEW b \in B \cup {i}, b <= Len(s)
                 PROVE  Heads(s, b) /\ b + Unit(s, b) \in B \cup {i}
      BY DEF Closed
    <3>1. CASE b = i
      BY <3>1, <1>3, <2>1
    <3>2. CASE b \in B
      BY <3>2, <2>1 DEF Closed
    <3>3. QED
      BY <3>1, <3>2
  <2>3. B \cup {i} \in SUBSET (1 .. Len(s) + 1) /\ i \in B \cup {i}
    OBVIOUS
  <2>4. QED
    BY <2>2, <2>3 DEF Leads
<1>4. QED
  BY <1>1, <1>2, <1>3

LEMMA UnitNext ==
  ASSUME NEW s \in Seq(Octets), NEW i \in 1 .. Len(s)
  PROVE  i + Unit(s, i) \in i + 1 .. Len(s) + 1
<1>1. Unit(s, i) \in 1 .. 4 /\ i + Unit(s, i) - 1 <= Len(s)
  BY UnitIs
<1>2. QED
  BY <1>1

(* The function that Whole chooses exists.                                 *)
LEMMA WholeExists ==
  ASSUME NEW s \in Seq(Octets)
  PROVE  WholeEq(s, WholeFrom(s))
<1> DEFINE f == [i \in 1 .. Len(s) + 1 |-> Leads(s, i)]
<1>1. ASSUME NEW i \in 1 .. Len(s) + 1
      PROVE  Leads(s, i) <=>
               (\/ i > Len(s)
                \/ /\ s[i] \notin {"t", "x"} /\ (s[i] \in {"2", "3", "4"} => Unit(s, i) > 1)
                   /\ f[i + Unit(s, i)])
  <2>1. CASE i > Len(s)
    BY <2>1, LeadsOn
  <2>2. CASE ~ (i > Len(s))
    <3>1. i \in 1 .. Len(s)
      BY <2>2
    <3>2. i + Unit(s, i) \in 1 .. Len(s) + 1
      BY <3>1, UnitNext
    <3>3. f[i + Unit(s, i)] = Leads(s, i + Unit(s, i))
      BY <3>2, Zenon
    <3>4. Leads(s, i) <=> Heads(s, i) /\ Leads(s, i + Unit(s, i))
      BY <2>2, LeadsOn
    <3> HIDE DEF f
    <3>5. Heads(s, i) <=> s[i] \notin {"t", "x"} /\ (s[i] \in {"2", "3", "4"} => Unit(s, i) > 1)
      BY DEF Heads
    <3>6. QED
      BY <2>2, <3>3, <3>4, <3>5, Zenon
  <2>3. QED
    BY <2>1, <2>2
<1> DEFINE G(i) == \/ i > Len(s)
                   \/ /\ s[i] \notin {"t", "x"} /\ (s[i] \in {"2", "3", "4"} => Unit(s, i) > 1)
                      /\ f[i + Unit(s, i)]
<1>2. \A i \in 1 .. Len(s) + 1 : f[i] = G(i)
  <2> TAKE i \in 1 .. Len(s) + 1
  <2>1. f[i] = Leads(s, i)
    BY Zenon
  <2>2. Leads(s, i) \in BOOLEAN
    BY Zenon DEF Leads
  <2>3. G(i) \in BOOLEAN
    <3> HIDE DEF f
    <3>1. QED
      BY Zenon
  <2>4. Leads(s, i) <=> G(i)
    BY <1>1
  <2> HIDE DEF G, f
  <2>5. QED
    BY <2>1, <2>2, <2>3, <2>4, Zenon
<1>3. f = [i \in 1 .. Len(s) + 1 |-> G(i)]
  <2>1. f = [i \in 1 .. Len(s) + 1 |-> f[i]]
    BY Zenon
  <2> HIDE DEF f, G
  <2>2. QED
    BY <1>2, <2>1, Zenon
<1>4. WholeEq(s, f)
  <2> HIDE DEF f
  <2>1. QED
    BY <1>3, Zenon DEF WholeEq, G
<1>5. QED
  BY <1>4, Zenon DEF WholeFrom

LEMMA WholeUnfolds ==
  ASSUME NEW s \in Seq(Octets), NEW i \in 1 .. Len(s)
  PROVE  WholeFrom(s)[i] <=> Heads(s, i) /\ WholeFrom(s)[i + Unit(s, i)]
<1> DEFINE f == WholeFrom(s)
<1>1. WholeEq(s, f)
  BY WholeExists
<1>2. i \in 1 .. Len(s) + 1 /\ ~ (i > Len(s))
  OBVIOUS
<1> HIDE DEF f
<1>3. f[i] = (\/ i > Len(s)
              \/ /\ s[i] \notin {"t", "x"} /\ (s[i] \in {"2", "3", "4"} => Unit(s, i) > 1)
                 /\ f[i + Unit(s, i)])
  BY <1>1, <1>2, Zenon DEF WholeEq
<1>4. QED
  BY <1>2, <1>3, Zenon DEF Heads, f

LEMMA WholeAtEnd ==
  ASSUME NEW s \in Seq(Octets)
  PROVE  WholeFrom(s)[Len(s) + 1]
<1> DEFINE f == WholeFrom(s)  i == Len(s) + 1
<1>1. WholeEq(s, f)
  BY WholeExists
<1>2. i \in 1 .. Len(s) + 1 /\ i > Len(s)
  OBVIOUS
<1> HIDE DEF f, i
<1>3. f[i] = (\/ i > Len(s)
              \/ /\ s[i] \notin {"t", "x"} /\ (s[i] \in {"2", "3", "4"} => Unit(s, i) > 1)
                 /\ f[i + Unit(s, i)])
  BY <1>1, <1>2, Zenon DEF WholeEq
<1>4. QED
  BY <1>2, <1>3, Zenon DEF f, i

LEMMA UnitFits ==
  ASSUME NEW s \in Seq(Octets), NEW i \in 1 .. Len(s),
         i + Size(s[i]) - 1 <= Len(s),
         \A k \in i + 1 .. i + Size(s[i]) - 1 : s[k] = "t"
  PROVE  Unit(s, i) = Size(s[i])
<1> DEFINE Has(lead, n) ==
      /\ s[i] = lead /\ i + n - 1 <= Len(s)
      /\ \A k \in i + 1 .. i + n - 1 : s[k] = "t"
<1>0. Unit(s, i) = CASE Has("2", 2) -> 2 [] Has("3", 3) -> 3 [] Has("4", 4) -> 4
                     [] OTHER -> 1
  BY Zenon DEF Unit
<1>1. /\ Has("2", 2) <=> s[i] = "2"
      /\ Has("3", 3) <=> s[i] = "3"
      /\ Has("4", 4) <=> s[i] = "4"
  BY DEF Size
<1>2. "2" # "3" /\ "2" # "4" /\ "3" # "4"
  OBVIOUS
<1> HIDE DEF Has
<1>3. CASE s[i] = "2"
  <2>1. Unit(s, i) = 2
    BY <1>0, <1>1, <1>2, <1>3, Zenon
  <2>2. QED
    BY <2>1, <1>3 DEF Size
<1>4. CASE s[i] = "3"
  <2>1. Unit(s, i) = 3
    BY <1>0, <1>1, <1>2, <1>4, Zenon
  <2>2. QED
    BY <2>1, <1>4 DEF Size
<1>5. CASE s[i] = "4"
  <2>1. Unit(s, i) = 4
    BY <1>0, <1>1, <1>2, <1>5, Zenon
  <2>2. QED
    BY <2>1, <1>5 DEF Size
<1>6. CASE s[i] # "2" /\ s[i] # "3" /\ s[i] # "4"
  <2>1. Unit(s, i) = 1
    BY <1>0, <1>1, <1>6, Zenon
  <2>2. QED
    BY <2>1, <1>6 DEF Size
<1>7. QED
  BY <1>3, <1>4, <1>5, <1>6

(* A piece put from a whole text is one whole character.                   *)
LEMMA WholePiece ==
  ASSUME NEW s \in Seq(Octets), NEW i \in 1 .. Len(s), WholeFrom(s)[i],
         NEW u \in Seq(Octets), Len(u) = Unit(s, i),
         \A j \in 1 .. Len(u) : u[j] = s[i + j - 1]
  PROVE  Single(u) /\ WholeFrom(s)[i + Unit(s, i)]
<1>1. Heads(s, i) /\ WholeFrom(s)[i + Unit(s, i)]
  BY WholeUnfolds
<1>2. /\ Unit(s, i) \in 1 .. 4
      /\ Unit(s, i) = 1 \/ Unit(s, i) = Size(s[i])
      /\ \A k \in i + 1 .. i + Unit(s, i) - 1 : s[k] = "t"
  BY UnitIs
<1>3. s[i] \notin {"t", "x"} /\ Unit(s, i) = Size(s[i])
  BY <1>1, <1>2 DEF Heads, Size
<1>4. u[1] = s[i]
  BY <1>2
<1>5. \A k \in 2 .. Len(u) : u[k] = "t"
  <2> TAKE k \in 2 .. Len(u)
  <2>1. u[k] = s[i + k - 1] /\ i + k - 1 \in i + 1 .. i + Unit(s, i) - 1
    BY <1>2
  <2>2. QED
    BY <2>1, <1>2
<1>6. QED
  BY <1>1, <1>2, <1>3, <1>4, <1>5 DEF Single

(* A text cut into whole characters is whole: by induction from its end.   *)
LEMMA CutIsWhole ==
  ASSUME NEW s \in Seq(Octets), CutOK(s)
  PROVE  Whole(s)
<1> DEFINE n == Len(s)
           Edge(i) == i = n + 1 \/ s[i] # "t"
           S == {k \in 0 .. n : Edge(n + 1 - k) /\ ~ WholeFrom(s)[n + 1 - k]}
<1>1. n \in Nat
  OBVIOUS
<1>2. S = {}
  <2> SUFFICES ASSUME S # {} PROVE FALSE
    OBVIOUS
  <2>1. S \in SUBSET Nat
    BY <1>1
  <2>2. PICK k \in S : \A m \in S : k <= m
    BY <2>1, Least
  <2> DEFINE i == n + 1 - k
  <2>3. k \in 0 .. n /\ Edge(i) /\ ~ WholeFrom(s)[i]
    BY <2>2
  <2>4. i # n + 1
    BY <2>3, WholeAtEnd
  <2>5. i \in 1 .. n /\ s[i] # "t"
    BY <2>3, <2>4, <1>1
  <2>6. Char(s, i)
    BY <2>5 DEF CutOK
  <2>7. /\ s[i] # "x" /\ i + Size(s[i]) - 1 <= Len(s)
        /\ \A j \in i + 1 .. i + Size(s[i]) - 1 : s[j] = "t"
        /\ i + Size(s[i]) <= Len(s) => s[i + Size(s[i])] # "t"
    BY <2>6 DEF Char
  <2>8. Size(s[i]) \in 1 .. 4
    BY Sizes, Zenon
  <2>9. Unit(s, i) = Size(s[i])
    BY <2>5, <2>7, UnitFits
  <2>10. Heads(s, i)
    BY <2>5, <2>7, <2>9 DEF Heads, Size
  <2>11. ~ WholeFrom(s)[i + Unit(s, i)]
    BY <2>3, <2>5, <2>10, WholeUnfolds
  <2> DEFINE m == k - Unit(s, i)
  <2>12. m \in 0 .. n /\ n + 1 - m = i + Unit(s, i) /\ m < k
    <3>1. Unit(s, i) \in 1 .. 4 /\ i + Unit(s, i) - 1 <= n
      BY <2>7, <2>8, <2>9
    <3>2. \A u \in 1 .. 4 : i + u - 1 <= n =>
             k - u \in 0 .. n /\ n + 1 - (k - u) = i + u /\ k - u < k
      BY <2>3, <1>1
    <3>3. QED
      BY <3>1, <3>2, Zenon
  <2>13. Edge(i + Unit(s, i))
    BY <2>5, <2>7, <2>8, <2>9, <1>1
  <2>14. m \in S
    <3>1. Edge(n + 1 - m) /\ ~ WholeFrom(s)[n + 1 - m]
      <4> HIDE DEF i, m
      <4>1. QED
        BY <2>11, <2>12, <2>13
    <3>2. QED
      BY <3>1, <2>12
  <2>15. k <= m
    BY <2>2, <2>14
  <2>16. QED
    BY <2>12, <2>15, <2>3
<1>3. Edge(1)
  BY <1>1 DEF CutOK
<1>4. n \notin S
  BY <1>2
<1>5. n \in 0 .. n /\ n + 1 - n = 1
  BY <1>1
<1>6. WholeFrom(s)[1]
  BY <1>3, <1>4, <1>5
<1>7. QED
  BY <1>6, WholeIs

-----------------------------------------------------------------------------
(* Physical lines.                                                         *)

LEMMA LineAt ==
  ASSUME out \in Seq(Octets), Len(out) > 0, out[Len(out)] = "lf", EndsOK(out),
         NEW i \in Starts \ {Len(out) + 1}
  PROVE  /\ i \in 1 .. Len(out)
         /\ \E e \in i + 1 .. Len(out) :
               /\ out[e] = "lf" /\ out[e - 1] = "cr" /\ Plain(out, i, e - 1)
               /\ PhysicalLine(i) = SubSeq(out, i, e - 2)
<1> DEFINE n == Len(out)
           After == {e \in Ends : e >= i}
           First(e) == e \in Ends /\ e >= i /\ \A d \in Ends : d >= i => e <= d
           end == CHOOSE e \in Ends : e >= i /\ \A d \in Ends : d >= i => e <= d
<1>1. n \in Nat /\ Ends = {e \in 1 .. n : out[e] = "lf"} /\ n \in Ends
  BY DEF Ends
<1>2. i \in 1 .. n
  BY <1>1 DEF Starts
<1>3. After \in SUBSET Nat /\ After # {}
  BY <1>1, <1>2
<1>4. PICK m \in After : \A k \in After : m <= k
  BY <1>3, Least
<1>5. First(m)
  BY <1>4
<1>6. First(end)
  BY <1>5, Zenon
<1>7. PhysicalLine(i) = SubSeq(out, i, end - 2)
  BY Zenon DEF PhysicalLine
<1> HIDE DEF end
<1>8. end \in 1 .. n /\ out[end] = "lf" /\ end >= i
  BY <1>1, <1>6
<1>9. end > 1 /\ out[end - 1] = "cr"
  BY <1>8 DEF EndsOK
<1>10. Plain(out, i, end - 1)
  <2> SUFFICES ASSUME NEW j \in i .. end - 1, out[j] = "lf" PROVE FALSE
    BY DEF Plain
  <2>1. j \in Ends /\ j >= i
    BY <1>1, <1>2, <1>8
  <2>2. QED
    BY <2>1, <1>6, <1>8
<1>11. end # i
  <2>1. CASE i = 1
    BY <2>1, <1>9
  <2>2. CASE i # 1
    <3>1. i - 1 \in Ends
      BY <2>2, <1>1 DEF Starts
    <3>2. out[i - 1] = "lf"
      BY <3>1, <1>1
    <3>3. QED
      BY <3>2, <1>9
  <2>3. QED
    BY <2>1, <2>2
<1>12. end \in i + 1 .. n
  BY <1>8, <1>11, <1>2
<1>13. QED
  BY <1>2, <1>7, <1>8, <1>9, <1>10, <1>12

LEMMA LineShort ==
  ASSUME out \in Seq(Octets), Len(out) > 0, out[Len(out)] = "lf", EndsOK(out),
         NEW c, FitOK(out, c), NEW i \in Starts \ {Len(out) + 1}
  PROVE  Len(PhysicalLine(i)) <= Width
<1>1. PICK e \in i + 1 .. Len(out) :
         /\ out[e] = "lf" /\ out[e - 1] = "cr" /\ Plain(out, i, e - 1)
         /\ PhysicalLine(i) = SubSeq(out, i, e - 2)
  BY LineAt
<1>2. i \in 1 .. Len(out)
  BY LineAt
<1>3. e - i - 1 <= Width
  BY <1>1, <1>2 DEF FitOK, OthersFit
<1>4. Len(SubSeq(out, i, e - 2)) = e - i - 1
  BY <1>1, <1>2
<1>5. QED
  BY <1>1, <1>3, <1>4

LEMMA LineWhole ==
  ASSUME out \in Seq(Octets), Len(out) > 0, out[Len(out)] = "lf", EndsOK(out),
         CutOK(out), NEW i \in Starts \ {Len(out) + 1}
  PROVE  Whole(PhysicalLine(i))
<1>1. PICK e \in i + 1 .. Len(out) :
         /\ out[e] = "lf" /\ out[e - 1] = "cr" /\ Plain(out, i, e - 1)
         /\ PhysicalLine(i) = SubSeq(out, i, e - 2)
  BY LineAt
<1>2. i \in 1 .. Len(out)
  BY LineAt
<1> DEFINE l == SubSeq(out, i, e - 2)
<1>3. /\ l \in Seq(Octets) /\ Len(l) = e - i - 1
      /\ \A k \in 1 .. Len(l) : l[k] = out[i + k - 1]
  BY <1>1, <1>2
<1> HIDE DEF l
<1>4. out[i] # "t"
  <2>1. CASE i = 1
    BY <2>1, <1>2 DEF CutOK
  <2>2. CASE i # 1
    <3>1. i - 1 \in 1 .. Len(out) /\ out[i - 1] = "lf"
      BY <2>2, <1>2 DEF Starts, Ends
    <3>2. Char(out, i - 1) /\ Size(out[i - 1]) = 1
      BY <3>1, Sizes DEF CutOK
    <3>3. QED
      BY <3>1, <3>2, <1>2 DEF Char
  <2>3. QED
    BY <2>1, <2>2
<1>5. Len(l) > 0 => l[1] # "t"
  <2> SUFFICES ASSUME Len(l) > 0 PROVE l[1] # "t"
    OBVIOUS
  <2>1. 1 \in 1 .. Len(l) /\ i + 1 - 1 = i
    BY <1>1, <1>2, <1>3
  <2>2. QED
    BY <2>1, <1>3, <1>4
<1>6. ASSUME NEW k \in 1 .. Len(l), l[k] # "t" PROVE Char(l, k)
  <2> DEFINE a == i + k - 1  z == Size(l[k])
  <2>1. a \in 1 .. Len(out) /\ a < e - 1 /\ out[a] = l[k]
    BY <1>1, <1>2, <1>3
  <2>2. Char(out, a)
    BY <2>1, <1>6 DEF CutOK
  <2>3. z \in 1 .. 4
    BY Sizes, Zenon
  <2>4. /\ l[k] # "x" /\ a + z - 1 <= Len(out)
        /\ \A j \in a + 1 .. a + z - 1 : out[j] = "t"
        /\ a + z <= Len(out) => out[a + z] # "t"
    BY <2>1, <2>2 DEF Char
  <2> HIDE DEF z
  <2>5. e - 1 \notin a + 1 .. a + z - 1
    BY <1>1, <2>4
  <2>6. a + z - 1 <= e - 2
    BY <2>1, <2>3, <2>5, <1>1, <1>2
  <2>7. k + z - 1 <= Len(l)
    BY <2>6, <2>3, <1>1, <1>2, <1>3
  <2>8. \A j \in k + 1 .. k + z - 1 : l[j] = "t"
    <3> TAKE j \in k + 1 .. k + z - 1
    <3>1. j \in 1 .. Len(l) /\ i + j - 1 \in a + 1 .. a + z - 1
      BY <2>7, <2>3, <1>1, <1>2, <1>3
    <3>2. QED
      BY <3>1, <2>4, <1>3
  <2>9. ASSUME k + z <= Len(l) PROVE l[k + z] # "t"
    <3>1. k + z \in 1 .. Len(l) /\ i + (k + z) - 1 = a + z /\ a + z <= Len(out)
      BY <2>9, <2>3, <2>6, <1>1, <1>2, <1>3
    <3>2. l[k + z] = out[a + z]
      BY <3>1, <1>3
    <3>3. QED
      BY <3>1, <3>2, <2>4
  <2>10. QED
    BY <2>4, <2>7, <2>8, <2>9, Zenon DEF Char, z
<1>7. Whole(l)
  BY <1>3, <1>5, <1>6, CutIsWhole DEF CutOK
<1>8. QED
  BY <1>1, <1>7 DEF l

-----------------------------------------------------------------------------
(* Joined: one position of the recursion, and the function it chooses.     *)

JoinStep(s, f, i) ==
    LET n == Len(s)
        After(j) == j <= n /\ s[j] \in {"sp", "tab"}
    IN IF i > n THEN <<>>
       ELSE IF s[i] = "lf" THEN IF After(i + 1) THEN f[i + 2] ELSE <<>>
       ELSE IF s[i] = "cr" /\ i < n /\ s[i + 1] = "lf"
            THEN IF After(i + 2) THEN f[i + 3] ELSE <<>>
       ELSE <<s[i]>> \o f[i + 1]
JoinedEq(s, f) == f = [i \in 1 .. Len(s) + 4 |-> JoinStep(s, f, i)]
JoinedFrom(s) == CHOOSE f : JoinedEq(s, f)

LEMMA JoinedIs == ASSUME NEW s PROVE Joined(s) = JoinedFrom(s)[1]
BY Zenon DEF Joined, JoinedFrom, JoinedEq, JoinStep

(* A position depends on those after it.                                   *)
LEMMA JoinLocal ==
  ASSUME NEW s \in Seq(Octets), NEW i \in 1 .. Len(s) + 4, NEW f, NEW g,
         \A j \in i + 1 .. Len(s) + 4 : f[j] = g[j]
  PROVE  JoinStep(s, f, i) = JoinStep(s, g, i)
<1>1. Len(s) \in Nat
  OBVIOUS
<1>2. CASE i > Len(s)
  BY <1>2, Zenon DEF JoinStep
<1>3. CASE ~ (i > Len(s))
  <2>1. i + 1 \in i + 1 .. Len(s) + 4 /\ i + 2 \in i + 1 .. Len(s) + 4
        /\ i + 3 \in i + 1 .. Len(s) + 4
    BY <1>1, <1>3
  <2>2. f[i + 1] = g[i + 1] /\ f[i + 2] = g[i + 2] /\ f[i + 3] = g[i + 3]
    BY <2>1
  <2>3. QED
    BY <2>2, Zenon DEF JoinStep
<1>4. QED
  BY <1>2, <1>3

LEMMA JoinedExists ==
  ASSUME NEW s \in Seq(Octets)
  PROVE  JoinedEq(s, JoinedFrom(s))
<1> DEFINE n == Len(s) + 4
           From(k) == \E f : /\ f = [i \in 1 .. n |-> f[i]]
                             /\ \A i \in n + 1 - k .. n : f[i] = JoinStep(s, f, i)
           S == {k \in 0 .. n : ~ From(k)}
<1>1. n \in Nat
  OBVIOUS
<1>2. From(0)
  <2> DEFINE f == [i \in 1 .. n |-> <<>>]
  <2>1. f = [i \in 1 .. n |-> f[i]]
    BY Zenon
  <2> HIDE DEF f
  <2>2. \A i \in n + 1 - 0 .. n : f[i] = JoinStep(s, f, i)
    BY <1>1
  <2>3. QED
    BY <2>1, <2>2
<1>3. ASSUME NEW k \in 0 .. n - 1, From(k) PROVE From(k + 1)
  <2> DEFINE b == n - k
  <2>1. PICK f : /\ f = [i \in 1 .. n |-> f[i]]
                 /\ \A i \in n + 1 - k .. n : f[i] = JoinStep(s, f, i)
    BY <1>3
  <2> DEFINE g == [i \in 1 .. n |-> IF i = b THEN JoinStep(s, f, b) ELSE f[i]]
  <2>2. b \in 1 .. n
    BY <1>1
  <2>3. g[b] = JoinStep(s, f, b) /\ \A i \in 1 .. n : i # b => g[i] = f[i]
    BY <2>2, Zenon
  <2>4. g = [i \in 1 .. n |-> g[i]]
    BY Zenon
  <2> HIDE DEF g
  <2>5. ASSUME NEW i \in n + 1 - (k + 1) .. n PROVE g[i] = JoinStep(s, g, i)
    <3>1. i \in 1 .. n /\ i >= b /\ \A j \in i + 1 .. n : j \in 1 .. n /\ j # b
      BY <1>1, <2>2
    <3>2. \A j \in i + 1 .. n : f[j] = g[j]
      BY <2>3, <3>1
    <3>3. JoinStep(s, f, i) = JoinStep(s, g, i)
      BY <3>1, <3>2, JoinLocal
    <3>4. g[i] = JoinStep(s, f, i)
      <4>1. CASE i = b
        BY <4>1, <2>3
      <4>2. CASE i # b
        <5>1. i \in n + 1 - k .. n
          BY <4>2, <3>1, <1>1
        <5>2. QED
          BY <5>1, <4>2, <3>1, <2>1, <2>3
      <4>3. QED
        BY <4>1, <4>2
    <3>5. QED
      BY <3>3, <3>4
  <2>6. QED
    BY <2>4, <2>5
<1> HIDE DEF From
<1>4. S = {}
  <2> SUFFICES ASSUME S # {} PROVE FALSE
    OBVIOUS
  <2>1. S \in SUBSET Nat
    BY <1>1
  <2>2. PICK k \in S : \A m \in S : k <= m
    BY <2>1, Least
  <2>3. k \in 0 .. n /\ ~ From(k)
    BY <2>2
  <2>4. k # 0
    BY <2>3, <1>2
  <2>5. k - 1 \in 0 .. n - 1 /\ k - 1 < k /\ (k - 1) + 1 = k
    BY <2>3, <2>4, <1>1
  <2>6. k - 1 \notin S
    BY <2>2, <2>5
  <2>7. From(k - 1)
    BY <2>5, <2>6, <1>1
  <2>8. From((k - 1) + 1)
    BY <2>5, <2>7, <1>3
  <2>9. QED
    BY <2>3, <2>5, <2>8
<1>5. From(n)
  BY <1>1, <1>4
<1>6. PICK f : /\ f = [i \in 1 .. n |-> f[i]]
               /\ \A i \in n + 1 - n .. n : f[i] = JoinStep(s, f, i)
  BY <1>5 DEF From
<1>7. \A i \in 1 .. n : f[i] = JoinStep(s, f, i)
  BY <1>6, <1>1
<1>8. f = [i \in 1 .. n |-> JoinStep(s, f, i)]
  BY <1>6, <1>7, Zenon
<1>9. JoinedEq(s, f)
  BY <1>8, Zenon DEF JoinedEq
<1>10. QED
  BY <1>9, Zenon DEF JoinedFrom

LEMMA JoinedUnfolds ==
  ASSUME NEW s \in Seq(Octets), NEW i \in 1 .. Len(s) + 4
  PROVE  JoinedFrom(s)[i] = JoinStep(s, JoinedFrom(s), i)
BY JoinedExists, Zenon DEF JoinedEq

-----------------------------------------------------------------------------
(* The octets of the line w, up to the k-th, are in s up to m, each after  *)
(* the one before or after a fold; pos says where.                         *)

Gap(s, a, b) == \/ b = a
                \/ b = a + 3 /\ s[a] = "cr" /\ s[a + 1] = "lf" /\ s[a + 2] = "sp"
Traced(pos, s, w, k, m) ==
    /\ pos \in [0 .. k -> 0 .. m] /\ pos[0] = 0 /\ pos[k] = m
    /\ \A i \in 1 .. k : Gap(s, pos[i - 1] + 1, pos[i]) /\ s[pos[i]] = w[i]
Reaches(s, w, k, m) == \E pos : Traced(pos, s, w, k, m)

LEMMA GapStays ==
  ASSUME NEW s \in Seq(Octets), NEW t \in Seq(Octets),
         \A i \in 1 .. Len(s) : t[i] = s[i],
         NEW a \in Nat, NEW b \in 0 .. Len(s), a > 0, Gap(s, a, b)
  PROVE  b \in 1 .. Len(s) /\ Gap(t, a, b)
<1>1. Len(s) \in Nat
  OBVIOUS
<1>2. CASE b = a
  BY <1>1, <1>2 DEF Gap
<1>3. CASE b # a
  <2>1. b = a + 3 /\ s[a] = "cr" /\ s[a + 1] = "lf" /\ s[a + 2] = "sp"
    BY <1>3 DEF Gap
  <2>2. a \in 1 .. Len(s) /\ a + 1 \in 1 .. Len(s) /\ a + 2 \in 1 .. Len(s)
    BY <2>1, <1>1
  <2>3. t[a] = "cr" /\ t[a + 1] = "lf" /\ t[a + 2] = "sp"
    BY <2>1, <2>2
  <2>4. QED
    BY <2>1, <2>2, <2>3, <1>1 DEF Gap
<1>4. QED
  BY <1>2, <1>3

LEMMA ReachesNone ==
  ASSUME NEW w \in Seq(Octets)
  PROVE  Reaches(<<>>, w, 0, 0)
<1> DEFINE pos == [i \in 0 .. 0 |-> 0]
<1>1. pos \in [0 .. 0 -> 0 .. 0] /\ pos[0] = 0
  OBVIOUS
<1> HIDE DEF pos
<1>2. Traced(pos, <<>>, w, 0, 0)
  BY <1>1 DEF Traced
<1>3. QED
  BY <1>2 DEF Reaches

LEMMA ReachGrows ==
  ASSUME NEW s \in Seq(Octets), NEW t \in Seq(Octets), NEW u \in Seq(Octets),
         NEW f \in {0, 3}, Grown(s, t, u, f), Len(u) > 0,
         NEW w \in Seq(Octets), NEW k \in Nat, Reaches(s, w, k, Len(s)),
         \A j \in 1 .. Len(u) : u[j] = w[k + j]
  PROVE  Reaches(t, w, k + Len(u), Len(t))
<1>1. PICK pos : Traced(pos, s, w, k, Len(s))
  BY DEF Reaches
<1> DEFINE n == k + Len(u)
           p == [i \in 0 .. n |-> IF i <= k THEN pos[i] ELSE Len(s) + f + (i - k)]
<1>2. /\ Len(t) = Len(s) + f + Len(u) /\ Len(s) \in Nat /\ Len(u) \in Nat /\ Len(t) \in Nat
      /\ \A i \in 1 .. Len(s) : t[i] = s[i]
      /\ \A j \in 1 .. Len(u) : t[Len(s) + f + j] = u[j]
  BY DEF Grown
<1>3. /\ pos \in [0 .. k -> 0 .. Len(s)] /\ pos[0] = 0 /\ pos[k] = Len(s)
      /\ \A i \in 1 .. k : Gap(s, pos[i - 1] + 1, pos[i]) /\ s[pos[i]] = w[i]
  BY <1>1 DEF Traced
<1>4. /\ \A i \in 0 .. k : p[i] = pos[i] /\ pos[i] \in 0 .. Len(s)
      /\ \A j \in 1 .. Len(u) : p[k + j] = Len(s) + f + j
  BY <1>2, <1>3
<1>5. p \in [0 .. n -> 0 .. Len(t)]
  <2> SUFFICES ASSUME NEW i \in 0 .. n
               PROVE  (IF i <= k THEN pos[i] ELSE Len(s) + f + (i - k)) \in 0 .. Len(t)
    OBVIOUS
  <2>1. CASE i <= k
    <3>1. i \in 0 .. k
      BY <2>1
    <3>2. pos[i] \in 0 .. Len(s)
      BY <3>1, <1>3
    <3>3. QED
      BY <2>1, <3>2, <1>2
  <2>2. CASE ~ (i <= k)
    BY <2>2, <1>2
  <2>3. QED
    BY <2>1, <2>2
<1> HIDE DEF p
<1>6. p[0] = 0 /\ p[n] = Len(t)
  <2>1. p[0] = 0
    BY <1>3, <1>4
  <2>2. Len(u) \in 1 .. Len(u)
    BY <1>2
  <2>3. p[k + Len(u)] = Len(s) + f + Len(u)
    BY <2>2, <1>4
  <2>4. QED
    BY <2>1, <2>3, <1>2
<1>7. ASSUME NEW i \in 1 .. n PROVE Gap(t, p[i - 1] + 1, p[i]) /\ t[p[i]] = w[i]
  <2>1. CASE i <= k
    <3>1. i \in 1 .. k /\ i - 1 \in 0 .. k /\ i \in 0 .. k
      BY <2>1
    <3>2. Gap(s, pos[i - 1] + 1, pos[i]) /\ s[pos[i]] = w[i]
      BY <3>1, <1>3
    <3>3. pos[i] \in 0 .. Len(s) /\ pos[i - 1] \in 0 .. Len(s)
      BY <3>1, <1>4
    <3>4. pos[i - 1] + 1 \in Nat /\ pos[i - 1] + 1 > 0
      <4>1. \A m \in Nat : m + 1 \in Nat /\ m + 1 > 0
        OBVIOUS
      <4>2. pos[i - 1] \in Nat
        BY <3>3, <1>2
      <4>3. QED
        BY <4>1, <4>2, Zenon
    <3>5. pos[i] \in 1 .. Len(s) /\ Gap(t, pos[i - 1] + 1, pos[i])
      BY <3>2, <3>3, <3>4, <1>2, GapStays
    <3>6. t[pos[i]] = w[i]
      BY <3>2, <3>5, <1>2
    <3>7. QED
      BY <3>1, <3>5, <3>6, <1>4
  <2>2. CASE i > k
    <3>1. PICK j \in 1 .. Len(u) : i = k + j
      <4>1. i - k \in 1 .. Len(u) /\ i = k + (i - k)
        BY <2>2, <1>2
      <4>2. QED
        BY <4>1
    <3>2. p[i] = Len(s) + f + j /\ t[p[i]] = w[i]
      BY <3>1, <1>2, <1>4
    <3>3. CASE j = 1
      <4>1. i - 1 = k /\ p[i - 1] = Len(s)
        <5>1. \A m \in Nat : (m + 1) - 1 = m /\ m \in 0 .. m
          OBVIOUS
        <5>2. i = k + 1
          BY <3>1, <3>3, Zenon
        <5>3. i - 1 = k /\ k \in 0 .. k
          BY <5>1, <5>2, Zenon
        <5>4. QED
          BY <5>3, <1>3, <1>4, Zenon
      <4>2. p[i] = Len(s) + f + 1
        BY <3>2, <3>3
      <4>3. f = 3 => t[Len(s) + 1] = "cr" /\ t[Len(s) + 2] = "lf" /\ t[Len(s) + 3] = "sp"
        BY DEF Grown
      <4>4. \A l \in Nat : l = Len(s) => Gap(t, l + 1, l + f + 1)
        BY <4>3 DEF Gap
      <4>5. QED
        BY <4>1, <4>2, <4>4, <3>2, <1>2
    <3>4. CASE j # 1
      <4>1. j - 1 \in 1 .. Len(u) /\ i - 1 = k + (j - 1)
        <5>1. \A l, m \in Nat : \A o \in 1 .. m : o # 1 =>
                o - 1 \in 1 .. m /\ (l + o) - 1 = l + (o - 1)
          OBVIOUS
        <5>2. Len(u) \in Nat
          BY <1>2
        <5>3. QED
          BY <3>1, <3>4, <5>1, <5>2, Zenon
      <4>2. p[i - 1] = Len(s) + f + (j - 1)
        BY <4>1, <1>4
      <4>3. p[i - 1] + 1 = p[i]
        BY <4>2, <3>2, <1>2, <3>1
      <4>4. QED
        BY <4>3, <3>2 DEF Gap
    <3>5. QED
      BY <3>3, <3>4
  <2>3. QED
    BY <2>1, <2>2
<1>8. Traced(p, t, w, n, Len(t))
  BY <1>5, <1>6, <1>7 DEF Traced
<1>9. QED
  BY <1>8 DEF Reaches

LEMMA ReachEnds ==
  ASSUME NEW s \in Seq(Octets), NEW t \in Seq(Octets), Ended(s, t),
         NEW w \in Seq(Octets), NEW k \in Nat, Reaches(s, w, k, Len(s))
  PROVE  Reaches(t, w, k, Len(t) - 2)
<1>1. PICK pos : Traced(pos, s, w, k, Len(s))
  BY DEF Reaches
<1>2. /\ Len(t) = Len(s) + 2 /\ Len(s) \in Nat /\ Len(t) \in Nat
      /\ \A i \in 1 .. Len(s) : t[i] = s[i]
  BY DEF Ended
<1>3. /\ pos \in [0 .. k -> 0 .. Len(s)] /\ pos[0] = 0 /\ pos[k] = Len(s)
      /\ \A i \in 1 .. k : Gap(s, pos[i - 1] + 1, pos[i]) /\ s[pos[i]] = w[i]
  BY <1>1 DEF Traced
<1>4. Len(t) - 2 = Len(s)
  BY <1>2
<1>5. ASSUME NEW i \in 1 .. k PROVE Gap(t, pos[i - 1] + 1, pos[i]) /\ t[pos[i]] = w[i]
  <2>1. Gap(s, pos[i - 1] + 1, pos[i]) /\ s[pos[i]] = w[i]
    BY <1>3
  <2>2. pos[i] \in 0 .. Len(s) /\ pos[i - 1] \in 0 .. Len(s)
    BY <1>3
  <2>3. pos[i - 1] + 1 \in Nat /\ pos[i - 1] + 1 > 0
    BY <2>2, <1>2
  <2>4. pos[i] \in 1 .. Len(s) /\ Gap(t, pos[i - 1] + 1, pos[i])
    BY <2>1, <2>2, <2>3, <1>2, GapStays
  <2>5. QED
    BY <2>1, <2>4, <1>2
<1>6. Traced(pos, t, w, k, Len(t) - 2)
  BY <1>3, <1>4, <1>5 DEF Traced
<1>7. QED
  BY <1>6 DEF Reaches

(* What is left of w after k octets.                                       *)
Left(w, k) == SubSeq(w, k + 1, Len(w))

LEMMA LeftIs ==
  ASSUME NEW w \in Seq(Octets)
  PROVE  /\ Left(w, 0) = w /\ Left(w, Len(w)) = <<>>
         /\ \A k \in 1 .. Len(w) : Left(w, k - 1) = <<w[k]>> \o Left(w, k)
<1>1. Left(w, 0) = w
  BY DEF Left
<1>2. Left(w, Len(w)) = <<>>
  BY DEF Left
<1>3. ASSUME NEW k \in 1 .. Len(w) PROVE Left(w, k - 1) = <<w[k]>> \o Left(w, k)
  BY DEF Left
<1>4. QED
  BY <1>1, <1>2, <1>3

(* One line that ends with CRLF, read: by induction from its end, what is  *)
(* joined from the place after the k-th octet is what is left of w.        *)
LEMMA JoinAtEnd ==
  ASSUME NEW t \in Seq(Octets), Len(t) > 1, t[Len(t) - 1] = "cr", t[Len(t)] = "lf", NEW f
  PROVE  JoinStep(t, f, Len(t) - 1) = <<>>
<1> DEFINE n == Len(t)  i == Len(t) - 1
<1>1. n \in Nat /\ i < n /\ i + 1 = n /\ ~ (i > n) /\ ~ (i + 2 <= n)
  OBVIOUS
<1>2. t[i] = "cr" /\ t[i] # "lf" /\ t[i + 1] = "lf"
  BY <1>1
<1> HIDE DEF i
<1>3. QED
  BY <1>1, <1>2, Zenon DEF JoinStep, i

LEMMA JoinFold ==
  ASSUME NEW t \in Seq(Octets), NEW a \in 1 .. Len(t), a + 2 <= Len(t),
         t[a] = "cr", t[a + 1] = "lf", t[a + 2] = "sp", NEW f
  PROVE  JoinStep(t, f, a) = f[a + 3]
<1> DEFINE n == Len(t)
<1>1. a < n /\ ~ (a > n) /\ a + 2 <= n
  OBVIOUS
<1>2. t[a] # "lf" /\ t[a + 2] \in {"sp", "tab"}
  OBVIOUS
<1>3. QED
  BY <1>1, <1>2, Zenon DEF JoinStep

LEMMA JoinOctet ==
  ASSUME NEW t \in Seq(Octets), NEW a \in 1 .. Len(t), a + 1 <= Len(t),
         t[a] # "lf", t[a + 1] # "lf", NEW f
  PROVE  JoinStep(t, f, a) = <<t[a]>> \o f[a + 1]
<1>1. ~ (a > Len(t))
  OBVIOUS
<1>2. QED
  BY <1>1, Zenon DEF JoinStep

LEMMA TracedRead ==
  ASSUME NEW t \in Seq(Octets), Len(t) > 1, t[Len(t) - 1] = "cr", t[Len(t)] = "lf",
         NEW w \in Seq(Octets), Plain(w, 1, Len(w)),
         Reaches(t, w, Len(w), Len(t) - 2)
  PROVE  Joined(t) = w
<1> DEFINE n == Len(w)  m == Len(t) - 2  F == JoinedFrom(t)
<1>1. n \in Nat /\ Len(t) \in Nat /\ m \in Nat /\ m + 1 = Len(t) - 1
  OBVIOUS
<1>2. PICK pos : Traced(pos, t, w, n, m)
  BY DEF Reaches
<1>3. /\ pos \in [0 .. n -> 0 .. m] /\ pos[0] = 0 /\ pos[n] = m
      /\ \A i \in 1 .. n : Gap(t, pos[i - 1] + 1, pos[i]) /\ t[pos[i]] = w[i]
  BY <1>2 DEF Traced
<1> DEFINE P(k) == F[pos[k] + 1] = Left(w, k)
<1>4. \A i \in 1 .. Len(t) : F[i] = JoinStep(t, F, i)
  <2> TAKE i \in 1 .. Len(t)
  <2>1. i \in 1 .. Len(t) + 4
    BY <1>1
  <2>2. QED
    BY <2>1, JoinedUnfolds
<1> HIDE DEF F
<1>5. P(n)
  <2>1. F[m + 1] = JoinStep(t, F, Len(t) - 1)
    BY <1>1, <1>4
  <2>2. F[m + 1] = <<>>
    BY <2>1, JoinAtEnd
  <2>3. Left(w, n) = <<>>
    BY LeftIs
  <2>4. QED
    BY <2>2, <2>3, <1>3
<1>6. ASSUME NEW k \in 1 .. n, P(k) PROVE P(k - 1)
  <2> DEFINE a == pos[k - 1] + 1  b == pos[k]
  <2>0. k - 1 \in 0 .. n /\ k \in 0 .. n
    BY <1>1
  <2>1. pos[k - 1] \in 0 .. m /\ pos[k] \in 0 .. m
    <3>1. \A i \in 0 .. n : pos[i] \in 0 .. m
      BY <1>3, Zenon
    <3>2. QED
      BY <2>0, <3>1, Zenon
  <2>2. Gap(t, a, b) /\ t[b] = w[k]
    BY <1>3
  <2>3. a \in Nat /\ a > 0 /\ b \in 0 .. m
    BY <2>1, <1>1
  <2> HIDE DEF a, b
  <2>4. b >= a /\ b \in 1 .. Len(t) /\ b + 1 <= Len(t)
    <3>1. b = a \/ b = a + 3
      BY <2>2 DEF Gap
    <3>2. QED
      BY <3>1, <2>3, <1>1
  <2>5. w[k] # "lf"
    BY DEF Plain
  <2>6. t[b + 1] # "lf"
    <3>1. CASE k = n
      BY <3>1, <1>1, <1>3 DEF b
    <3>2. CASE k # n
      <4>1. k + 1 \in 1 .. n /\ (k + 1) - 1 = k
        BY <3>2, <1>1
      <4>2. Gap(t, b + 1, pos[k + 1]) /\ t[pos[k + 1]] = w[k + 1] /\ w[k + 1] # "lf"
        BY <4>1, <1>3 DEF b, Plain
      <4>3. QED
        BY <4>2 DEF Gap
    <3>3. QED
      BY <3>1, <3>2
  <2>7. F[b] = <<w[k]>> \o F[b + 1]
    <3>1. JoinStep(t, F, b) = <<t[b]>> \o F[b + 1]
      BY <2>2, <2>4, <2>5, <2>6, JoinOctet
    <3>2. F[b] = JoinStep(t, F, b)
      BY <2>4, <1>4
    <3>3. QED
      BY <3>1, <3>2, <2>2
  <2>8. F[b + 1] = Left(w, k)
    BY <1>6 DEF b
  <2>9. Left(w, k - 1) = <<w[k]>> \o Left(w, k)
    BY LeftIs
  <2>10. F[b] = Left(w, k - 1)
    BY <2>7, <2>8, <2>9
  <2>11. F[a] = F[b]
    <3>1. CASE b = a
      BY <3>1
    <3>2. CASE b # a
      <4>1. b = a + 3 /\ t[a] = "cr" /\ t[a + 1] = "lf" /\ t[a + 2] = "sp"
        BY <3>2, <2>2 DEF Gap
      <4>2. a \in 1 .. Len(t) /\ a + 2 <= Len(t)
        BY <4>1, <2>3, <2>4, <1>1
      <4>3. JoinStep(t, F, a) = F[a + 3]
        BY <4>1, <4>2, JoinFold
      <4>4. F[a] = JoinStep(t, F, a)
        BY <4>2, <1>4
      <4>5. QED
        BY <4>1, <4>3, <4>4
    <3>3. QED
      BY <3>1, <3>2
  <2>12. QED
    BY <2>10, <2>11 DEF a
<1> DEFINE S == {k \in 0 .. n : ~ P(n - k)}
<1> HIDE DEF P
<1>7. S = {}
  <2> SUFFICES ASSUME S # {} PROVE FALSE
    OBVIOUS
  <2>1. S \in SUBSET Nat
    BY <1>1
  <2>2. PICK k \in S : \A j \in S : k <= j
    BY <2>1, Least
  <2>3. k \in 0 .. n /\ ~ P(n - k)
    BY <2>2
  <2>4. k # 0
    <3>1. n - 0 = n
      BY <1>1
    <3>2. QED
      BY <3>1, <2>3, <1>5
  <2>5. k - 1 \in 0 .. n /\ k - 1 < k /\ n - (k - 1) \in 1 .. n /\ (n - (k - 1)) - 1 = n - k
    BY <2>3, <2>4, <1>1
  <2>6. k - 1 \notin S
    <3>1. ~ (k <= k - 1)
      BY <2>5
    <3>2. QED
      BY <2>2, <3>1, Zenon
  <2>7. P(n - (k - 1))
    BY <2>5, <2>6
  <2>8. P((n - (k - 1)) - 1)
    BY <2>5, <2>7, <1>6
  <2>9. QED
    BY <2>3, <2>5, <2>8
<1>8. P(0)
  <2>1. n \in 0 .. n /\ n - n = 0
    BY <1>1
  <2>2. QED
    BY <2>1, <1>7
<1>9. F[1] = w
  <2>1. F[pos[0] + 1] = Left(w, 0)
    BY <1>8 DEF P
  <2>2. pos[0] + 1 = 1 /\ Left(w, 0) = w
    BY <1>3, LeftIs
  <2>3. QED
    BY <2>1, <2>2
<1>10. QED
  BY <1>9, JoinedIs DEF F

-----------------------------------------------------------------------------
(* The line that a node makes, and ical_line of it.                        *)

Joint(s, c, v) == s \o <<c>> \o v
LineText(nd) ==
    IF nd.param = Absent THEN Joint(nd.name, ":", nd.val)
    ELSE Joint(Joint(nd.name, ";", nd.param), ":", nd.val)

Joins(w, s, c, v) ==
    /\ w \in Seq(Octets) /\ Len(w) = Len(s) + 1 + Len(v)
    /\ \A i \in 1 .. Len(s) : w[i] = s[i]
    /\ w[Len(s) + 1] = c
    /\ \A i \in 1 .. Len(v) : w[Len(s) + 1 + i] = v[i]

LEMMA JointIs ==
  ASSUME NEW s \in Seq(Octets), NEW c \in Octets, NEW v \in Seq(Octets)
  PROVE  Joins(Joint(s, c, v), s, c, v)
<1>1. ASSUME NEW b \in Seq(Octets), Len(b) = 1, NEW sc, sc = s \o b, NEW t, t = sc \o v
      PROVE  Joins(t, s, b[1], v)
  <2>1. s \in Seq(Octets) /\ b \in Seq(Octets) /\ v \in Seq(Octets)
        /\ sc = s \o b /\ t = sc \o v
    BY <1>1
  <2>2. /\ t \in Seq(Octets) /\ Len(t) = Len(s) + Len(b) + Len(v)
        /\ \A i \in 1 .. Len(s) : t[i] = s[i]
        /\ \A i \in 1 .. Len(b) : t[Len(s) + i] = b[i]
        /\ \A i \in 1 .. Len(v) : t[Len(s) + Len(b) + i] = v[i]
    BY <2>1, ChainedTwice
  <2>3. 1 \in 1 .. 1
    OBVIOUS
  <2>4. QED
    BY <1>1, <2>2, <2>3, Zenon DEF Joins
<1>2. \A S : \A a \in S : <<a>> \in Seq(S) /\ Len(<<a>>) = 1 /\ <<a>>[1] = a
  OBVIOUS
<1>3. <<c>> \in Seq(Octets) /\ Len(<<c>>) = 1 /\ <<c>>[1] = c
  BY <1>2, Zenon
<1>4. QED
  BY <1>1, <1>3, Zenon DEF Joint

LEMMA SameSeq ==
  ASSUME NEW S, NEW s \in Seq(S), NEW t \in Seq(S), Len(s) = Len(t),
         \A i \in 1 .. Len(s) : s[i] = t[i]
  PROVE  s = t
OBVIOUS

Cuts(w, k, s, v) == SubSeq(w, 1, k - 1) = s /\ SubSeq(w, k + 1, Len(w)) = v
Lacks(s, a) == \A i \in 1 .. Len(s) : s[i] # a

LEMMA JointCut ==
  ASSUME NEW s \in Seq(Octets), NEW v \in Seq(Octets), NEW c, NEW w, Joins(w, s, c, v),
         NEW k, k = Len(s) + 1
  PROVE  Cuts(w, k, s, v)
<1>1. /\ w \in Seq(Octets) /\ Len(w) = Len(s) + 1 + Len(v)
      /\ \A i \in 1 .. Len(s) : w[i] = s[i]
      /\ \A i \in 1 .. Len(v) : w[Len(s) + 1 + i] = v[i]
  BY DEF Joins
<1>2. SubSeq(w, 1, k - 1) = s
  <2>1. /\ SubSeq(w, 1, k - 1) \in Seq(Octets) /\ Len(SubSeq(w, 1, k - 1)) = Len(s)
        /\ \A i \in 1 .. Len(s) : SubSeq(w, 1, k - 1)[i] = s[i]
    BY <1>1
  <2>2. QED
    BY <2>1, SameSeq
<1>3. SubSeq(w, k + 1, Len(w)) = v
  <2>1. /\ SubSeq(w, k + 1, Len(w)) \in Seq(Octets)
        /\ Len(SubSeq(w, k + 1, Len(w))) = Len(v)
    BY <1>1
  <2>2. \A i \in 1 .. Len(v) : SubSeq(w, k + 1, Len(w))[i] = w[Len(s) + 1 + i]
    BY <1>1
  <2>3. \A i \in 1 .. Len(v) : SubSeq(w, k + 1, Len(w))[i] = v[i]
    BY <2>2, <1>1, Zenon
  <2>4. QED
    BY <2>1, <2>3, SameSeq
<1>4. QED
  BY <1>2, <1>3 DEF Cuts

(* The first of an octet, if there is one.                                 *)
LEMMA FirstIs ==
  ASSUME NEW s \in Seq(Octets), NEW c, NEW i \in 1 .. Len(s), s[i] = c,
         \A j \in 1 .. i - 1 : s[j] # c
  PROVE  FirstAt(s, c) = i
<1> DEFINE I == {j \in 1 .. Len(s) : s[j] = c}
<1>1. FirstAt(s, c) = IF I # {} THEN Min(I) ELSE 0
  BY Zenon DEF FirstAt, SelectInSeq
<1>2. i \in I /\ \A j \in I : i <= j
  OBVIOUS
<1>3. \A j \in I : (\A k \in I : j <= k) => j = i
  <2> SUFFICES ASSUME NEW j \in I, \A k \in I : j <= k PROVE j = i
    OBVIOUS
  <2>1. j <= i /\ i <= j /\ j \in Int /\ i \in Int
    BY <1>2
  <2>2. QED
    BY <2>1
<1> HIDE DEF I
<1>4. Min(I) \in I /\ \A k \in I : Min(I) <= k
  BY <1>2, Zenon DEF Min
<1>5. Min(I) = i
  BY <1>3, <1>4, Zenon
<1>6. QED
  BY <1>1, <1>2, <1>5

LEMMA NoneFirst ==
  ASSUME NEW s \in Seq(Octets), NEW c, Lacks(s, c)
  PROVE  FirstAt(s, c) = 0
<1> DEFINE I == {j \in 1 .. Len(s) : s[j] = c}
<1>1. FirstAt(s, c) = IF I # {} THEN Min(I) ELSE 0
  BY Zenon DEF FirstAt, SelectInSeq
<1>2. I = {}
  BY DEF Lacks
<1> HIDE DEF I
<1>3. QED
  BY <1>1, <1>2

LEMMA FirstJoint ==
  ASSUME NEW s \in Seq(Octets), NEW v \in Seq(Octets), NEW c, NEW w, Joins(w, s, c, v),
         Lacks(s, c)
  PROVE  FirstAt(w, c) = Len(s) + 1
<1>1. /\ w \in Seq(Octets) /\ Len(w) = Len(s) + 1 + Len(v)
      /\ \A i \in 1 .. Len(s) : w[i] = s[i]
      /\ w[Len(s) + 1] = c
  BY DEF Joins
<1>0. Len(s) \in Nat /\ Len(v) \in Nat
  OBVIOUS
<1>a. \A j \in 1 .. Len(s) : w[j] # c
  BY <1>1, Zenon DEF Lacks
<1>b. (Len(s) + 1) - 1 = Len(s) /\ Len(s) + 1 \in 1 .. Len(w)
  BY <1>0, <1>1
<1>2. Len(s) + 1 \in 1 .. Len(w) /\ \A j \in 1 .. (Len(s) + 1) - 1 : w[j] # c
  BY <1>a, <1>b, Zenon
<1>3. QED
  BY <1>1, <1>2, FirstIs

LEMMA WithoutIs ==
  ASSUME NEW stops, NEW s \in Without(stops)
  PROVE  s \in Seq(Octets) /\ \A i \in 1 .. Len(s) : s[i] \notin stops
BY DEF Without

LEMMA NodeIs ==
  ASSUME node \in Nodes
  PROVE  /\ node = [name |-> node.name, param |-> node.param, val |-> node.val]
         /\ node.name \in Seq(Octets) /\ node.val \in Seq(Octets)
         /\ node.param # Absent => node.param \in Seq(Octets)
         /\ \A i \in 1 .. Len(node.name) : node.name[i] \notin {"lf", ":", ";"}
         /\ node.param # Absent =>
               \A i \in 1 .. Len(node.param) : node.param[i] \notin {"lf", ":"}
         /\ \A i \in 1 .. Len(node.val) : node.val[i] # "lf"
<1>1. ASSUME NEW A, NEW B, NEW C, node \in [name : A, param : B \cup {Absent}, val : C]
      PROVE  /\ node = [name |-> node.name, param |-> node.param, val |-> node.val]
             /\ node.name \in A /\ node.param \in B \cup {Absent} /\ node.val \in C
  BY <1>1
<1>2. node \in [name : Without({"lf", ":", ";"}),
                param : Without({"lf", ":"}) \cup {Absent}, val : Without({"lf"})]
  BY NodesAssumption
<1>3. /\ node = [name |-> node.name, param |-> node.param, val |-> node.val]
      /\ node.name \in Without({"lf", ":", ";"})
      /\ node.param \in Without({"lf", ":"}) \cup {Absent}
      /\ node.val \in Without({"lf"})
  BY <1>1, <1>2, Zenon
<1>4. node.param # Absent => node.param \in Without({"lf", ":"})
  BY <1>3, Zenon
<1>5. node.name \in Seq(Octets)
      /\ \A i \in 1 .. Len(node.name) : node.name[i] \notin {"lf", ":", ";"}
  BY <1>3, WithoutIs, Zenon
<1>6. node.param # Absent =>
        node.param \in Seq(Octets)
        /\ \A i \in 1 .. Len(node.param) : node.param[i] \notin {"lf", ":"}
  BY <1>4, WithoutIs, Zenon
<1>7. node.val \in Seq(Octets)
      /\ \A i \in 1 .. Len(node.val) : node.val[i] \notin {"lf"}
  BY <1>3, WithoutIs, Zenon
<1>8. \A i \in 1 .. Len(node.val) : node.val[i] # "lf"
  BY <1>7, Zenon
<1>9. QED
  BY <1>3, <1>5, <1>6, <1>7, <1>8, Zenon
(* The two lines that a node can make.                                     *)
LEMMA LineIs ==
  ASSUME node \in Nodes
  PROVE  /\ node.param = Absent => Joins(LineText(node), node.name, ":", node.val)
         /\ node.param # Absent =>
               \E h \in Seq(Octets) : /\ Joins(h, node.name, ";", node.param)
                                      /\ Joins(LineText(node), h, ":", node.val)
<1>1. /\ node.name \in Seq(Octets) /\ node.val \in Seq(Octets)
      /\ node.param # Absent => node.param \in Seq(Octets)
      /\ ":" \in Octets /\ ";" \in Octets
  BY NodeIs, Octet, Zenon
<1>2. ASSUME node.param = Absent PROVE Joins(LineText(node), node.name, ":", node.val)
  BY <1>1, <1>2, JointIs, Zenon DEF LineText
<1>3. ASSUME node.param # Absent
      PROVE  \E h \in Seq(Octets) : /\ Joins(h, node.name, ";", node.param)
                                    /\ Joins(LineText(node), h, ":", node.val)
  <2> DEFINE h == Joint(node.name, ";", node.param)
  <2>1. Joins(h, node.name, ";", node.param)
    BY <1>1, <1>3, JointIs, Zenon
  <2>2. h \in Seq(Octets)
    BY <2>1, Zenon DEF Joins
  <2>3. LineText(node) = Joint(h, ":", node.val)
    BY <1>3, Zenon DEF LineText
  <2> HIDE DEF h
  <2>4. Joins(LineText(node), h, ":", node.val)
    BY <1>1, <2>2, <2>3, JointIs, Zenon
  <2>5. QED
    BY <2>1, <2>2, <2>4, Zenon
<1>4. QED
  BY <1>2, <1>3, Zenon

(* A line that has no colon before the joint: it has none in its parts.    *)
LEMMA JointLacks ==
  ASSUME NEW s \in Seq(Octets), NEW v \in Seq(Octets), NEW c, NEW w, Joins(w, s, c, v),
         NEW a, c # a, Lacks(s, a), Lacks(v, a)
  PROVE  Lacks(w, a)
<1>1. /\ w \in Seq(Octets) /\ Len(w) = Len(s) + 1 + Len(v)
      /\ \A i \in 1 .. Len(s) : w[i] = s[i]
      /\ w[Len(s) + 1] = c
      /\ \A i \in 1 .. Len(v) : w[Len(s) + 1 + i] = v[i]
  BY DEF Joins
<1>2. Len(s) \in Nat /\ Len(v) \in Nat
  OBVIOUS
<1>a. (\A i \in 1 .. Len(s) : s[i] # a) /\ (\A i \in 1 .. Len(v) : v[i] # a)
  BY Zenon DEF Lacks
<1> SUFFICES ASSUME NEW i \in 1 .. Len(w) PROVE w[i] # a
  BY Zenon DEF Lacks
<1>3. \/ i \in 1 .. Len(s)
      \/ i = Len(s) + 1
      \/ \E j \in 1 .. Len(v) : i = Len(s) + 1 + j
  <2>0. Len(w) = Len(s) + 1 + Len(v)
    BY <1>1
  <2>1. CASE i <= Len(s) + 1
    BY <2>0, <1>2, <2>1
  <2>2. CASE i > Len(s) + 1
    <3>1. i - (Len(s) + 1) \in 1 .. Len(v) /\ i = Len(s) + 1 + (i - (Len(s) + 1))
      BY <1>1, <1>2, <2>2
    <3>2. QED
      BY <3>1, Zenon
  <2>3. QED
    BY <1>1, <1>2, <2>1, <2>2
<1>4. CASE i \in 1 .. Len(s)
  BY <1>1, <1>a, <1>4, Zenon
<1>5. CASE i = Len(s) + 1
  BY <1>1, <1>5, Zenon
<1>6. CASE \E j \in 1 .. Len(v) : i = Len(s) + 1 + j
  BY <1>1, <1>a, <1>6, ZenonT(60)
<1>7. QED
  BY <1>3, <1>4, <1>5, <1>6, Zenon

LEMMA Length ==
  \A S : \A s \in Seq(S) : Len(s) \in Nat
OBVIOUS

LEMMA LineRead ==
  ASSUME node \in Nodes, NEW s, Joined(s) = LineText(node)
  PROVE  ical_line(s) = node
<1> DEFINE n == node.name  p == node.param  v == node.val
           line == Joined(s)
           colon == FirstAt(line, ":")
           head == SubSeq(line, 1, colon - 1)
           semi == FirstAt(head, ";")
           rest == SubSeq(line, colon + 1, Len(line))
           before == SubSeq(head, 1, semi - 1)
           after == SubSeq(head, semi + 1, Len(head))
           r == IF colon = 0 THEN Absent
                ELSE [name  |-> IF semi = 0 THEN head ELSE before,
                      param |-> IF semi = 0 THEN Absent ELSE after,
                      val   |-> rest]
<1>1. ical_line(s) = r
  BY Zenon DEF ical_line
<1>2. /\ node = [name |-> n, param |-> p, val |-> v]
      /\ n \in Seq(Octets) /\ v \in Seq(Octets) /\ (p # Absent => p \in Seq(Octets))
      /\ Lacks(n, ":") /\ Lacks(n, ";") /\ (p # Absent => Lacks(p, ":"))
  <2>1. /\ \A i \in 1 .. Len(n) : n[i] \notin {"lf", ":", ";"}
        /\ p # Absent => \A i \in 1 .. Len(p) : p[i] \notin {"lf", ":"}
    BY NodeIs, Zenon
  <2>2. QED
    BY <2>1, NodeIs, Zenon DEF Lacks
<1>a. n \in Seq(Octets) /\ v \in Seq(Octets)
  BY <1>2, Zenon
<1>b. p # Absent => p \in Seq(Octets)
  BY <1>2, Zenon
<1>c. Len(n) \in Nat
  BY <1>a, Length, Zenon
<1>3. /\ p = Absent => Joins(line, n, ":", v)
      /\ p # Absent => \E h \in Seq(Octets) : Joins(h, n, ";", p) /\ Joins(line, h, ":", v)
  BY LineIs, Zenon
<1> HIDE DEF n, p, v, line
<1>4. CASE p = Absent
  <2>1. Joins(line, n, ":", v)
    BY <1>3, <1>4, Zenon
  <2>2. colon = Len(n) + 1
    BY <2>1, <1>2, FirstJoint
  <2>3. head = n /\ rest = v
    <3>1. Cuts(line, colon, n, v)
      <4> HIDE DEF colon
      <4>1. QED
        BY <2>1, <2>2, <1>a, JointCut
    <3>2. QED
      BY <3>1, Zenon DEF Cuts
  <2>4. colon # 0
    BY <2>2, <1>c
  <2> HIDE DEF colon, head, rest
  <2>5. semi = 0
    BY <2>3, <1>2, NoneFirst
  <2> HIDE DEF semi, before, after
  <2>6. r = [name |-> n, param |-> Absent, val |-> v]
    BY <2>3, <2>4, <2>5, Zenon
  <2>7. QED
    BY <2>6, <1>1, <1>2, <1>4, Zenon
<1>5. CASE p # Absent
  <2>1. PICK h \in Seq(Octets) : Joins(h, n, ";", p) /\ Joins(line, h, ":", v)
    BY <1>3, <1>5, Zenon
  <2>2. Lacks(h, ":")
    <3>1. ";" # ":"
      OBVIOUS
    <3>2. Lacks(n, ":") /\ Lacks(p, ":")
      BY <1>2, <1>5, Zenon
    <3>3. n \in Seq(Octets) /\ p \in Seq(Octets)
      BY <1>a, <1>b, <1>5, Zenon
    <3>4. QED
      BY <3>1, <3>2, <3>3, <2>1, JointLacks, Zenon
  <2>3. colon = Len(h) + 1
    BY <2>1, <2>2, <1>2, FirstJoint
  <2>4. head = h /\ rest = v
    <3>1. Cuts(line, colon, h, v)
      <4> HIDE DEF colon
      <4>1. QED
        BY <2>1, <2>3, <1>a, JointCut
    <3>2. QED
      BY <3>1, Zenon DEF Cuts
  <2>5. colon # 0
    <3>1. Len(h) \in Nat
      BY <2>1, Length, Zenon
    <3> HIDE DEF colon
    <3>2. QED
      BY <2>3, <3>1
  <2> HIDE DEF colon, head, rest
  <2>6. semi = Len(n) + 1
    BY <2>1, <2>4, <1>2, <1>5, FirstJoint
  <2>7. before = n /\ after = p
    <3>0. Joins(head, n, ";", p) /\ n \in Seq(Octets) /\ p \in Seq(Octets)
      BY <2>1, <2>4, <1>a, <1>b, <1>5, Zenon
    <3>1. Cuts(head, semi, n, p)
      <4> HIDE DEF semi
      <4>1. QED
        BY <3>0, <2>6, JointCut
    <3>2. QED
      BY <3>1, Zenon DEF Cuts
  <2> HIDE DEF semi, before, after
  <2>8. semi # 0
    BY <2>6, <1>c
  <2>9. r = [name |-> n, param |-> p, val |-> v]
    BY <2>4, <2>5, <2>7, <2>8, Zenon
  <2>10. QED
    <3>1. node = [name |-> n, param |-> p, val |-> v]
      BY <1>2, Zenon
    <3> HIDE DEF r
    <3>2. QED
      BY <2>9, <3>1, <1>1, Zenon
<1>6. QED
  BY <1>4, <1>5, Zenon
-----------------------------------------------------------------------------
(* The parts that are put, and where each is in the line.                  *)

Piece(w, o, q) ==
    /\ q \in Seq(Octets) /\ Lacks(q, "lf")
    /\ o \in Nat /\ o + Len(q) <= Len(w)
    /\ \A j \in 1 .. Len(q) : w[o + j] = q[j]

LEMMA JointPieces ==
  ASSUME NEW s \in Seq(Octets), NEW v \in Seq(Octets), NEW c, NEW w, Joins(w, s, c, v),
         Lacks(s, "lf"), Lacks(v, "lf"),
         NEW b \in Seq(Octets), Len(b) = 1, b[1] = c, c # "lf"
  PROVE  Piece(w, 0, s) /\ Piece(w, Len(s), b) /\ Piece(w, Len(s) + 1, v)
<1>1. /\ w \in Seq(Octets) /\ Len(w) = Len(s) + 1 + Len(v)
      /\ \A i \in 1 .. Len(s) : w[i] = s[i]
      /\ w[Len(s) + 1] = c
      /\ \A i \in 1 .. Len(v) : w[Len(s) + 1 + i] = v[i]
  BY Zenon DEF Joins
<1>2. Len(s) \in Nat /\ Len(v) \in Nat
  BY Length, Zenon
<1>3. Piece(w, 0, s)
  <2>1. 0 \in Nat /\ 0 + Len(s) <= Len(w) /\ \A j \in 1 .. Len(s) : 0 + j = j
    BY <1>1, <1>2
  <2>2. QED
    BY <1>1, <2>1, Zenon DEF Piece
<1>4. Piece(w, Len(s), b)
  <2>1. Len(s) + Len(b) <= Len(w) /\ \A j \in 1 .. Len(b) : j = 1
    BY <1>1, <1>2
  <2>2. Lacks(b, "lf")
    BY <2>1, Zenon DEF Lacks
  <2>3. QED
    BY <1>1, <1>2, <2>1, <2>2, Zenon DEF Piece
<1>5. Piece(w, Len(s) + 1, v)
  <2>1. Len(s) + 1 \in Nat /\ Len(s) + 1 + Len(v) <= Len(w)
    BY <1>1, <1>2
  <2>2. QED
    BY <1>1, <2>1, Zenon DEF Piece
<1>6. QED
  BY <1>3, <1>4, <1>5, Zenon

LEMMA PieceStays ==
  ASSUME NEW s \in Seq(Octets), NEW v \in Seq(Octets), NEW c, NEW w, Joins(w, s, c, v),
         NEW o, NEW q, Piece(s, o, q)
  PROVE  Piece(w, o, q)
<1>1. Len(w) = Len(s) + 1 + Len(v) /\ \A i \in 1 .. Len(s) : w[i] = s[i]
  BY Zenon DEF Joins
<1>2. /\ q \in Seq(Octets) /\ Lacks(q, "lf")
      /\ o \in Nat /\ o + Len(q) <= Len(s)
      /\ \A j \in 1 .. Len(q) : s[o + j] = q[j]
  BY Zenon DEF Piece
<1>3. Len(s) \in Nat /\ Len(v) \in Nat /\ Len(q) \in Nat
  BY <1>2, Length, Zenon
<1>4. o + Len(q) <= Len(w) /\ \A j \in 1 .. Len(q) : o + j \in 1 .. Len(s)
  BY <1>1, <1>2, <1>3
<1>5. QED
  BY <1>1, <1>2, <1>4, Zenon DEF Piece

(* The octets put before part p.                                           *)
Offset(nd, p) ==
    LET n == Len(nd.name)
    IN IF p = 1 THEN 0
       ELSE IF p = 2 THEN n
       ELSE IF p = 3 THEN n + 1
       ELSE IF nd.param # Absent /\ p = 4 THEN n + 1 + Len(nd.param)
       ELSE IF nd.param # Absent /\ p = 5 THEN n + 1 + Len(nd.param) + 1
       ELSE Len(LineText(nd))

IsPart(p) ==
    /\ Piece(LineText(node), Offset(node, p), Parts[p])
    /\ Offset(node, p + 1) = Offset(node, p) + Len(Parts[p])
    /\ p % 2 = 0 => Len(Parts[p]) = 1 /\ Parts[p][1] \in {":", ";"}

LEMMA OneOctet ==
  /\ <<":">> \in Seq(Octets) /\ Len(<<":">>) = 1 /\ <<":">>[1] = ":"
  /\ <<";">> \in Seq(Octets) /\ Len(<<";">>) = 1 /\ <<";">>[1] = ";"
<1>1. \A S : \A a \in S : <<a>> \in Seq(S) /\ Len(<<a>>) = 1 /\ <<a>>[1] = a
  OBVIOUS
<1>2. QED
  BY <1>1, Octet, Zenon
LEMMA TwoParts ==
  ASSUME node \in Nodes, node.param = Absent
  PROVE  Len(Parts) = 3 /\ \A p \in 1 .. 3 : IsPart(p)
<1> DEFINE n == node.name  v == node.val  w == LineText(node)
<1>1. /\ n \in Seq(Octets) /\ v \in Seq(Octets) /\ Lacks(n, "lf") /\ Lacks(v, "lf")
  <2>1. \A i \in 1 .. Len(n) : n[i] \notin {"lf", ":", ";"}
    BY NodeIs, Zenon
  <2>2. QED
    BY <2>1, NodeIs, Zenon DEF Lacks
<1>2. Joins(w, n, ":", v)
  BY LineIs, Zenon
<1>3. Piece(w, 0, n) /\ Piece(w, Len(n), <<":">>) /\ Piece(w, Len(n) + 1, v)
  <2>1. ":" # "lf"
    OBVIOUS
  <2> HIDE DEF n, v, w
  <2>2. QED
    BY <1>1, <1>2, <2>1, OneOctet, JointPieces, Zenon
<1>4. \A a, b, c : /\ Len(<<a, b, c>>) = 3
                   /\ <<a, b, c>>[1] = a /\ <<a, b, c>>[2] = b /\ <<a, b, c>>[3] = c
  OBVIOUS
<1>5. Parts = <<n, <<":">>, v>>
  BY Zenon DEF Parts
<1>6. Len(Parts) = 3 /\ Parts[1] = n /\ Parts[2] = <<":">> /\ Parts[3] = v
  BY <1>4, <1>5, Zenon
<1>7. /\ Offset(node, 1) = 0 /\ Offset(node, 2) = Len(n) /\ Offset(node, 3) = Len(n) + 1
      /\ Offset(node, 4) = Len(w)
  BY DEF Offset
<1>8. /\ Len(w) = Len(n) + 1 + Len(v) /\ Len(n) \in Nat /\ Len(v) \in Nat
  BY <1>1, <1>2, Length, Zenon DEF Joins
<1> HIDE DEF n, v, w
<1>9. /\ Offset(node, 1 + 1) = Offset(node, 1) + Len(Parts[1])
      /\ Offset(node, 2 + 1) = Offset(node, 2) + 1 /\ Offset(node, 3 + 1) = Offset(node, 3) + Len(Parts[3])
  BY <1>6, <1>7, <1>8
<1>10. IsPart(1)
  <2>1. 1 % 2 # 0
    OBVIOUS
  <2>2. QED
    BY <1>3, <1>6, <1>7, <1>9, <2>1, Zenon DEF IsPart, w
<1>11. IsPart(2)
  BY <1>3, <1>6, <1>7, <1>9, OneOctet, Zenon DEF IsPart, w
<1>12. IsPart(3)
  <2>1. 3 % 2 # 0
    OBVIOUS
  <2>2. QED
    BY <1>3, <1>6, <1>7, <1>9, <2>1, Zenon DEF IsPart, w
<1>13. \A p \in 1 .. 3 : p = 1 \/ p = 2 \/ p = 3
  OBVIOUS
<1>14. QED
  BY <1>6, <1>10, <1>11, <1>12, <1>13, Zenon

LEMMA ThreeParts ==
  ASSUME node \in Nodes, node.param # Absent
  PROVE  Len(Parts) = 5 /\ \A p \in 1 .. 5 : IsPart(p)
<1> DEFINE n == node.name  m == node.param  v == node.val  w == LineText(node)
<1>1. /\ n \in Seq(Octets) /\ m \in Seq(Octets) /\ v \in Seq(Octets)
      /\ Lacks(n, "lf") /\ Lacks(m, "lf") /\ Lacks(v, "lf")
  <2>1. /\ \A i \in 1 .. Len(n) : n[i] \notin {"lf", ":", ";"}
        /\ \A i \in 1 .. Len(m) : m[i] \notin {"lf", ":"}
    BY NodeIs, Zenon
  <2>2. QED
    BY <2>1, NodeIs, Zenon DEF Lacks
<1>2. PICK h \in Seq(Octets) : Joins(h, n, ";", m) /\ Joins(w, h, ":", v)
  BY LineIs, Zenon
<1>3. Piece(h, 0, n) /\ Piece(h, Len(n), <<";">>) /\ Piece(h, Len(n) + 1, m)
  <2>1. ";" # "lf"
    OBVIOUS
  <2> HIDE DEF n, m, v, w
  <2>2. QED
    BY <1>1, <1>2, <2>1, OneOctet, JointPieces, Zenon
<1>4. Lacks(h, "lf")
  <2>1. ";" # "lf"
    OBVIOUS
  <2> HIDE DEF n, m, v, w
  <2>2. QED
    BY <1>1, <1>2, <2>1, JointLacks, ZenonT(60)
<1>5. Piece(w, Len(h), <<":">>) /\ Piece(w, Len(h) + 1, v)
  <2>1. ":" # "lf"
    OBVIOUS
  <2> HIDE DEF n, m, v, w
  <2>2. QED
    BY <1>1, <1>2, <1>4, <2>1, OneOctet, JointPieces, Zenon
<1>6. Piece(w, 0, n) /\ Piece(w, Len(n), <<";">>) /\ Piece(w, Len(n) + 1, m)
  <2> HIDE DEF n, m, v, w
  <2>1. QED
    BY <1>1, <1>2, <1>3, PieceStays, Zenon
<1>7. \A a, b, c, d, e :
        /\ Len(<<a, b, c, d, e>>) = 5
        /\ <<a, b, c, d, e>>[1] = a /\ <<a, b, c, d, e>>[2] = b /\ <<a, b, c, d, e>>[3] = c
        /\ <<a, b, c, d, e>>[4] = d /\ <<a, b, c, d, e>>[5] = e
  OBVIOUS
<1>8. Parts = <<n, <<";">>, m, <<":">>, v>>
  BY Zenon DEF Parts
<1>9. /\ Len(Parts) = 5 /\ Parts[1] = n /\ Parts[2] = <<";">> /\ Parts[3] = m
      /\ Parts[4] = <<":">> /\ Parts[5] = v
  BY <1>7, <1>8, Zenon
<1>10. /\ Offset(node, 1) = 0 /\ Offset(node, 2) = Len(n) /\ Offset(node, 3) = Len(n) + 1
       /\ Offset(node, 4) = Len(n) + 1 + Len(m) /\ Offset(node, 5) = Len(n) + 1 + Len(m) + 1
       /\ Offset(node, 6) = Len(w)
  BY DEF Offset
<1>11. /\ Len(w) = Len(h) + 1 + Len(v) /\ Len(h) = Len(n) + 1 + Len(m)
       /\ Len(n) \in Nat /\ Len(m) \in Nat /\ Len(v) \in Nat
  BY <1>1, <1>2, Length, Zenon DEF Joins
<1> HIDE DEF n, m, v, w
<1>12. /\ Offset(node, 1 + 1) = Offset(node, 1) + Len(Parts[1])
       /\ Offset(node, 2 + 1) = Offset(node, 2) + 1 /\ Offset(node, 3 + 1) = Offset(node, 3) + Len(Parts[3])
       /\ Offset(node, 4 + 1) = Offset(node, 4) + 1 /\ Offset(node, 5 + 1) = Offset(node, 5) + Len(Parts[5])
       /\ Offset(node, 4) = Len(h) /\ Offset(node, 5) = Len(h) + 1
  <2>1. 1 + 1 = 2 /\ 2 + 1 = 3 /\ 3 + 1 = 4 /\ 4 + 1 = 5 /\ 5 + 1 = 6
    OBVIOUS
  <2>2. /\ 0 + Len(n) = Len(n)
        /\ Len(w) = Len(n) + 1 + Len(m) + 1 + Len(v)
    BY <1>11
  <2>3. QED
    BY <1>9, <1>10, <1>11, <2>1, <2>2, Zenon
<1>13. 1 % 2 # 0 /\ 3 % 2 # 0 /\ 5 % 2 # 0
  OBVIOUS
<1>14. IsPart(1)
  BY <1>6, <1>9, <1>10, <1>12, <1>13, Zenon DEF IsPart, w
<1>15. IsPart(2)
  BY <1>6, <1>9, <1>10, <1>12, OneOctet, Zenon DEF IsPart, w
<1>16. IsPart(3)
  BY <1>6, <1>9, <1>10, <1>12, <1>13, Zenon DEF IsPart, w
<1>17. IsPart(4)
  BY <1>5, <1>9, <1>12, OneOctet, Zenon DEF IsPart, w
<1>18. IsPart(5)
  BY <1>5, <1>9, <1>12, <1>13, Zenon DEF IsPart, w
<1>19. \A p \in 1 .. 5 : p = 1 \/ p = 2 \/ p = 3 \/ p = 4 \/ p = 5
  OBVIOUS
<1>20. QED
  BY <1>9, <1>14, <1>15, <1>16, <1>17, <1>18, <1>19, Zenon

LEMMA PartsIs ==
  ASSUME node \in Nodes
  PROVE  /\ Len(Parts) \in {3, 5} /\ \A p \in 1 .. Len(Parts) : IsPart(p)
         /\ Offset(node, 1) = 0
         /\ Offset(node, Len(Parts) + 1) = Len(LineText(node))
         /\ Offset(node, Len(Parts) + 2) = Len(LineText(node))
         /\ LineText(node) \in Seq(Octets) /\ Plain(LineText(node), 1, Len(LineText(node)))
<1>1. CASE node.param = Absent
  <2>1. Len(Parts) = 3 /\ \A p \in 1 .. 3 : IsPart(p)
    BY <1>1, TwoParts, Zenon
  <2>2. Offset(node, 4) = Len(LineText(node)) /\ Offset(node, 5) = Len(LineText(node))
    BY <1>1 DEF Offset
  <2>3. Len(Parts) + 1 = 4 /\ Len(Parts) + 2 = 5 /\ Len(Parts) \in {3, 5}
    BY <2>1
  <2>4. Offset(node, 1) = 0
    BY Zenon DEF Offset
  <2>5. node.name \in Seq(Octets) /\ node.val \in Seq(Octets)
        /\ Joins(LineText(node), node.name, ":", node.val)
    BY <1>1, NodeIs, LineIs, Zenon
  <2>6. Lacks(node.name, "lf") /\ Lacks(node.val, "lf")
    <3>1. \A i \in 1 .. Len(node.name) : node.name[i] \notin {"lf", ":", ";"}
      BY NodeIs, Zenon
    <3>2. QED
      BY <3>1, NodeIs, Zenon DEF Lacks
  <2>7. ":" # "lf"
    OBVIOUS
  <2>8. Lacks(LineText(node), "lf")
    BY <2>5, <2>6, <2>7, JointLacks, Zenon
  <2>9. LineText(node) \in Seq(Octets)
    BY <2>5, Zenon DEF Joins
  <2>10. QED
    <3>1. Plain(LineText(node), 1, Len(LineText(node)))
      BY <2>8, Zenon DEF Lacks, Plain
    <3>2. \A p \in 1 .. Len(Parts) : IsPart(p)
      BY <2>1, Zenon
    <3>3. /\ Offset(node, Len(Parts) + 1) = Len(LineText(node))
          /\ Offset(node, Len(Parts) + 2) = Len(LineText(node))
      BY <2>2, <2>3, Zenon
    <3>4. QED
      BY <2>3, <2>4, <2>9, <3>1, <3>2, <3>3, Zenon
<1>2. CASE node.param # Absent
  <2>1. Len(Parts) = 5 /\ \A p \in 1 .. 5 : IsPart(p)
    BY <1>2, ThreeParts, Zenon
  <2>2. Offset(node, 6) = Len(LineText(node)) /\ Offset(node, 7) = Len(LineText(node))
    BY <1>2 DEF Offset
  <2>3. Len(Parts) + 1 = 6 /\ Len(Parts) + 2 = 7 /\ Len(Parts) \in {3, 5}
    BY <2>1
  <2>4. Offset(node, 1) = 0
    BY Zenon DEF Offset
  <2>5. PICK h \in Seq(Octets) : /\ Joins(h, node.name, ";", node.param)
                                 /\ Joins(LineText(node), h, ":", node.val)
    BY <1>2, LineIs, Zenon
  <2>6. /\ node.name \in Seq(Octets) /\ node.val \in Seq(Octets)
        /\ node.param \in Seq(Octets)
    BY <1>2, NodeIs, Zenon
  <2>7. Lacks(node.name, "lf") /\ Lacks(node.val, "lf") /\ Lacks(node.param, "lf")
    <3>1. /\ \A i \in 1 .. Len(node.name) : node.name[i] \notin {"lf", ":", ";"}
          /\ \A i \in 1 .. Len(node.param) : node.param[i] \notin {"lf", ":"}
      BY <1>2, NodeIs, Zenon
    <3>2. QED
      BY <3>1, NodeIs, Zenon DEF Lacks
  <2>8. ":" # "lf" /\ ";" # "lf"
    OBVIOUS
  <2>9. Lacks(h, "lf")
    BY <2>5, <2>6, <2>7, <2>8, JointLacks, Zenon
  <2>10. Lacks(LineText(node), "lf")
    <3>1. Joins(LineText(node), h, ":", node.val) /\ Lacks(node.val, "lf")
          /\ node.val \in Seq(Octets) /\ ":" # "lf"
      BY <2>5, <2>6, <2>7, <2>8, Zenon
    <3>2. QED
      BY <3>1, <2>9, JointLacks
  <2>11. LineText(node) \in Seq(Octets)
    BY <2>5, Zenon DEF Joins
  <2>12. QED
    <3>1. Plain(LineText(node), 1, Len(LineText(node)))
      BY <2>10, Zenon DEF Lacks, Plain
    <3>2. \A p \in 1 .. Len(Parts) : IsPart(p)
      BY <2>1, Zenon
    <3>3. /\ Offset(node, Len(Parts) + 1) = Len(LineText(node))
          /\ Offset(node, Len(Parts) + 2) = Len(LineText(node))
      BY <2>2, <2>3, Zenon
    <3>4. QED
      BY <2>3, <2>4, <2>11, <3>1, <3>2, <3>3, Zenon
<1>3. QED
  BY <1>1, <1>2, Zenon
-----------------------------------------------------------------------------
(* The loop invariant of icalnode_print.                                   *)

AllWhole == \A p \in DOMAIN Parts : Whole(Parts[p])

LinesType ==
    /\ node \in Nodes
    /\ part \in 1 .. Len(Parts) + 2
    /\ at \in 1 .. (IF part <= Len(Parts) THEN Len(Here) + 1 ELSE 1)
    /\ col \in 0 .. Width /\ out \in Seq(Octets)
    /\ Printed => Len(out) > 1 /\ out[Len(out) - 1] = "cr" /\ out[Len(out)] = "lf"

Progress == Offset(node, part) + at - 1

LinesInv ==
    /\ LinesType
    /\ FitOK(out, col) /\ EndsOK(out)
    /\ AllWhole => /\ CutOK(out)
                   /\ part <= Len(Parts) => WholeFrom(Here)[at]
    /\ Reaches(out, LineText(node), Progress, IF Printed THEN Len(out) - 2 ELSE Len(out))

LEMMA PartsDomain == DOMAIN Parts = 1 .. Len(Parts)
<1>1. \A a, b, c : DOMAIN <<a, b, c>> = 1 .. Len(<<a, b, c>>)
  OBVIOUS
<1>2. \A a, b, c, d, e : DOMAIN <<a, b, c, d, e>> = 1 .. Len(<<a, b, c, d, e>>)
  OBVIOUS
<1>3. \/ Parts = <<node.name, <<":">>, node.val>>
      \/ Parts = <<node.name, <<";">>, node.param, <<":">>, node.val>>
  BY Zenon DEF Parts
<1>4. QED
  BY <1>1, <1>2, <1>3, Zenon

LEMMA InitLines == LinesInit => LinesInv
<1> SUFFICES ASSUME LinesInit PROVE LinesInv
  OBVIOUS
<1>1. node \in Nodes /\ part = 1 /\ at = 1 /\ col = 0 /\ out = <<>>
  BY DEF LinesInit
<1>2. /\ Len(Parts) \in {3, 5} /\ IsPart(1) /\ Offset(node, 1) = 0
      /\ LineText(node) \in Seq(Octets)
  <2>1. /\ Len(Parts) \in {3, 5} /\ \A p \in 1 .. Len(Parts) : IsPart(p)
        /\ Offset(node, 1) = 0 /\ LineText(node) \in Seq(Octets)
    BY <1>1, PartsIs, Zenon
  <2>2. 1 \in 1 .. Len(Parts)
    <3>1. \A l \in {3, 5} : 1 \in 1 .. l
      OBVIOUS
    <3>2. QED
      BY <2>1, <3>1, Zenon
  <2>3. QED
    BY <2>1, <2>2, Zenon
<1>3. ~ Printed /\ 1 <= Len(Parts) /\ part \in 1 .. Len(Parts) + 2
  <2>1. \A n \in {3, 5} : 1 # n + 2 /\ 1 <= n /\ 1 \in 1 .. n + 2
    OBVIOUS
  <2>2. QED
    BY <1>1, <1>2, <2>1, Zenon DEF Printed
<1>4. Parts[1] \in Seq(Octets)
  BY <1>2, Zenon DEF IsPart, Piece
<1>5. <<>> \in Seq(Octets) /\ Len(<<>>) = 0
  OBVIOUS
<1>6. LinesType
  <2>1. at \in 1 .. (IF part <= Len(Parts) THEN Len(Here) + 1 ELSE 1)
    <3>1. Len(Parts[1]) \in Nat
      BY <1>4, Length, Zenon
    <3>2. Len(Here) \in Nat
      BY <3>1, <1>1, Zenon DEF Here
    <3>3. QED
      BY <3>2, <1>1
  <2>2. col \in 0 .. Width
    BY <1>1, WidthAssumption
  <2>3. QED
    BY <1>1, <1>3, <1>5, <2>1, <2>2, Zenon DEF LinesType
<1>7. FitOK(out, col) /\ EndsOK(out) /\ CutOK(out)
  BY <1>1, <1>5 DEF FitOK, LastFits, OthersFit, EndsOK, CutOK
<1>8. AllWhole => WholeFrom(Here)[at]
  <2>1. 1 \in DOMAIN Parts
    <3>1. \A n \in {3, 5} : 1 \in 1 .. n
      OBVIOUS
    <3>2. QED
      BY <3>1, <1>2, PartsDomain, Zenon
  <2>2. QED
    BY <2>1, <1>1, WholeIs, Zenon DEF AllWhole, Here
<1>9. Reaches(out, LineText(node), Progress, IF Printed THEN Len(out) - 2 ELSE Len(out))
  <2>1. Progress = 0
    <3>1. 0 + 1 - 1 = 0
      OBVIOUS
    <3>2. QED
      BY <3>1, <1>1, <1>2, Zenon DEF Progress
  <2>2. QED
    BY <2>1, <1>1, <1>2, <1>3, <1>5, ReachesNone, Zenon
<1>10. QED
  BY <1>6, <1>7, <1>8, <1>9, Zenon DEF LinesInv
(* A piece put: what the loop keeps, of the octets s for k of the line w.  *)
Kept(s, c, w, k) == FitOK(s, c) /\ EndsOK(s) /\ Reaches(s, w, k, Len(s))

LEMMA PieceKept ==
  ASSUME NEW s \in Seq(Octets), NEW t \in Seq(Octets), NEW u \in Seq(Octets),
         NEW f \in {0, 3}, Grown(s, t, u, f), Len(u) > 0, Plain(u, 1, Len(u)),
         NEW c \in 0 .. Width, NEW w \in Seq(Octets), NEW k \in Nat, Kept(s, c, w, k),
         \A j \in 1 .. Len(u) : u[j] = w[k + j],
         NEW d, d = (IF f = 3 THEN 1 ELSE c) + Len(u)
  PROVE  Kept(t, d, w, k + Len(u))
<1>1. FitOK(s, c) /\ EndsOK(s) /\ Reaches(s, w, k, Len(s)) /\ LastFits(s, c) /\ c \in Nat
  <2>1. c \in Nat
    OBVIOUS
  <2>2. QED
    BY <2>1, Zenon DEF Kept, FitOK
<1>2. LastFits(t, (IF f = 3 THEN 1 ELSE c) + Len(u))
  BY <1>1, LastFitsGrows
<1>3. OthersFit(t)
  BY <1>1, OthersFitGrow
<1>4. EndsOK(t)
  BY <1>1, EndsGrow
<1>5. Reaches(t, w, k + Len(u), Len(t))
  BY <1>1, ReachGrows
<1>6. QED
  BY <1>2, <1>3, <1>4, <1>5, Zenon DEF Kept, FitOK

LEMMA PutIs ==
  ASSUME out \in Seq(Octets), NEW u \in Seq(Octets), NEW g \in BOOLEAN, Put(u, g)
  PROVE  \E f \in {0, 3} : /\ Grown(out, out', u, f) /\ out' \in Seq(Octets)
                           /\ f = IF g THEN 3 ELSE 0
                           /\ col' = (IF f = 3 THEN 1 ELSE col) + Len(u)
<1>1. /\ out' = out \o (IF g THEN Fold ELSE <<>>) \o u
      /\ col' = (IF g THEN 1 ELSE col) + Len(u)
  BY Zenon DEF Put
<1>2. 0 # 3
  OBVIOUS
<1>3. CASE g
  <2>1. Grown(out, out', u, 3)
    BY <1>1, <1>3, Growth, Zenon
  <2>2. QED
    BY <1>1, <1>3, <2>1, Zenon DEF Grown
<1>4. CASE ~ g
  <2>1. Grown(out, out', u, 0)
    BY <1>1, <1>4, Growth, Zenon
  <2>2. QED
    BY <1>1, <1>2, <1>4, <2>1, Zenon DEF Grown
<1>5. QED
  BY <1>3, <1>4, Zenon

(* The part that is being put.                                             *)
LEMMA HereIs ==
  ASSUME LinesInv, part <= Len(Parts)
  PROVE  /\ part \in 1 .. Len(Parts) /\ Len(Parts) \in {3, 5} /\ ~ Printed /\ IsPart(part)
         /\ Here \in Seq(Octets) /\ Len(Here) \in Nat /\ at \in 1 .. Len(Here) + 1
         /\ Offset(node, part) \in Nat /\ Progress \in Nat
         /\ LineText(node) \in Seq(Octets)
         /\ \A j \in 1 .. Len(Here) + 1 - at :
               /\ LineText(node)[Progress + j] = Here[at + j - 1]
               /\ Here[at + j - 1] # "lf"
<1>1. /\ node \in Nodes /\ part \in 1 .. Len(Parts) + 2
      /\ at \in 1 .. (IF part <= Len(Parts) THEN Len(Here) + 1 ELSE 1)
  BY Zenon DEF LinesInv, LinesType
<1>2. /\ Len(Parts) \in {3, 5} /\ \A p \in 1 .. Len(Parts) : IsPart(p)
      /\ LineText(node) \in Seq(Octets)
  BY <1>1, PartsIs, Zenon
<1>3. part \in 1 .. Len(Parts) /\ ~ Printed
  <2>1. \A n \in {3, 5} : \A p \in 1 .. n + 2 : p <= n => p \in 1 .. n /\ p # n + 2
    OBVIOUS
  <2>2. QED
    BY <1>1, <1>2, <2>1, Zenon DEF Printed
<1>4. Piece(LineText(node), Offset(node, part), Here) /\ IsPart(part)
  BY <1>2, <1>3, Zenon DEF IsPart, Here
<1>5. /\ Here \in Seq(Octets) /\ Lacks(Here, "lf")
      /\ Offset(node, part) \in Nat
      /\ \A j \in 1 .. Len(Here) : LineText(node)[Offset(node, part) + j] = Here[j]
  BY <1>4, Zenon DEF Piece
<1>6. Len(Here) \in Nat /\ at \in 1 .. Len(Here) + 1
  BY <1>1, <1>5, Length, Zenon
<1>7. Progress \in Nat /\ Progress = Offset(node, part) + at - 1
  <2>1. \A o \in Nat, n \in Nat : \A a \in 1 .. n + 1 : o + a - 1 \in Nat
    OBVIOUS
  <2>2. QED
    BY <2>1, <1>5, <1>6, Zenon DEF Progress
<1>8. ASSUME NEW j \in 1 .. Len(Here) + 1 - at
      PROVE  /\ LineText(node)[Progress + j] = Here[at + j - 1]
             /\ Here[at + j - 1] # "lf"
  <2>1. \A o \in Nat, n \in Nat : \A a \in 1 .. n + 1 : \A i \in 1 .. n + 1 - a :
           a + i - 1 \in 1 .. n /\ (o + a - 1) + i = o + (a + i - 1)
    OBVIOUS
  <2>2. /\ at + j - 1 \in 1 .. Len(Here)
        /\ Progress + j = Offset(node, part) + (at + j - 1)
    BY <2>1, <1>5, <1>6, <1>7, Zenon
  <2>3. QED
    BY <2>2, <1>5, Zenon DEF Lacks
<1>9. QED
  BY <1>2, <1>3, <1>4, <1>5, <1>6, <1>7, <1>8, Zenon
LEMMA PutStep ==
  ASSUME LinesInv, part <= Len(Parts), UNCHANGED <<node, part>>,
         NEW u \in Seq(Octets), Len(u) \in 1 .. Len(Here) + 1 - at,
         \A j \in 1 .. Len(u) : u[j] = Here[at + j - 1],
         NEW g \in BOOLEAN, Put(u, g), (IF g THEN 1 ELSE col) + Len(u) <= Width,
         at' = at + Len(u),
         AllWhole => Single(u) /\ WholeFrom(Here)[at + Len(u)]
  PROVE  LinesInv'
<1>1. /\ part \in 1 .. Len(Parts) /\ Len(Parts) \in {3, 5} /\ ~ Printed
      /\ Here \in Seq(Octets) /\ Len(Here) \in Nat /\ at \in 1 .. Len(Here) + 1
      /\ Offset(node, part) \in Nat /\ Progress \in Nat
      /\ LineText(node) \in Seq(Octets)
      /\ \A j \in 1 .. Len(Here) + 1 - at :
            /\ LineText(node)[Progress + j] = Here[at + j - 1]
            /\ Here[at + j - 1] # "lf"
  BY HereIs, Zenon
<1>2. /\ node \in Nodes /\ col \in 0 .. Width /\ out \in Seq(Octets)
      /\ FitOK(out, col) /\ EndsOK(out) /\ (AllWhole => CutOK(out))
      /\ part \in 1 .. Len(Parts) + 2
      /\ Reaches(out, LineText(node), Progress, Len(out))
  BY <1>1, Zenon DEF LinesInv, LinesType
<1>3. \A j \in 1 .. Len(u) : u[j] = LineText(node)[Progress + j] /\ u[j] # "lf"
  <2>1. \A j \in 1 .. Len(u) : j \in 1 .. Len(Here) + 1 - at
    <3>1. \A m \in Nat : \A n \in 1 .. m + 1 : \A k \in 1 .. m + 1 - n : \A j \in 1 .. k :
             j \in 1 .. m + 1 - n
      OBVIOUS
    <3>2. QED
      BY <1>1, <3>1, Zenon
  <2>2. QED
    BY <2>1, <1>1, Zenon
<1>4. PICK f \in {0, 3} :
        /\ Grown(out, out', u, f) /\ out' \in Seq(Octets)
        /\ f = IF g THEN 3 ELSE 0
        /\ col' = (IF f = 3 THEN 1 ELSE col) + Len(u)
  BY <1>2, PutIs, Zenon
<1>5. Len(u) > 0 /\ Len(u) \in Nat /\ 0 # 3 /\ col' \in Nat
  <2>1. Len(u) > 0 /\ Len(u) \in Nat /\ 0 # 3
    BY Length
  <2>2. \A c \in 0 .. Width, n \in Nat : c + n \in Nat /\ 1 + n \in Nat
    BY WidthAssumption
  <2>3. QED
    BY <1>2, <1>4, <2>1, <2>2, Zenon
<1>6. Kept(out', col', LineText(node), Progress + Len(u))
  <2>1. Kept(out, col, LineText(node), Progress)
    BY <1>2, Zenon DEF Kept
  <2>2. Plain(u, 1, Len(u)) /\ \A j \in 1 .. Len(u) : u[j] = LineText(node)[Progress + j]
    BY <1>3, Zenon DEF Plain
  <2>3. QED
    BY <1>1, <1>2, <1>4, <1>5, <2>1, <2>2, PieceKept, Zenon
<1>7. /\ Parts' = Parts /\ Here' = Here /\ (Printed' <=> Printed) /\ node' = node
      /\ part' = part /\ (AllWhole' <=> AllWhole)
  <2>1. node' = node /\ part' = part
    OBVIOUS
  <2>2. Parts' = Parts
    BY <2>1, Zenon DEF Parts
  <2>3. QED
    BY <2>1, <2>2, Zenon DEF Here, Printed, AllWhole
<1>8. Progress' = Progress + Len(u)
  <2>1. \A o \in Nat, a \in Nat, n \in Nat : o + (a + n) - 1 = (o + a - 1) + n
    OBVIOUS
  <2>2. at \in Nat
    BY <1>1
  <2>3. Progress' = Offset(node, part) + (at + Len(u)) - 1
    BY <1>7, Zenon DEF Progress
  <2>4. QED
    <3>1. Offset(node, part) \in Nat /\ Len(u) \in Nat
      BY <1>1, <1>5
    <3>2. Offset(node, part) + (at + Len(u)) - 1 = (Offset(node, part) + at - 1) + Len(u)
      BY <2>1, <2>2, <3>1, Zenon
    <3>3. QED
      BY <2>3, <3>2, Zenon DEF Progress
<1>9. at' \in 1 .. Len(Here) + 1
  <2>1. \A m \in Nat : \A n \in 1 .. m + 1 : \A k \in 1 .. m + 1 - n : n + k \in 1 .. m + 1
    OBVIOUS
  <2>2. QED
    BY <1>1, <2>1, Zenon
<1>10. col' \in 0 .. Width
  <2>1. col' <= Width
    BY <1>4, <1>5, Zenon
  <2>2. QED
    BY <2>1, <1>5, WidthAssumption
<1>11. LinesType'
  BY <1>1, <1>2, <1>4, <1>7, <1>9, <1>10, Zenon DEF LinesType
<1>12. AllWhole' => CutOK(out') /\ WholeFrom(Here')[at']
  BY <1>2, <1>4, <1>7, CutGrows, Zenon
<1>13. Reaches(out', LineText(node'), Progress', IF Printed' THEN Len(out') - 2 ELSE Len(out'))
  BY <1>1, <1>6, <1>7, <1>8, Zenon DEF Kept
<1>14. FitOK(out', col') /\ EndsOK(out')
  BY <1>6, Zenon DEF Kept
<1>15. QED
  BY <1>11, <1>12, <1>13, <1>14, Zenon DEF LinesInv

LEMMA PutsKeeps == ASSUME LinesInv, icalnode_puts PROVE LinesInv'
<1> DEFINE n == Unit(Here, at)  u == SubSeq(Here, at, at + n - 1)  g == col + n >= Width
<1>1. /\ part <= Len(Parts) /\ at <= Len(Here) /\ Put(u, g) /\ at' = at + n
      /\ UNCHANGED <<node, part>>
  BY Zenon DEF icalnode_puts
<1>2. /\ part \in 1 .. Len(Parts) /\ Len(Parts) \in {3, 5}
      /\ Here \in Seq(Octets) /\ Len(Here) \in Nat /\ at \in 1 .. Len(Here) + 1
  BY <1>1, HereIs, Zenon
<1>3. at \in 1 .. Len(Here)
  BY <1>1, <1>2
<1>4. n \in 1 .. 4 /\ at + n - 1 <= Len(Here)
  BY <1>2, <1>3, UnitIs, Zenon
<1>5. /\ u \in Seq(Octets) /\ Len(u) = n
      /\ \A j \in 1 .. Len(u) : u[j] = Here[at + j - 1]
  <2>1. ASSUME NEW h \in Seq(Octets), NEW a \in 1 .. Len(h), NEW m \in 1 .. 4,
               a + m - 1 <= Len(h)
        PROVE  /\ SubSeq(h, a, a + m - 1) \in Seq(Octets)
               /\ Len(SubSeq(h, a, a + m - 1)) = m
               /\ \A j \in 1 .. m : SubSeq(h, a, a + m - 1)[j] = h[a + j - 1]
    BY <2>1
  <2> HIDE DEF n
  <2>2. QED
    BY <1>2, <1>3, <1>4, <2>1
<1>6. g \in BOOLEAN
  OBVIOUS
<1>7. /\ Len(u) \in 1 .. Len(Here) + 1 - at
      /\ (IF g THEN 1 ELSE col) + Len(u) <= Width
  <2>1. col \in 0 .. Width
    BY Zenon DEF LinesInv, LinesType
  <2> HIDE DEF n, u
  <2>2. Len(u) = n
    BY <1>5, Zenon
  <2>3. QED
    BY <1>2, <1>4, <2>1, <2>2, WidthAssumption
<1>8. AllWhole => Single(u) /\ WholeFrom(Here)[at + Len(u)]
  <2>1. SUFFICES ASSUME AllWhole PROVE Single(u) /\ WholeFrom(Here)[at + Len(u)]
    BY Zenon
  <2>2. WholeFrom(Here)[at]
    BY <2>1, <1>1, Zenon DEF LinesInv
  <2> HIDE DEF u
  <2>3. QED
    BY <2>2, <1>2, <1>3, <1>5, WholePiece, Zenon
<1>9. at' = at + Len(u)
  BY <1>1, <1>5, Zenon
<1> HIDE DEF n, u, g
<1>10. QED
  BY <1>1, <1>5, <1>6, <1>7, <1>8, <1>9, PutStep, Zenon

LEMMA PutcharKeeps == ASSUME LinesInv, icalnode_putchar PROVE LinesInv'
<1> DEFINE g == col = Width
<1>1. /\ part <= Len(Parts) /\ part % 2 = 0 /\ at = 1 /\ Put(Here, g) /\ at' = 2
      /\ UNCHANGED <<node, part>>
  BY Zenon DEF icalnode_putchar, Delimiter
<1>2. Here \in Seq(Octets) /\ IsPart(part)
  BY <1>1, HereIs, Zenon
<1>3. Len(Here) = 1 /\ Here[1] \in {":", ";"}
  BY <1>1, <1>2, Zenon DEF IsPart, Here
<1>4. /\ Len(Here) \in 1 .. Len(Here) + 1 - at
      /\ \A j \in 1 .. Len(Here) : at + j - 1 = j
      /\ at' = at + Len(Here)
  <2>1. 1 \in 1 .. 1 + 1 - 1 /\ 2 = 1 + 1 /\ \A j \in 1 .. 1 : 1 + j - 1 = j
    OBVIOUS
  <2>2. QED
    BY <2>1, <1>1, <1>3, Zenon
<1>5. (IF g THEN 1 ELSE col) + Len(Here) <= Width
  <2>1. col \in 0 .. Width
    BY Zenon DEF LinesInv, LinesType
  <2>2. \A c \in 0 .. Width : (IF c = Width THEN 1 ELSE c) + 1 <= Width
    BY WidthAssumption
  <2>3. QED
    BY <2>1, <2>2, <1>3, Zenon
<1>6. Single(Here)
  <2>1. Size(Here[1]) = 1
    BY <1>3, Sizes, Zenon
  <2>2. Here[1] \notin {"t", "x"}
    <3>1. \A o \in {":", ";"} : o \notin {"t", "x"}
      OBVIOUS
    <3>2. QED
      BY <1>3, <3>1, Zenon
  <2>3. Len(Here) > 0 /\ \A k \in 2 .. Len(Here) : Here[k] = "t"
    <3>1. 1 > 0 /\ \A k : k \notin 2 .. 1
      OBVIOUS
    <3>2. QED
      BY <1>3, <3>1, Zenon
  <2>4. QED
    BY <1>3, <2>1, <2>2, <2>3, Zenon DEF Single
<1>7. WholeFrom(Here)[at + Len(Here)]
  <2>1. at + Len(Here) = Len(Here) + 1
    BY <1>1, <1>3
  <2>2. QED
    BY <2>1, <1>2, WholeAtEnd, Zenon
<1>8. g \in BOOLEAN /\ \A j \in 1 .. Len(Here) : Here[j] = Here[at + j - 1]
  BY <1>4, Zenon
<1> HIDE DEF g
<1>9. QED
  BY <1>1, <1>2, <1>4, <1>5, <1>6, <1>7, <1>8, PutStep, Zenon
LEMMA NextPartKeeps == ASSUME LinesInv, NextPart PROVE LinesInv'
<1>1. /\ part <= Len(Parts) /\ at > Len(Here) /\ part' = part + 1 /\ at' = 1
      /\ node' = node /\ col' = col /\ out' = out
  BY Zenon DEF NextPart
<1>2. /\ part \in 1 .. Len(Parts) /\ Len(Parts) \in {3, 5} /\ ~ Printed /\ IsPart(part)
      /\ Here \in Seq(Octets) /\ Len(Here) \in Nat /\ at \in 1 .. Len(Here) + 1
      /\ Offset(node, part) \in Nat
  BY <1>1, HereIs, Zenon
<1>3. /\ node \in Nodes /\ col \in 0 .. Width /\ out \in Seq(Octets)
      /\ FitOK(out, col) /\ EndsOK(out) /\ (AllWhole => CutOK(out))
      /\ Reaches(out, LineText(node), Progress, Len(out))
  BY <1>2, Zenon DEF LinesInv, LinesType
<1>4. /\ part' \in 1 .. Len(Parts) + 2 /\ part' # Len(Parts) + 2
      /\ at = Len(Here) + 1
  BY <1>1, <1>2
<1>5. Parts' = Parts /\ (AllWhole' <=> AllWhole)
  <2>1. Parts' = Parts
    BY <1>1, Zenon DEF Parts
  <2>2. QED
    BY <2>1, Zenon DEF AllWhole
<1>6. ~ Printed'
  BY <1>4, <1>5, Zenon DEF Printed
<1>7. Here' = Parts[part']
  BY <1>5, Zenon DEF Here
<1>8. \A p \in 1 .. Len(Parts) : Parts[p] \in Seq(Octets)
  BY <1>3, PartsIs, Zenon DEF IsPart, Piece
<1>9. part' <= Len(Parts) => /\ part' \in DOMAIN Parts /\ Here' \in Seq(Octets)
                             /\ Len(Here') \in Nat
  <2>1. part' <= Len(Parts) => part' \in 1 .. Len(Parts)
    BY <1>1, <1>2
  <2>2. QED
    BY <2>1, <1>7, <1>8, PartsDomain, Length, Zenon
<1>10. at' \in 1 .. (IF part' <= Len(Parts') THEN Len(Here') + 1 ELSE 1)
  <2>1. 1 \in 1 .. 1 /\ \A n \in Nat : 1 \in 1 .. n + 1
    OBVIOUS
  <2>2. QED
    BY <1>1, <1>5, <1>9, <2>1, Zenon
<1>11. LinesType'
  BY <1>1, <1>3, <1>4, <1>5, <1>6, <1>10, Zenon DEF LinesType
<1>12. AllWhole' => CutOK(out') /\ (part' <= Len(Parts') => WholeFrom(Here')[at'])
  BY <1>1, <1>3, <1>5, <1>7, <1>9, WholeIs, Zenon DEF AllWhole
<1>13. Progress' = Progress
  <2>1. Offset(node, part + 1) = Offset(node, part) + Len(Here)
    BY <1>2, Zenon DEF IsPart, Here
  <2>2. \A o \in Nat, n \in Nat : (o + n) + 1 - 1 = o + (n + 1) - 1
    OBVIOUS
  <2>3. Progress' = Offset(node', part') + at' - 1
    BY Zenon DEF Progress
  <2>4. QED
    BY <1>1, <1>2, <1>4, <2>1, <2>2, <2>3, Zenon DEF Progress
<1>14. Reaches(out', LineText(node'), Progress', IF Printed' THEN Len(out') - 2 ELSE Len(out'))
  BY <1>1, <1>3, <1>6, <1>13, Zenon
<1>15. QED
  BY <1>1, <1>3, <1>11, <1>12, <1>14, Zenon DEF LinesInv

LEMMA PrintKeeps == ASSUME LinesInv, icalnode_print PROVE LinesInv'
<1>1. /\ part = Len(Parts) + 1 /\ part' = part + 1 /\ out' = out \o <<"cr", "lf">>
      /\ col' = 0 /\ node' = node /\ at' = at
  BY Zenon DEF icalnode_print
<1>2. /\ node \in Nodes /\ col \in 0 .. Width /\ out \in Seq(Octets)
      /\ FitOK(out, col) /\ EndsOK(out) /\ (AllWhole => CutOK(out))
      /\ at \in 1 .. (IF part <= Len(Parts) THEN Len(Here) + 1 ELSE 1)
      /\ Reaches(out, LineText(node), Progress, IF Printed THEN Len(out) - 2 ELSE Len(out))
  BY Zenon DEF LinesInv, LinesType
<1>3. /\ Len(Parts) \in {3, 5} /\ LineText(node) \in Seq(Octets)
      /\ Offset(node, Len(Parts) + 1) = Len(LineText(node))
      /\ Offset(node, Len(Parts) + 2) = Len(LineText(node))
  BY <1>2, PartsIs, Zenon
<1>4. /\ part' = Len(Parts) + 2 /\ part' \in 1 .. Len(Parts) + 2 /\ ~ (part' <= Len(Parts))
      /\ ~ (part <= Len(Parts)) /\ part # Len(Parts) + 2
  <2>1. \A n \in {3, 5} : /\ (n + 1) + 1 = n + 2 /\ n + 2 \in 1 .. n + 2 /\ ~ (n + 2 <= n)
                          /\ ~ (n + 1 <= n) /\ n + 1 # n + 2
    OBVIOUS
  <2>2. QED
    BY <1>1, <1>3, <2>1, Zenon
<1>5. Parts' = Parts /\ (AllWhole' <=> AllWhole)
  <2>1. Parts' = Parts
    BY <1>1, Zenon DEF Parts
  <2>2. QED
    BY <2>1, Zenon DEF AllWhole
<1>6. Printed' /\ ~ Printed /\ at' = 1 /\ at = 1
  <2>1. \A i \in 1 .. 1 : i = 1
    OBVIOUS
  <2>2. QED
    BY <1>1, <1>2, <1>4, <1>5, <2>1, Zenon DEF Printed
<1>7. Ended(out, out')
  BY <1>1, <1>2, End, Zenon
<1>8. /\ out' \in Seq(Octets) /\ Len(out') = Len(out) + 2
      /\ out'[Len(out) + 1] = "cr" /\ out'[Len(out) + 2] = "lf"
  BY <1>7, Zenon DEF Ended
<1>9. Len(out') > 1 /\ out'[Len(out') - 1] = "cr" /\ out'[Len(out')] = "lf"
  <2>1. \A n \in Nat : n + 2 > 1 /\ (n + 2) - 1 = n + 1
    OBVIOUS
  <2>2. QED
    BY <1>2, <1>8, <2>1, Length, Zenon
<1>10. 0 \in 0 .. Width
  BY WidthAssumption
<1>11. LinesType'
  <2>1. at' \in 1 .. (IF part' <= Len(Parts') THEN Len(Here') + 1 ELSE 1)
    <3>1. 1 \in 1 .. 1
      OBVIOUS
    <3>2. QED
      BY <1>4, <1>5, <1>6, <3>1, Zenon
  <2>2. QED
    BY <1>1, <1>2, <1>4, <1>5, <1>8, <1>9, <1>10, <2>1, Zenon DEF LinesType
<1>12. FitOK(out', col') /\ EndsOK(out')
  BY <1>1, <1>2, <1>7, <1>8, FitEnds, EndsEnd, Zenon
<1>13. AllWhole' => CutOK(out') /\ (part' <= Len(Parts') => WholeFrom(Here')[at'])
  BY <1>2, <1>4, <1>5, <1>7, <1>8, CutEnds, Zenon
<1>14. Progress' = Progress /\ Progress \in Nat
  <2>1. Offset(node, part') = Len(LineText(node)) /\ Offset(node, part) = Len(LineText(node))
    BY <1>1, <1>3, <1>4, Zenon
  <2>2. Progress' = Len(LineText(node)) + 1 - 1 /\ Progress = Len(LineText(node)) + 1 - 1
    BY <1>1, <1>6, <2>1, Zenon DEF Progress
  <2>3. Len(LineText(node)) \in Nat /\ \A n \in Nat : n + 1 - 1 = n
    BY <1>3, Length
  <2>4. QED
    BY <2>2, <2>3, Zenon
<1>15. Reaches(out', LineText(node'), Progress', IF Printed' THEN Len(out') - 2 ELSE Len(out'))
  BY <1>1, <1>2, <1>3, <1>6, <1>7, <1>8, <1>14, ReachEnds, Zenon
<1>16. QED
  BY <1>11, <1>12, <1>13, <1>15, Zenon DEF LinesInv
LEMMA StepKeeps == LinesInv /\ [LinesNext]_linevars => LinesInv'
<1> SUFFICES ASSUME LinesInv, [LinesNext]_linevars PROVE LinesInv'
  OBVIOUS
<1>1. CASE icalnode_puts
  BY <1>1, PutsKeeps, Zenon
<1>2. CASE icalnode_putchar
  BY <1>2, PutcharKeeps, Zenon
<1>3. CASE NextPart
  BY <1>3, NextPartKeeps, Zenon
<1>4. CASE icalnode_print
  BY <1>4, PrintKeeps, Zenon
<1>5. CASE UNCHANGED linevars
  <2>1. /\ node' = node /\ part' = part /\ at' = at /\ col' = col /\ out' = out
    BY <1>5, Zenon DEF linevars
  <2>2. Parts' = Parts
    BY <2>1, Zenon DEF Parts
  <2>3. Here' = Here /\ Printed' = Printed /\ AllWhole' = AllWhole /\ Progress' = Progress
    BY <2>1, <2>2, Zenon DEF Here, Printed, AllWhole, Progress
  <2>4. LinesType'
    BY <2>1, <2>2, <2>3, Zenon DEF LinesInv, LinesType
  <2>5. QED
    BY <2>1, <2>2, <2>3, <2>4, Zenon DEF LinesInv
<1>6. QED
  BY <1>1, <1>2, <1>3, <1>4, <1>5, Zenon DEF LinesNext

-----------------------------------------------------------------------------
(* The loop of icalnode_print keeps its invariant: what is written ends a  *)
(* line that fits and splits no character, and holds the line as far as it *)
(* has been put, with nothing between but folds.                           *)
THEOREM LinesInvariant == LinesSpec => []LinesInv
<1>1. LinesInit => LinesInv
  BY InitLines
<1>2. LinesInv /\ [LinesNext]_linevars => LinesInv'
  BY StepKeeps
<1>3. QED
  BY <1>1, <1>2, PTL DEF LinesSpec

LEMMA PrintedIs ==
  ASSUME LinesInv, Printed
  PROVE  /\ node \in Nodes /\ out \in Seq(Octets) /\ Len(out) > 0 /\ Len(out) > 1
         /\ out[Len(out) - 1] = "cr" /\ out[Len(out)] = "lf"
         /\ FitOK(out, col) /\ EndsOK(out)
<1>1. \A n \in Nat : n > 1 => n > 0
  OBVIOUS
<1>2. QED
  BY <1>1, Length, Zenon DEF LinesInv, LinesType

(* No physical line that icalnode_print writes is longer than Width        *)
(* octets, whatever the node, the characters it holds and where they fall. *)
THEOREM LinesFitHolds == LinesSpec => []LinesFit
<1>1. LinesInv => LinesFit
  BY PrintedIs, LineShort, Zenon DEF LinesFit
<1>2. QED
  BY <1>1, LinesInvariant, PTL

(* If the node is text, so is each line that icalnode_print writes of it:  *)
(* no fold falls within a character.                                       *)
THEOREM CharactersWholeHolds == LinesSpec => []CharactersWhole
<1>1. LinesInv => CharactersWhole
  <2>1. ASSUME LinesInv, Printed, AllWhole, NEW i \in Starts \ {Len(out) + 1}
        PROVE  Whole(PhysicalLine(i))
    <3>1. CutOK(out)
      BY <2>1, Zenon DEF LinesInv
    <3>2. QED
      BY <2>1, <3>1, PrintedIs, LineWhole, Zenon
  <2>2. QED
    BY <2>1, Zenon DEF CharactersWhole, AllWhole
<1>2. QED
  BY <1>1, LinesInvariant, PTL

(* What icalnode_print writes of a node, ical_line reads as that node.     *)
THEOREM PrintedIsReadHolds == LinesSpec => []PrintedIsRead
<1>1. LinesInv => PrintedIsRead
  <2> SUFFICES ASSUME LinesInv, Printed PROVE ical_line(out) = node
    BY Zenon DEF PrintedIsRead
  <2> DEFINE w == LineText(node)
  <2>1. /\ Len(Parts) \in {3, 5} /\ w \in Seq(Octets) /\ Plain(w, 1, Len(w))
        /\ Offset(node, Len(Parts) + 2) = Len(w)
    BY PrintedIs, PartsIs, Zenon
  <2>2. at = 1 /\ part = Len(Parts) + 2
    <3>1. part = Len(Parts) + 2
      BY Zenon DEF Printed
    <3>2. \A n \in {3, 5} : ~ (n + 2 <= n)
      OBVIOUS
    <3>3. at \in 1 .. 1
      BY <2>1, <3>1, <3>2, Zenon DEF LinesInv, LinesType
    <3>4. \A i \in 1 .. 1 : i = 1
      OBVIOUS
    <3>5. QED
      BY <3>1, <3>3, <3>4, Zenon
  <2>3. Progress = Len(w)
    <3>1. Progress = Len(w) + 1 - 1
      BY <2>1, <2>2, Zenon DEF Progress
    <3>2. Len(w) \in Nat /\ \A n \in Nat : n + 1 - 1 = n
      BY <2>1, Length
    <3>3. QED
      BY <3>1, <3>2, Zenon
  <2>4. Reaches(out, w, Len(w), Len(out) - 2)
    BY <2>3, Zenon DEF LinesInv
  <2> HIDE DEF w
  <2>5. Joined(out) = w
    BY <2>1, <2>4, PrintedIs, TracedRead, Zenon
  <2>6. QED
    BY <2>5, PrintedIs, LineRead, Zenon DEF w
<1>2. QED
  BY <1>1, LinesInvariant, PTL
-----------------------------------------------------------------------------
(* ical_duration: where a number ends.                                     *)

Stops(cp, i, j) ==
    /\ j > Len(cp) \/ cp[j] \notin Digits
    /\ \A k \in i .. j - 1 : cp[k] \in Digits
AfterDigits(cp, i) == CHOOSE j \in i .. Len(cp) + 1 : Stops(cp, i, j)

LEMMA AfterIs ==
  ASSUME NEW S, NEW cp \in Seq(S), NEW i \in 1 .. Len(cp) + 1
  PROVE  AfterDigits(cp, i) \in i .. Len(cp) + 1 /\ Stops(cp, i, AfterDigits(cp, i))
<1> DEFINE J == {j \in i .. Len(cp) + 1 : j > Len(cp) \/ cp[j] \notin Digits}
<1>1. Len(cp) \in Nat
  OBVIOUS
<1>2. J \in SUBSET Nat /\ J # {}
  <2>1. Len(cp) + 1 \in J
    BY <1>1
  <2>2. QED
    BY <1>1, <2>1
<1>3. PICK j \in J : \A k \in J : j <= k
  BY <1>2, Least
<1>4. j \in i .. Len(cp) + 1 /\ (j > Len(cp) \/ cp[j] \notin Digits)
  BY <1>3
<1>5. ASSUME NEW k \in i .. j - 1 PROVE cp[k] \in Digits
  <2>1. k \in i .. Len(cp) + 1 /\ ~ (j <= k)
    BY <1>1, <1>4
  <2>2. k \notin J
    BY <1>3, <2>1
  <2>3. QED
    BY <2>1, <2>2
<1>6. Stops(cp, i, j)
  BY <1>4, <1>5, Zenon DEF Stops
<1>7. QED
  BY <1>4, <1>6, Zenon DEF AfterDigits

LEMMA AfterOnly ==
  ASSUME NEW S, NEW cp \in Seq(S), NEW i \in 1 .. Len(cp) + 1,
         NEW j \in i .. Len(cp) + 1, Stops(cp, i, j)
  PROVE  AfterDigits(cp, i) = j
<1> DEFINE a == AfterDigits(cp, i)
<1>1. a \in i .. Len(cp) + 1 /\ Stops(cp, i, a)
  BY AfterIs
<1> HIDE DEF a
<1>2. Len(cp) \in Nat
  OBVIOUS
<1>3. ASSUME a < j PROVE FALSE
  <2>1. a \in i .. j - 1 /\ a <= Len(cp)
    BY <1>1, <1>2, <1>3
  <2>2. QED
    BY <1>1, <2>1 DEF Stops
<1>4. ASSUME j < a PROVE FALSE
  <2>1. j \in i .. a - 1 /\ j <= Len(cp)
    BY <1>1, <1>2, <1>4
  <2>2. QED
    BY <1>1, <2>1 DEF Stops
<1>5. a = j
  BY <1>1, <1>2, <1>3, <1>4
<1>6. QED
  BY <1>5, Zenon DEF a

(* One position of its recursion, and the function it chooses.             *)
SignOf(cp) == IF Len(cp) > 1 /\ cp[2] = "-" THEN -1 ELSE 1
FromOf(cp) == IF Len(cp) > 1 /\ cp[2] \in {"-", "+"} THEN 3 ELSE 2
DoneOf(cp, ok, nul) ==
    [ok |-> ok, sign |-> SignOf(cp), num |-> [u \in Units |-> <<>>], nul |-> nul]
Taken(cp, i, j) == SubSeq(cp, i, j - 1)
Stored(later, cp, i, j) ==
    [later EXCEPT !.nul = j,
        !.num[cp[j]] = IF @ = <<>> THEN Taken(cp, i, j) ELSE @]
DurationStep(cp, f, i) ==
    IF i > Len(cp) THEN DoneOf(cp, TRUE, i)
    ELSE IF cp[i] = "T" THEN IF i = Len(cp) THEN DoneOf(cp, FALSE, Len(cp) + 1) ELSE f[i + 1]
    ELSE IF AfterDigits(cp, i) > Len(cp) THEN DoneOf(cp, TRUE, Len(cp) + 1)
    ELSE IF i = AfterDigits(cp, i) \/ cp[AfterDigits(cp, i)] \notin Units
         THEN DoneOf(cp, AfterDigits(cp, i) = Len(cp), AfterDigits(cp, i))
    ELSE Stored(f[AfterDigits(cp, i) + 1], cp, i, AfterDigits(cp, i))
DurationEq(cp, f) == f = [i \in 1 .. Len(cp) + 1 |-> DurationStep(cp, f, i)]
DurationFrom(cp) == CHOOSE f : DurationEq(cp, f)

LEMMA DurationIs ==
  ASSUME NEW cp
  PROVE  ical_duration(cp) = IF Len(cp) < FromOf(cp) \/ cp[1] # "P"
                             THEN DoneOf(cp, FALSE, Len(cp) + 1)
                             ELSE DurationFrom(cp)[FromOf(cp)]
BY Zenon DEF ical_duration, DurationFrom, DurationEq, DurationStep, Stored, Taken, DoneOf,
             SignOf, FromOf, AfterDigits, Stops
(* A position depends on those after it.                                   *)
LEMMA DurationLocal ==
  ASSUME NEW S, NEW cp \in Seq(S), NEW i \in 1 .. Len(cp) + 1, NEW f, NEW g,
         \A j \in i + 1 .. Len(cp) + 1 : f[j] = g[j]
  PROVE  DurationStep(cp, f, i) = DurationStep(cp, g, i)
<1> DEFINE a == AfterDigits(cp, i)
<1>1. Len(cp) \in Nat /\ a \in i .. Len(cp) + 1
  BY AfterIs
<1> HIDE DEF a
<1>2. i <= Len(cp) => f[i + 1] = g[i + 1]
  BY <1>1
<1>3. ~ (a > Len(cp)) => f[a + 1] = g[a + 1]
  BY <1>1
<1>4. ~ (i > Len(cp)) => i <= Len(cp)
  BY <1>1
<1>5. QED
  BY <1>2, <1>3, <1>4, Zenon DEF DurationStep, a

LEMMA DurationExists ==
  ASSUME NEW S, NEW cp \in Seq(S)
  PROVE  DurationEq(cp, DurationFrom(cp))
<1> DEFINE n == Len(cp) + 1
           From(k) == \E f : /\ f = [i \in 1 .. n |-> f[i]]
                             /\ \A i \in n + 1 - k .. n : f[i] = DurationStep(cp, f, i)
           Missing == {k \in 0 .. n : ~ From(k)}
<1>1. n \in Nat
  OBVIOUS
<1>2. From(0)
  <2> DEFINE f == [i \in 1 .. n |-> <<>>]
  <2>1. f = [i \in 1 .. n |-> f[i]]
    BY Zenon
  <2> HIDE DEF f
  <2>2. \A i \in n + 1 - 0 .. n : f[i] = DurationStep(cp, f, i)
    BY <1>1
  <2>3. QED
    BY <2>1, <2>2
<1>3. ASSUME NEW k \in 0 .. n - 1, From(k) PROVE From(k + 1)
  <2> DEFINE b == n - k
  <2>1. PICK f : /\ f = [i \in 1 .. n |-> f[i]]
                 /\ \A i \in n + 1 - k .. n : f[i] = DurationStep(cp, f, i)
    BY <1>3
  <2> DEFINE g == [i \in 1 .. n |-> IF i = b THEN DurationStep(cp, f, b) ELSE f[i]]
  <2>2. b \in 1 .. n
    BY <1>1
  <2>3. g[b] = DurationStep(cp, f, b) /\ \A i \in 1 .. n : i # b => g[i] = f[i]
    BY <2>2, Zenon
  <2>4. g = [i \in 1 .. n |-> g[i]]
    BY Zenon
  <2> HIDE DEF g
  <2>5. ASSUME NEW i \in n + 1 - (k + 1) .. n PROVE g[i] = DurationStep(cp, g, i)
    <3>1. i \in 1 .. n /\ i >= b /\ \A j \in i + 1 .. n : j \in 1 .. n /\ j # b
      BY <1>1, <2>2
    <3>2. \A j \in i + 1 .. n : f[j] = g[j]
      BY <2>3, <3>1
    <3>3. DurationStep(cp, f, i) = DurationStep(cp, g, i)
      BY <3>1, <3>2, DurationLocal
    <3>4. g[i] = DurationStep(cp, f, i)
      <4>1. CASE i = b
        BY <4>1, <2>3
      <4>2. CASE i # b
        <5>1. i \in n + 1 - k .. n
          BY <4>2, <3>1, <1>1
        <5>2. QED
          BY <5>1, <4>2, <3>1, <2>1, <2>3
      <4>3. QED
        BY <4>1, <4>2
    <3>5. QED
      BY <3>3, <3>4
  <2>6. QED
    BY <2>4, <2>5
<1> HIDE DEF From
<1>4. Missing = {}
  <2> SUFFICES ASSUME Missing # {} PROVE FALSE
    OBVIOUS
  <2>1. Missing \in SUBSET Nat
    BY <1>1
  <2>2. PICK k \in Missing : \A m \in Missing : k <= m
    BY <2>1, Least
  <2>3. k \in 0 .. n /\ ~ From(k)
    BY <2>2
  <2>4. k # 0
    BY <2>3, <1>2
  <2>5. k - 1 \in 0 .. n - 1 /\ k - 1 < k /\ (k - 1) + 1 = k
    BY <2>3, <2>4, <1>1
  <2>6. k - 1 \notin Missing
    BY <2>2, <2>5
  <2>7. From(k - 1)
    BY <2>5, <2>6, <1>1
  <2>8. From((k - 1) + 1)
    BY <2>5, <2>7, <1>3
  <2>9. QED
    BY <2>3, <2>5, <2>8
<1>5. From(n)
  BY <1>1, <1>4
<1>6. PICK f : /\ f = [i \in 1 .. n |-> f[i]]
               /\ \A i \in n + 1 - n .. n : f[i] = DurationStep(cp, f, i)
  BY <1>5 DEF From
<1>7. \A i \in 1 .. n : f[i] = DurationStep(cp, f, i)
  BY <1>6, <1>1
<1>8. f = [i \in 1 .. n |-> DurationStep(cp, f, i)]
  BY <1>6, <1>7, Zenon
<1>9. DurationEq(cp, f)
  BY <1>8, Zenon DEF DurationEq
<1>10. QED
  BY <1>9, Zenon DEF DurationFrom

LEMMA DurationUnfolds ==
  ASSUME NEW S, NEW cp \in Seq(S), NEW i \in 1 .. Len(cp) + 1
  PROVE  DurationFrom(cp)[i] = DurationStep(cp, DurationFrom(cp), i)
BY DurationExists, Zenon DEF DurationEq
(* A part of a duration: an amount and its unit, at an offset of the text. *)
PartText(a, u) == IF a = <<>> THEN <<>> ELSE Append(a, u)
At(w, o, q) ==
    /\ o \in Nat /\ o + Len(q) <= Len(w)
    /\ \A j \in 1 .. Len(q) : w[o + j] = q[j]
Means(r, sign, m) ==
    r.ok = TRUE /\ r.sign = sign /\ r.num = m /\ DOMAIN r = {"ok", "sign", "num", "nul"}

LEMMA AmountIs ==
  ASSUME NEW a \in Amounts
  PROVE  /\ a \in Seq(Digits) /\ Len(a) \in 0 .. 2
         /\ a # <<>> => Len(a) \in 1 .. 2
         /\ \A i \in 1 .. Len(a) : a[i] \in Digits
<1>1. "0" \in Digits /\ "1" \in Digits /\ "2" \in Digits
  BY Zenon DEF Digits
<1>2. \A D : \A x, y \in D : /\ <<>> \in Seq(D) /\ Len(<<>>) = 0
                             /\ <<x>> \in Seq(D) /\ Len(<<x>>) = 1 /\ <<x>>[1] = x
                             /\ <<x, y>> \in Seq(D) /\ Len(<<x, y>>) = 2
                             /\ <<x, y>>[1] = x /\ <<x, y>>[2] = y
  OBVIOUS
<1>3. a = <<>> \/ a = <<"1">> \/ a = <<"2", "0">>
  BY Zenon DEF Amounts
<1>4. 0 \in 0 .. 2 /\ 1 \in 0 .. 2 /\ 2 \in 0 .. 2 /\ 1 \in 1 .. 2 /\ 2 \in 1 .. 2
  OBVIOUS
<1>5. a \in Seq(Digits) /\ Len(a) \in 0 .. 2 /\ (a # <<>> => Len(a) \in 1 .. 2)
  <2>1. CASE a = <<>>
    BY <1>1, <1>2, <1>4, <2>1, Zenon
  <2>2. CASE a = <<"1">>
    BY <1>1, <1>2, <1>4, <2>2, Zenon
  <2>3. CASE a = <<"2", "0">>
    BY <1>1, <1>2, <1>4, <2>3, Zenon
  <2>4. QED
    BY <1>3, <2>1, <2>2, <2>3, Zenon
<1>6. \A D : \A s \in Seq(D) : \A i \in 1 .. Len(s) : s[i] \in D
  OBVIOUS
<1>7. QED
  BY <1>5, <1>6, Zenon

LEMMA AppendIs ==
  ASSUME NEW S, NEW a \in Seq(S), NEW u \in S, NEW q, q = Append(a, u)
  PROVE  /\ q \in Seq(S) /\ Len(q) = Len(a) + 1 /\ q[Len(a) + 1] = u
         /\ \A i \in 1 .. Len(a) : q[i] = a[i]
OBVIOUS

LEMMA StoredMeans ==
  ASSUME NEW m \in [Units -> Amounts], NEW u \in Units, m[u] = <<>>, NEW sign, NEW cp,
         NEW r, Means(r, sign, m), NEW i, NEW j, cp[j] = u, NEW a, Taken(cp, i, j) = a
  PROVE  Means(Stored(r, cp, i, j), sign, [m EXCEPT ![u] = a])
<1>1. r.ok = TRUE /\ r.sign = sign /\ r.num = m /\ DOMAIN r = {"ok", "sign", "num", "nul"}
  BY Zenon DEF Means
<1>2. Stored(r, cp, i, j) = [r EXCEPT !.nul = j, !.num[u] = a]
  <2>1. r.num[cp[j]] = <<>>
    BY <1>1, Zenon
  <2>2. QED
    BY <1>1, <2>1 DEF Stored
<1>3. Means([r EXCEPT !.nul = j, !.num[u] = a], sign, [m EXCEPT ![u] = a])
  BY <1>1 DEF Means
<1> DEFINE x == [r EXCEPT !.nul = j, !.num[u] = a]  w == [m EXCEPT ![u] = a]
<1>4. Stored(r, cp, i, j) = x /\ Means(x, sign, w)
  BY <1>2, <1>3
<1> HIDE DEF x
<1>5. QED
  BY <1>4

LEMMA PartRead ==
  ASSUME NEW S, NEW cp \in Seq(S), NEW i \in 1 .. Len(cp) + 1, NEW u \in Units,
         NEW a \in Amounts, At(cp, i - 1, PartText(a, u)), NEW sign,
         NEW m \in [Units -> Amounts], m[u] = <<>>,
         Means(DurationFrom(cp)[i + Len(PartText(a, u))], sign, m)
  PROVE  Means(DurationFrom(cp)[i], sign, [m EXCEPT ![u] = a])
<1> DEFINE f == DurationFrom(cp)  q == PartText(a, u)
<1>0. Len(cp) \in Nat /\ i \in 1 .. Len(cp) + 1 /\ Means(f[i + Len(q)], sign, m)
  OBVIOUS
<1>1. CASE a = <<>>
  <2>1. q = <<>>
    BY <1>1, Zenon DEF PartText
  <2>2. Len(q) = 0
    BY <2>1
  <2>3. [m EXCEPT ![u] = a] = m
    BY <1>1
  <2> HIDE DEF f, q
  <2>4. i + Len(q) = i
    BY <1>0, <2>2
  <2>5. QED
    BY <1>0, <2>3, <2>4, Zenon DEF f
<1>2. CASE a # <<>>
  <2> DEFINE j == i + Len(a)
  <2>1. /\ a \in Seq(Digits) /\ Len(a) \in 1 .. 2 /\ \A k \in 1 .. Len(a) : a[k] \in Digits
    BY <1>2, AmountIs, Zenon
  <2>2. Len(q) = Len(a) + 1 /\ q[Len(a) + 1] = u /\ \A k \in 1 .. Len(a) : q[k] = a[k]
    <3>1. a \in Seq(Digits \cup Units) /\ u \in Digits \cup Units /\ q = Append(a, u)
      BY <2>1, <1>2 DEF PartText
    <3> HIDE DEF q
    <3>2. QED
      BY <3>1, AppendIs
  <2>3. /\ (i - 1) + Len(q) <= Len(cp) /\ \A k \in 1 .. Len(q) : cp[(i - 1) + k] = q[k]
    BY Zenon DEF At
  <2> HIDE DEF f, q
  <2>a. /\ Len(q) = Len(a) + 1 /\ Len(a) \in 1 .. 2 /\ (i - 1) + (Len(a) + 1) <= Len(cp)
        /\ Len(cp) \in Nat /\ i \in 1 .. Len(cp) + 1
    BY <1>0, <2>1, <2>2, <2>3, Zenon
  <2>4. j \in i + 1 .. Len(cp) /\ j + 1 = i + Len(q) /\ j \in i .. Len(cp) + 1
        /\ ~ (j > Len(cp)) /\ i # j /\ ~ (i > Len(cp)) /\ i \in i .. j - 1
    <3>1. \A n \in Nat : \A k \in 1 .. n + 1 : \A l \in 1 .. 2 : (k - 1) + (l + 1) <= n =>
             /\ k + l \in k + 1 .. n /\ (k + l) + 1 = k + (l + 1) /\ k + l \in k .. n + 1
             /\ ~ (k + l > n) /\ k # k + l /\ ~ (k > n) /\ k \in k .. (k + l) - 1
      OBVIOUS
    <3>2. Len(cp) \in Nat /\ i \in 1 .. Len(cp) + 1 /\ Len(a) \in 1 .. 2
          /\ (i - 1) + (Len(a) + 1) <= Len(cp)
      BY <2>a, Zenon
    <3>3. /\ j \in i + 1 .. Len(cp) /\ j + 1 = i + (Len(a) + 1) /\ j \in i .. Len(cp) + 1
          /\ ~ (j > Len(cp)) /\ i # j /\ ~ (i > Len(cp)) /\ i \in i .. j - 1
      BY <3>1, <3>2, Zenon
    <3>4. QED
      BY <2>a, <3>3, Zenon
  <2>5. cp[j] = u /\ \A k \in 1 .. Len(a) : cp[(i - 1) + k] = a[k]
    <3>1. (i - 1) + (Len(a) + 1) = j /\ Len(a) + 1 \in 1 .. Len(q)
          /\ \A k \in 1 .. Len(a) : k \in 1 .. Len(q)
      BY <1>0, <2>1, <2>2
    <3> HIDE DEF j
    <3>2. QED
      BY <3>1, <2>2, <2>3, Zenon
  <2>6. \A k \in i .. j - 1 : cp[k] \in Digits
    <3> TAKE k \in i .. j - 1
    <3>1. k - i + 1 \in 1 .. Len(a) /\ (i - 1) + (k - i + 1) = k
      BY <1>0, <2>1
    <3>2. QED
      BY <3>1, <2>1, <2>5, Zenon
  <2>7. cp[j] \notin Digits /\ cp[i] # "T"
    <3>1. \A v \in Units : v \notin Digits
      BY DEF Units, Digits
    <3>2. \A v \in Digits : v # "T"
      BY DEF Digits
    <3>3. QED
      BY <3>1, <3>2, <2>4, <2>5, <2>6, Zenon
  <2>8. Taken(cp, i, j) = a
    <3>1. /\ SubSeq(cp, i, j - 1) \in Seq(S) /\ Len(SubSeq(cp, i, j - 1)) = Len(a)
          /\ \A k \in 1 .. Len(a) : SubSeq(cp, i, j - 1)[k] = cp[(i - 1) + k]
      BY <1>0, <2>1, <2>4
    <3>2. \A k \in 1 .. Len(a) : SubSeq(cp, i, j - 1)[k] = a[k]
      BY <3>1, <2>5, Zenon
    <3>3. /\ SubSeq(cp, i, j - 1) \in Seq(S \cup Digits) /\ a \in Seq(S \cup Digits)
      <4>1. \A T, U : \A s \in Seq(T) : s \in Seq(T \cup U) /\ s \in Seq(U \cup T)
        OBVIOUS
      <4>2. QED
        BY <3>1, <2>1, <4>1, Zenon
    <3>4. QED
      BY <3>1, <3>2, <3>3, SameSeq DEF Taken
  <2> HIDE DEF j
  <2>9. AfterDigits(cp, i) = j
    BY <1>0, <2>4, <2>6, <2>7, AfterOnly, Zenon DEF Stops
  <2>10. f[i] = DurationStep(cp, f, i)
    BY <1>0, DurationUnfolds, Zenon DEF f
  <2>11. f[i] = Stored(f[j + 1], cp, i, j)
    BY <2>4, <2>5, <2>7, <2>9, <2>10, Zenon DEF DurationStep
  <2>12. Means(f[j + 1], sign, m)
    BY <1>0, <2>4, Zenon
  <2>13. QED
    <3>1. Means(Stored(f[j + 1], cp, i, j), sign, [m EXCEPT ![u] = a])
      BY <2>5, <2>8, <2>12, StoredMeans
    <3>2. QED
      BY <2>11, <3>1 DEF f
<1>3. QED
  BY <1>1, <1>2, Zenon
(* The parts of a duration, from the offset o on.                          *)
After(o, q) == o + Len(q)
PartOf(num, u) == PartText(num[u], u)
ClockAt(cp, o, num) ==
    LET m == After(o, PartOf(num, "H"))
        s == After(m, PartOf(num, "M"))
    IN /\ At(cp, o, PartOf(num, "H")) /\ At(cp, m, PartOf(num, "M"))
       /\ At(cp, s, PartOf(num, "S")) /\ Len(cp) = After(s, PartOf(num, "S"))
Layout(cp, o, num) ==
    LET d == After(o, PartOf(num, "W"))
        t == After(d, PartOf(num, "D"))
    IN /\ At(cp, o, PartOf(num, "W")) /\ At(cp, d, PartOf(num, "D"))
       /\ \/ Len(cp) = t /\ num["H"] = <<>> /\ num["M"] = <<>> /\ num["S"] = <<>>
          \/ t + 1 < Len(cp) /\ cp[t + 1] = "T" /\ ClockAt(cp, t + 1, num)

LEMMA PartIs ==
  ASSUME NEW a \in Amounts, NEW u \in Units
  PROVE  /\ PartText(a, u) \in Seq(Digits \cup Units) /\ Len(PartText(a, u)) \in Nat
         /\ a = <<>> => PartText(a, u) = <<>>
         /\ a # <<>> => Len(PartText(a, u)) \in 2 .. 3
<1> DEFINE q == PartText(a, u)
<1>1. a \in Seq(Digits) /\ (a # <<>> => Len(a) \in 1 .. 2)
  BY AmountIs, Zenon
<1>2. a \in Seq(Digits \cup Units) /\ u \in Digits \cup Units
  BY <1>1
<1>3. <<>> \in Seq(Digits \cup Units)
  OBVIOUS
<1>4. (a = <<>> => q = <<>>) /\ (a # <<>> => q = Append(a, u))
  BY Zenon DEF PartText
<1> HIDE DEF q
<1>5. q \in Seq(Digits \cup Units) /\ (a # <<>> => Len(q) = Len(a) + 1)
  <2>1. CASE a = <<>>
    BY <2>1, <1>3, <1>4, Zenon
  <2>2. CASE a # <<>>
    BY <2>2, <1>2, <1>4, AppendIs
  <2>3. QED
    BY <2>1, <2>2, Zenon
<1>6. a # <<>> => Len(q) \in 2 .. 3
  <2>1. \A k \in 1 .. 2 : k + 1 \in 2 .. 3
    OBVIOUS
  <2>2. QED
    BY <1>1, <1>5, <2>1, Zenon
<1>7. QED
  BY <1>4, <1>5, <1>6, Length DEF q

(* Numbers not given, and those of the time of a day.                      *)
NoNumbers == [u \in Units |-> <<>>]
With(m, num, u) == [m EXCEPT ![u] = num[u]]
ClockNumbers(num) == With(With(With(NoNumbers, num, "S"), num, "M"), num, "H")

LEMMA WithIs ==
  ASSUME NEW m \in [Units -> Amounts], NEW num \in [Units -> Amounts], NEW u \in Units
  PROVE  /\ With(m, num, u) \in [Units -> Amounts] /\ With(m, num, u)[u] = num[u]
         /\ \A v \in Units : v # u => With(m, num, u)[v] = m[v]
BY DEF With

LEMMA UnitsAre ==
  /\ "D" \in Units /\ "W" \in Units /\ "H" \in Units /\ "M" \in Units /\ "S" \in Units
  /\ \A u \in Units : u = "D" \/ u = "W" \/ u = "H" \/ u = "M" \/ u = "S"
  /\ NoNumbers \in [Units -> Amounts] /\ \A u \in Units : NoNumbers[u] = <<>>
<1>1. <<>> \in Amounts
  BY Zenon DEF Amounts
<1>2. NoNumbers \in [Units -> Amounts] /\ \A u \in Units : NoNumbers[u] = <<>>
  BY <1>1, Zenon DEF NoNumbers
<1>3. QED
  BY <1>2, Zenon DEF Units

LEMMA PartReadAt ==
  ASSUME NEW S, NEW cp \in Seq(S), NEW num \in [Units -> Amounts], NEW u \in Units,
         NEW o, At(cp, o, PartOf(num, u)), NEW sign,
         NEW m \in [Units -> Amounts], m[u] = <<>>,
         Means(DurationFrom(cp)[After(o, PartOf(num, u)) + 1], sign, m)
  PROVE  Means(DurationFrom(cp)[o + 1], sign, With(m, num, u))
<1> DEFINE q == PartText(num[u], u)
<1>1. num[u] \in Amounts /\ PartOf(num, u) = q
  BY Zenon DEF PartOf
<1>2. o \in Nat /\ o + Len(q) <= Len(cp) /\ At(cp, o, q)
  BY <1>1, Zenon DEF At
<1>3. Len(cp) \in Nat /\ Len(q) \in Nat
  BY <1>1, PartIs, Length
<1> HIDE DEF q
<1>4. /\ o + 1 \in 1 .. Len(cp) + 1 /\ (o + 1) - 1 = o
      /\ (o + 1) + Len(q) = o + Len(q) + 1
  BY <1>2, <1>3
<1>5. Means(DurationFrom(cp)[(o + 1) + Len(q)], sign, m) /\ At(cp, (o + 1) - 1, q)
  BY <1>1, <1>2, <1>4, Zenon DEF After
<1>6. QED
  BY <1>1, <1>4, <1>5, PartRead DEF q, With

LEMMA EndRead ==
  ASSUME NEW S, NEW cp \in Seq(S)
  PROVE  Means(DurationFrom(cp)[Len(cp) + 1], SignOf(cp), [u \in Units |-> <<>>])
<1>1. Len(cp) + 1 \in 1 .. Len(cp) + 1 /\ Len(cp) + 1 > Len(cp)
  BY Length
<1>2. DurationFrom(cp)[Len(cp) + 1] = DurationStep(cp, DurationFrom(cp), Len(cp) + 1)
  BY <1>1, DurationUnfolds
<1>3. DurationFrom(cp)[Len(cp) + 1] = DoneOf(cp, TRUE, Len(cp) + 1)
  BY <1>1, <1>2, Zenon DEF DurationStep
<1>4. \A x : Means(DoneOf(cp, TRUE, x), SignOf(cp), [u \in Units |-> <<>>])
  BY DEF Means, DoneOf
<1>5. QED
  BY <1>3, <1>4, Zenon

LEMMA ClockNumbersAre ==
  ASSUME NEW num \in [Units -> Amounts]
  PROVE  /\ ClockNumbers(num) \in [Units -> Amounts]
         /\ \A u \in Units : ClockNumbers(num)[u] =
              IF u \in {"H", "M", "S"} THEN num[u] ELSE <<>>
<1> DEFINE a == With(NoNumbers, num, "S")  b == With(a, num, "M")  c == With(b, num, "H")
<1>1. /\ a \in [Units -> Amounts] /\ a["S"] = num["S"]
      /\ \A v \in Units : v # "S" => a[v] = <<>>
  <2>1. NoNumbers \in [Units -> Amounts] /\ "S" \in Units
    BY UnitsAre, Zenon
  <2>2. QED
    BY <2>1, UnitsAre, WithIs
<1> HIDE DEF a
<1>2. /\ b \in [Units -> Amounts] /\ b["M"] = num["M"]
      /\ \A v \in Units : v # "M" => b[v] = a[v]
  BY <1>1, UnitsAre, WithIs
<1> HIDE DEF b
<1>3. /\ c \in [Units -> Amounts] /\ c["H"] = num["H"]
      /\ \A v \in Units : v # "H" => c[v] = b[v]
  BY <1>2, UnitsAre, WithIs
<1> HIDE DEF c
<1>4. \A u \in Units : c[u] = IF u \in {"H", "M", "S"} THEN num[u] ELSE <<>>
  BY <1>1, <1>2, <1>3, UnitsAre
<1>5. QED
  BY <1>3, <1>4, Zenon DEF ClockNumbers, a, b, c

LEMMA ClockRead ==
  ASSUME NEW S, NEW cp \in Seq(S), NEW num \in [Units -> Amounts],
         NEW o, ClockAt(cp, o, num)
  PROVE  Means(DurationFrom(cp)[o + 1], SignOf(cp), ClockNumbers(num))
<1> DEFINE m == After(o, PartOf(num, "H"))  s == After(m, PartOf(num, "M"))
           x == With(NoNumbers, num, "S")  y == With(x, num, "M")
<1>1. /\ At(cp, o, PartOf(num, "H")) /\ At(cp, m, PartOf(num, "M"))
      /\ At(cp, s, PartOf(num, "S")) /\ Len(cp) = After(s, PartOf(num, "S"))
  BY Zenon DEF ClockAt
<1> HIDE DEF m, s
<1>2. Means(DurationFrom(cp)[After(s, PartOf(num, "S")) + 1], SignOf(cp), NoNumbers)
  BY <1>1, EndRead, Zenon DEF NoNumbers
<1>3. Means(DurationFrom(cp)[s + 1], SignOf(cp), x)
  <2>1. /\ "S" \in Units /\ NoNumbers \in [Units -> Amounts] /\ NoNumbers["S"] = <<>>
        /\ At(cp, s, PartOf(num, "S"))
        /\ Means(DurationFrom(cp)[After(s, PartOf(num, "S")) + 1], SignOf(cp), NoNumbers)
    BY <1>1, <1>2, UnitsAre, Zenon
  <2>2. QED
    BY <2>1, PartReadAt, Zenon
<1>4. x \in [Units -> Amounts] /\ x["M"] = <<>> /\ x["H"] = <<>>
  <2>1. NoNumbers \in [Units -> Amounts] /\ "S" \in Units
    BY UnitsAre, Zenon
  <2>2. x \in [Units -> Amounts] /\ \A v \in Units : v # "S" => x[v] = NoNumbers[v]
    BY <2>1, WithIs
  <2> HIDE DEF x
  <2>3. QED
    BY <2>2, UnitsAre
<1> HIDE DEF x
<1>5. Means(DurationFrom(cp)[After(m, PartOf(num, "M")) + 1], SignOf(cp), x)
  BY <1>3, Zenon DEF s
<1>6. Means(DurationFrom(cp)[m + 1], SignOf(cp), y)
  <2>1. /\ "M" \in Units /\ x \in [Units -> Amounts] /\ x["M"] = <<>>
        /\ At(cp, m, PartOf(num, "M"))
        /\ Means(DurationFrom(cp)[After(m, PartOf(num, "M")) + 1], SignOf(cp), x)
    BY <1>1, <1>4, <1>5, UnitsAre, Zenon
  <2>2. QED
    BY <2>1, PartReadAt, Zenon
<1>7. y \in [Units -> Amounts] /\ y["H"] = <<>>
  <2>1. x \in [Units -> Amounts] /\ "M" \in Units
    BY <1>4, UnitsAre, Zenon
  <2>2. y \in [Units -> Amounts] /\ \A v \in Units : v # "M" => y[v] = x[v]
    BY <2>1, WithIs
  <2> HIDE DEF y
  <2>3. QED
    BY <1>4, <2>2, UnitsAre
<1> HIDE DEF y
<1>8. Means(DurationFrom(cp)[After(o, PartOf(num, "H")) + 1], SignOf(cp), y)
  BY <1>6, Zenon DEF m
<1>9. Means(DurationFrom(cp)[o + 1], SignOf(cp), With(y, num, "H"))
  BY <1>1, <1>7, <1>8, UnitsAre, PartReadAt, Zenon
<1>10. QED
  BY <1>9, Zenon DEF y, x, ClockNumbers

LEMMA TRead ==
  ASSUME NEW S, NEW cp \in Seq(S), NEW i \in 1 .. Len(cp), i < Len(cp), cp[i] = "T"
  PROVE  DurationFrom(cp)[i] = DurationFrom(cp)[i + 1]
<1>1. i \in 1 .. Len(cp) + 1 /\ ~ (i > Len(cp)) /\ i # Len(cp)
  BY Length
<1>2. DurationFrom(cp)[i] = DurationStep(cp, DurationFrom(cp), i)
  BY <1>1, DurationUnfolds
<1>3. QED
  BY <1>1, <1>2, Zenon DEF DurationStep

LEMMA LayoutRead ==
  ASSUME NEW S, NEW cp \in Seq(S), NEW num \in [Units -> Amounts],
         NEW o, Layout(cp, o, num)
  PROVE  Means(DurationFrom(cp)[o + 1], SignOf(cp), num)
<1> DEFINE d == After(o, PartOf(num, "W"))  t == After(d, PartOf(num, "D"))
           x == ClockNumbers(num)  y == With(x, num, "D")  z == With(y, num, "W")
<1>1. /\ At(cp, o, PartOf(num, "W")) /\ At(cp, d, PartOf(num, "D"))
      /\ \/ Len(cp) = t /\ num["H"] = <<>> /\ num["M"] = <<>> /\ num["S"] = <<>>
         \/ t + 1 < Len(cp) /\ cp[t + 1] = "T" /\ ClockAt(cp, t + 1, num)
  BY Zenon DEF Layout
<1> HIDE DEF d, t
<1>2. /\ x \in [Units -> Amounts]
      /\ \A u \in Units : x[u] = IF u \in {"H", "M", "S"} THEN num[u] ELSE <<>>
  BY ClockNumbersAre, Zenon
<1>3. Means(DurationFrom(cp)[t + 1], SignOf(cp), x)
  <2>1. CASE Len(cp) = t /\ num["H"] = <<>> /\ num["M"] = <<>> /\ num["S"] = <<>>
    <3>1. \A u \in Units : x[u] = NoNumbers[u]
      BY <1>2, <2>1, UnitsAre
    <3> HIDE DEF x
    <3>2. x = NoNumbers
      BY <1>2, <3>1, UnitsAre
    <3>3. QED
      BY <2>1, <3>2, EndRead, Zenon DEF NoNumbers
  <2>2. CASE t + 1 < Len(cp) /\ cp[t + 1] = "T" /\ ClockAt(cp, t + 1, num)
    <3>1. t \in Nat
      <4>1. At(cp, t + 1, PartOf(num, "H"))
        BY <2>2, Zenon DEF ClockAt
      <4>2. d \in Nat /\ Len(PartOf(num, "D")) \in Nat
        <5>1. d \in Nat
          BY <1>1, Zenon DEF At
        <5>2. num["D"] \in Amounts /\ "D" \in Units
          BY UnitsAre
        <5>3. QED
          BY <5>1, <5>2, PartIs, Zenon DEF PartOf
      <4>3. QED
        BY <4>2 DEF t, After
    <3>2. t + 1 \in 1 .. Len(cp)
      BY <2>2, <3>1, Length
    <3>3. DurationFrom(cp)[t + 1] = DurationFrom(cp)[(t + 1) + 1]
      BY <2>2, <3>2, TRead
    <3>4. QED
      BY <2>2, <3>3, ClockRead, Zenon
  <2>3. QED
    BY <1>1, <2>1, <2>2, Zenon
<1>4. x["D"] = <<>> /\ x["W"] = <<>>
  BY <1>2, UnitsAre
<1> HIDE DEF x
<1>5. Means(DurationFrom(cp)[d + 1], SignOf(cp), y)
  <2>1. /\ "D" \in Units /\ x \in [Units -> Amounts] /\ x["D"] = <<>>
        /\ At(cp, d, PartOf(num, "D"))
        /\ Means(DurationFrom(cp)[After(d, PartOf(num, "D")) + 1], SignOf(cp), x)
    BY <1>1, <1>2, <1>3, <1>4, UnitsAre, Zenon DEF t
  <2>2. QED
    BY <2>1, PartReadAt, Zenon
<1>6. /\ y \in [Units -> Amounts] /\ y["D"] = num["D"]
      /\ \A v \in Units : v # "D" => y[v] = x[v]
  <2>1. x \in [Units -> Amounts] /\ "D" \in Units
    BY <1>2, UnitsAre, Zenon
  <2>2. QED
    BY <2>1, WithIs
<1>7. y["W"] = <<>>
  BY <1>4, <1>6, UnitsAre
<1> HIDE DEF y
<1>8. Means(DurationFrom(cp)[o + 1], SignOf(cp), z)
  <2>1. /\ "W" \in Units /\ y \in [Units -> Amounts] /\ y["W"] = <<>>
        /\ At(cp, o, PartOf(num, "W"))
        /\ Means(DurationFrom(cp)[After(o, PartOf(num, "W")) + 1], SignOf(cp), y)
    BY <1>1, <1>5, <1>6, <1>7, UnitsAre, Zenon DEF d
  <2>2. QED
    BY <2>1, PartReadAt, Zenon
<1>9. /\ z \in [Units -> Amounts] /\ z["W"] = num["W"]
      /\ \A v \in Units : v # "W" => z[v] = y[v]
  <2>1. y \in [Units -> Amounts] /\ "W" \in Units
    BY <1>6, UnitsAre, Zenon
  <2>2. QED
    BY <2>1, WithIs
<1> HIDE DEF z
<1>10. \A u \in Units : z[u] = num[u]
  BY <1>2, <1>6, <1>9, UnitsAre
<1>11. z = num
  BY <1>9, <1>10
<1>12. QED
  BY <1>8, <1>11, Zenon

(* What is found in a part is found in the whole.                          *)
Only(w, o, Z) == \A i \in o + 1 .. Len(w) : w[i] \in Z

Chains(w, a, b) == w = a \o b

LEMMA AtJoin ==
  ASSUME NEW S, NEW a \in Seq(S), NEW b \in Seq(S), NEW w, Chains(w, a, b)
  PROVE  /\ w \in Seq(S) /\ Len(w) = Len(a) + Len(b)
         /\ At(w, 0, a) /\ At(w, Len(a), b)
         /\ \A o, q : At(a, o, q) => At(w, o, q)
         /\ \A o, q : At(b, o, q) /\ Len(q) \in Nat => At(w, Len(a) + o, q)
<1>1. /\ w \in Seq(S) /\ Len(w) = Len(a) + Len(b)
      /\ \A i \in 1 .. Len(a) : w[i] = a[i]
      /\ \A i \in 1 .. Len(b) : w[Len(a) + i] = b[i]
  BY Chained DEF Chains
<1>2. Len(a) \in Nat /\ Len(b) \in Nat
  BY Length
<1>3. At(w, 0, a) /\ At(w, Len(a), b)
  BY <1>1, <1>2 DEF At
<1>4. ASSUME NEW o, NEW q, At(a, o, q) PROVE At(w, o, q)
  <2>1. /\ o \in Nat /\ o + Len(q) <= Len(a) /\ \A j \in 1 .. Len(q) : a[o + j] = q[j]
    BY <1>4, Zenon DEF At
  <2>2. o + Len(q) <= Len(w)
    BY <1>1, <1>2, <2>1
  <2>3. \A j \in 1 .. Len(q) : w[o + j] = q[j]
    BY <1>1, <1>2, <2>1
  <2>4. QED
    BY <2>1, <2>2, <2>3, Zenon DEF At
<1>5. ASSUME NEW o, NEW q, At(b, o, q), Len(q) \in Nat PROVE At(w, Len(a) + o, q)
  <2>1. /\ o \in Nat /\ o + Len(q) <= Len(b) /\ \A j \in 1 .. Len(q) : b[o + j] = q[j]
    BY <1>5, Zenon DEF At
  <2>2. Len(a) + o \in Nat /\ Len(a) + o + Len(q) <= Len(w)
    BY <1>1, <1>2, <1>5, <2>1
  <2>3. \A j \in 1 .. Len(q) : w[Len(a) + o + j] = q[j]
    <3> TAKE j \in 1 .. Len(q)
    <3>1. o + j \in 1 .. Len(b) /\ Len(a) + o + j = Len(a) + (o + j)
      BY <1>2, <1>5, <2>1
    <3>2. w[Len(a) + (o + j)] = b[o + j]
      BY <3>1, <1>1
    <3>3. QED
      BY <3>1, <3>2, <2>1
  <2>4. QED
    BY <2>2, <2>3, Zenon DEF At
<1>6. QED
  BY <1>1, <1>3, <1>4, <1>5

LEMMA OnlyJoin ==
  ASSUME NEW S, NEW a \in Seq(S), NEW Z \in SUBSET S, NEW b \in Seq(Z), NEW w, w = a \o b,
         NEW o \in 0 .. Len(a), Only(a, o, Z)
  PROVE  Only(w, o, Z)
<1>1. b \in Seq(S) /\ \A i \in 1 .. Len(b) : b[i] \in Z
  OBVIOUS
<1>2. /\ Len(w) = Len(a) + Len(b)
      /\ \A i \in 1 .. Len(a) : w[i] = a[i]
      /\ \A i \in 1 .. Len(b) : w[Len(a) + i] = b[i]
  BY <1>1, Chained
<1>3. Len(a) \in Nat /\ Len(b) \in Nat
  BY <1>1, Length
<1>4. \A i \in o + 1 .. Len(w) : w[i] \in Z
  <2> TAKE i \in o + 1 .. Len(w)
  <2>1. CASE i <= Len(a)
    BY <2>1, <1>2, <1>3 DEF Only
  <2>2. CASE i > Len(a)
    <3>1. i - Len(a) \in 1 .. Len(b) /\ Len(a) + (i - Len(a)) = i
      BY <2>2, <1>2, <1>3
    <3>2. QED
      BY <3>1, <1>1, <1>2
  <2>3. QED
    BY <2>1, <2>2, <1>3
<1>5. QED
  BY <1>4, Zenon DEF Only

(* Where the text of a duration has its parts.                             *)
SignSaid(mark) == IF mark = "-" THEN -1 ELSE 1
ClockText(num) == PartOf(num, "H") \o PartOf(num, "M") \o PartOf(num, "S")
TimeText(num) == IF ClockText(num) = <<>> THEN <<>> ELSE <<"T">> \o ClockText(num)
Letters == Digits \cup Units \cup {"T"}
Characters == Letters \cup {"P", "-", "+"}

LEMMA DurationTextIs ==
  ASSUME NEW mark, NEW num
  PROVE  DurationText(mark, num) =
           <<"P">> \o Mark(mark) \o PartOf(num, "W") \o PartOf(num, "D") \o TimeText(num)
BY Zenon DEF DurationText, TimeText, ClockText, PartOf, PartText

LEMMA PartOfIs ==
  ASSUME NEW num \in [Units -> Amounts], NEW u \in Units
  PROVE  /\ PartOf(num, u) \in Seq(Letters) /\ PartOf(num, u) \in Seq(Characters)
         /\ Len(PartOf(num, u)) \in Nat
         /\ num[u] # <<>> => Len(PartOf(num, u)) > 0
<1> DEFINE q == PartText(num[u], u)
<1>1. num[u] \in Amounts /\ PartOf(num, u) = q
  BY Zenon DEF PartOf
<1>2. /\ q \in Seq(Digits \cup Units) /\ Len(q) \in Nat
      /\ num[u] # <<>> => Len(q) \in 2 .. 3
  BY <1>1, PartIs
<1> HIDE DEF q
<1>3. q \in Seq(Letters) /\ q \in Seq(Characters)
  <2>1. \A A, B : A \subseteq B => Seq(A) \subseteq Seq(B)
    OBVIOUS
  <2>2. (Digits \cup Units) \subseteq Letters /\ (Digits \cup Units) \subseteq Characters
    BY DEF Letters, Characters
  <2>3. QED
    BY <1>2, <2>1, <2>2, Zenon
<1>4. num[u] # <<>> => Len(q) > 0
  <2>1. \A k \in 2 .. 3 : k > 0
    OBVIOUS
  <2>2. QED
    BY <1>2, <2>1, Zenon
<1>5. QED
  BY <1>1, <1>2, <1>3, <1>4

LEMMA TimeTextIs ==
  ASSUME NEW num \in [Units -> Amounts], NEW b \in Seq(Characters), NEW w,
         w = b \o TimeText(num)
  PROVE  /\ TimeText(num) \in Seq(Letters) /\ TimeText(num) \in Seq(Characters)
         /\ \/ /\ Len(w) = Len(b) /\ num["H"] = <<>> /\ num["M"] = <<>> /\ num["S"] = <<>>
            \/ /\ Len(b) + 1 < Len(w) /\ w[Len(b) + 1] = "T" /\ ClockAt(w, Len(b) + 1, num)
<1> DEFINE H == PartOf(num, "H")  M == PartOf(num, "M")  S == PartOf(num, "S")
           hm == H \o M  c == hm \o S
<1>1. ClockText(num) = c
  BY Zenon DEF ClockText
<1>2. /\ H \in Seq(Letters) /\ M \in Seq(Letters) /\ S \in Seq(Letters)
      /\ Len(H) \in Nat /\ Len(M) \in Nat /\ Len(S) \in Nat
      /\ num["H"] # <<>> => Len(H) > 0
      /\ num["M"] # <<>> => Len(M) > 0
      /\ num["S"] # <<>> => Len(S) > 0
  BY UnitsAre, PartOfIs, Zenon
<1> HIDE DEF H, M, S
<1>3. /\ hm \in Seq(Letters) /\ Len(hm) = Len(H) + Len(M)
      /\ At(hm, 0, H) /\ At(hm, Len(H), M)
  <2>1. Chains(hm, H, M)
    BY Zenon DEF Chains
  <2> HIDE DEF hm
  <2>2. QED
    BY <1>2, <2>1, AtJoin
<1> HIDE DEF hm
<1>4. /\ c \in Seq(Letters) /\ Len(c) = Len(hm) + Len(S) /\ At(c, Len(hm), S)
      /\ \A o, q : At(hm, o, q) => At(c, o, q)
  <2>1. hm \in Seq(Letters) /\ S \in Seq(Letters) /\ Chains(c, hm, S)
    BY <1>2, <1>3, Zenon DEF Chains
  <2> HIDE DEF c
  <2>2. QED
    BY <2>1, AtJoin
<1> HIDE DEF c
<1>5. At(c, 0, H) /\ At(c, Len(H), M) /\ At(c, Len(H) + Len(M), S)
      /\ Len(c) = Len(H) + Len(M) + Len(S)
  BY <1>3, <1>4, Zenon
<1>6. Letters \subseteq Characters /\ "T" \in Letters /\ b \in Seq(Characters)
  BY DEF Letters, Characters
<1>7. CASE c = <<>>
  <2>1. TimeText(num) = <<>>
    BY <1>1, <1>7, Zenon DEF TimeText
  <2>2. Len(c) = 0
    BY <1>7
  <2>3. Len(H) = 0 /\ Len(M) = 0 /\ Len(S) = 0
    <3>1. \A x, y, z \in Nat : x + y + z = 0 => x = 0 /\ y = 0 /\ z = 0
      OBVIOUS
    <3>2. QED
      BY <1>2, <1>5, <2>2, <3>1, Zenon
  <2>4. num["H"] = <<>> /\ num["M"] = <<>> /\ num["S"] = <<>>
    BY <1>2, <2>3
  <2>5. <<>> \in Seq(Letters) /\ <<>> \in Seq(Characters) /\ Len(<<>>) = 0
    OBVIOUS
  <2>6. Len(w) = Len(b)
    <3>1. w = b \o <<>>
      BY <2>1
    <3>2. Len(w) = Len(b) + Len(<<>>)
      BY <1>6, <2>5, <3>1, Chained
    <3>3. QED
      BY <3>2, <2>5, <1>6, Length
  <2>7. QED
    BY <2>1, <2>4, <2>5, <2>6, Zenon
<1>8. CASE c # <<>>
  <2> DEFINE t == <<"T">>  tc == t \o c
  <2>1. TimeText(num) = tc
    BY <1>1, <1>8, Zenon DEF TimeText
  <2>2. t \in Seq(Letters) /\ Len(t) = 1 /\ t[1] = "T"
    BY <1>6
  <2> HIDE DEF t
  <2>3. /\ tc \in Seq(Letters) /\ Len(tc) = Len(t) + Len(c) /\ At(tc, 0, t)
        /\ \A o, q : At(c, o, q) /\ Len(q) \in Nat => At(tc, Len(t) + o, q)
    <3>1. t \in Seq(Letters) /\ c \in Seq(Letters) /\ Chains(tc, t, c)
      BY <1>4, <2>2, Zenon DEF Chains
    <3> HIDE DEF tc
    <3>2. QED
      BY <3>1, AtJoin
  <2> HIDE DEF tc
  <2>4. tc \in Seq(Characters)
    <3>1. \A A, B : A \subseteq B => Seq(A) \subseteq Seq(B)
      OBVIOUS
    <3>2. QED
      BY <1>6, <2>3, <3>1, Zenon
  <2>5. /\ Len(w) = Len(b) + Len(tc)
        /\ \A o, q : At(tc, o, q) /\ Len(q) \in Nat => At(w, Len(b) + o, q)
    <3>1. b \in Seq(Characters) /\ tc \in Seq(Characters) /\ Chains(w, b, tc)
      BY <1>6, <2>1, <2>4, Zenon DEF Chains
    <3>2. QED
      BY <3>1, AtJoin, ZenonT(60)
  <2>6. Len(c) \in Nat /\ Len(c) # 0 /\ Len(b) \in Nat
    <3>1. Len(c) # 0
      BY <1>4, <1>8
    <3>2. QED
      BY <1>4, <1>6, <3>1, Length
  <2>7. At(w, Len(b) + 0, t)
    BY <2>3, <2>5, <2>2
  <2>8. w[Len(b) + 1] = "T"
    <3>1. \A j \in 1 .. Len(t) : w[(Len(b) + 0) + j] = t[j]
      BY <2>7, Zenon DEF At
    <3>2. 1 \in 1 .. Len(t) /\ (Len(b) + 0) + 1 = Len(b) + 1
      BY <2>2, <2>6
    <3>3. QED
      BY <2>2, <3>1, <3>2, Zenon
  <2>9. Len(b) + 1 < Len(w) /\ Len(w) = (((Len(b) + 1) + Len(H)) + Len(M)) + Len(S)
    BY <2>2, <2>3, <2>5, <2>6, <1>2, <1>5
  <2>10. \A o, q : At(c, o, q) /\ Len(q) \in Nat => At(w, Len(b) + (Len(t) + o), q)
    BY <2>3, <2>5, Zenon
  <2>11. /\ At(w, Len(b) + (Len(t) + 0), H) /\ At(w, Len(b) + (Len(t) + Len(H)), M)
         /\ At(w, Len(b) + (Len(t) + (Len(H) + Len(M))), S)
    BY <2>10, <1>2, <1>5, Zenon
  <2>12. /\ Len(b) + (Len(t) + 0) = Len(b) + 1
         /\ Len(b) + (Len(t) + Len(H)) = (Len(b) + 1) + Len(H)
         /\ Len(b) + (Len(t) + (Len(H) + Len(M))) = ((Len(b) + 1) + Len(H)) + Len(M)
    BY <2>2, <2>6, <1>2
  <2>13. ClockAt(w, Len(b) + 1, num)
    BY <2>9, <2>11, <2>12, Zenon DEF ClockAt, After, H, M, S
  <2>14. QED
    BY <2>1, <2>3, <2>4, <2>8, <2>9, <2>13, Zenon
<1>9. QED
  BY <1>7, <1>8, Zenon

(* The text of a duration: its sign, where its parts begin, and the parts. *)
LEMMA TextLayout ==
  ASSUME NEW mark \in Marks, NEW num \in [Units -> Amounts], num # NoNumbers,
         NEW w, w = DurationText(mark, num)
  PROVE  /\ w \in Seq(Characters) /\ w[1] = "P" /\ SignOf(w) = SignSaid(mark)
         /\ ~ (Len(w) < FromOf(w)) /\ FromOf(w) \in Nat /\ Layout(w, FromOf(w) - 1, num)
<1> DEFINE P == <<"P">>  sg == Mark(mark)  W == PartOf(num, "W")  D == PartOf(num, "D")
           T == TimeText(num)  a == P \o sg  b == a \o W  c == b \o D  o == Len(a)
<1>1. w = c \o T
  BY DurationTextIs, Zenon
<1>2. /\ "P" \in Characters /\ "-" \in Characters /\ "+" \in Characters /\ Letters \in SUBSET Characters
      /\ "-" \notin Letters /\ "+" \notin Letters
  BY DEF Characters, Letters, Digits, Units
<1>3. P \in Seq(Characters) /\ Len(P) = 1 /\ P[1] = "P"
  BY <1>2
<1>4. /\ sg \in Seq(Characters)
      /\ \/ mark = "" /\ Len(sg) = 0
         \/ mark # "" /\ mark \in {"-", "+"} /\ Len(sg) = 1 /\ sg[1] = mark
  <2>1. CASE mark = ""
    <3>1. sg = <<>>
      BY <2>1 DEF Mark
    <3>2. <<>> \in Seq(Characters) /\ Len(<<>>) = 0
      OBVIOUS
    <3>3. QED
      BY <2>1, <3>1, <3>2, Zenon
  <2>2. CASE mark # ""
    <3>1. sg = <<mark>> /\ mark \in {"-", "+"} /\ mark \in Characters
      BY <2>2, <1>2 DEF Mark, Marks
    <3>2. <<mark>> \in Seq(Characters) /\ Len(<<mark>>) = 1 /\ <<mark>>[1] = mark
      BY <3>1
    <3>3. QED
      BY <2>2, <3>1, <3>2, Zenon
  <2>3. QED
    BY <2>1, <2>2
<1> HIDE DEF P, sg
<1>5. /\ W \in Seq(Letters) /\ W \in Seq(Characters) /\ D \in Seq(Letters) /\ D \in Seq(Characters)
      /\ Len(W) \in Nat /\ Len(D) \in Nat
      /\ num["W"] # <<>> => Len(W) > 0
      /\ num["D"] # <<>> => Len(D) > 0
  BY UnitsAre, PartOfIs, Zenon
<1> HIDE DEF W, D
<1>6. /\ a \in Seq(Characters) /\ Len(a) = Len(P) + Len(sg) /\ At(a, 0, P) /\ At(a, Len(P), sg)
  <2>1. Chains(a, P, sg)
    BY Zenon DEF Chains
  <2> HIDE DEF a
  <2>2. QED
    BY <1>3, <1>4, <2>1, AtJoin, ZenonT(60)
<1> HIDE DEF a
<1>7. /\ b \in Seq(Characters) /\ Len(b) = Len(a) + Len(W) /\ At(b, Len(a), W)
      /\ \A i, q : At(a, i, q) => At(b, i, q)
  <2>1. a \in Seq(Characters) /\ W \in Seq(Characters) /\ Chains(b, a, W)
    BY <1>5, <1>6, Zenon DEF Chains
  <2> HIDE DEF b
  <2>2. QED
    BY <2>1, AtJoin
<1>8. Only(b, o, Letters)
  <2>1. Only(a, o, Letters) /\ o \in 0 .. Len(a)
    BY <1>6, Length DEF Only
  <2>2. QED
    BY <1>2, <1>5, <1>6, <2>1, OnlyJoin
<1> HIDE DEF b
<1>9. /\ c \in Seq(Characters) /\ Len(c) = Len(b) + Len(D) /\ At(c, Len(b), D)
      /\ \A i, q : At(b, i, q) => At(c, i, q)
  <2>1. b \in Seq(Characters) /\ D \in Seq(Characters) /\ Chains(c, b, D)
    BY <1>5, <1>7, Zenon DEF Chains
  <2> HIDE DEF c
  <2>2. QED
    BY <2>1, AtJoin
<1>a. o \in Nat /\ Len(b) \in Nat /\ Len(c) \in Nat /\ Len(a) = o
  BY <1>6, <1>7, <1>9, Length
<1>10. Only(c, o, Letters)
  <2>1. o \in 0 .. Len(b)
    BY <1>a, <1>5, <1>7
  <2>2. QED
    BY <1>2, <1>5, <1>7, <1>8, <2>1, OnlyJoin
<1> HIDE DEF c
<1>11. /\ T \in Seq(Letters) /\ T \in Seq(Characters)
       /\ \/ /\ Len(w) = Len(c) /\ num["H"] = <<>> /\ num["M"] = <<>> /\ num["S"] = <<>>
          \/ /\ Len(c) + 1 < Len(w) /\ w[Len(c) + 1] = "T" /\ ClockAt(w, Len(c) + 1, num)
  BY <1>1, <1>9, TimeTextIs
<1> HIDE DEF T
<1>12. /\ w \in Seq(Characters) /\ Len(w) = Len(c) + Len(T)
       /\ \A i, q : At(c, i, q) => At(w, i, q)
  <2>1. c \in Seq(Characters) /\ T \in Seq(Characters) /\ Chains(w, c, T)
    BY <1>1, <1>9, <1>11, Zenon DEF Chains
  <2>2. QED
    BY <2>1, AtJoin
<1>13. Only(w, o, Letters)
  <2>1. o \in 0 .. Len(c)
    BY <1>a, <1>5, <1>7, <1>9
  <2>2. QED
    BY <1>1, <1>2, <1>9, <1>10, <1>11, <2>1, OnlyJoin
<1>14. At(w, 0, P) /\ At(w, Len(P), sg) /\ At(w, o, W) /\ At(w, Len(b), D)
  BY <1>6, <1>7, <1>9, <1>12, <1>a, Zenon
<1>15. Layout(w, o, num)
  <2>1. Len(b) = After(o, W) /\ Len(c) = After(Len(b), D)
    BY <1>7, <1>9, <1>a, Zenon DEF After
  <2>2. QED
    BY <1>11, <1>14, <2>1, Zenon DEF Layout, W, D
<1>16. Len(w) >= o + 1
  <2>b. Len(w) = ((o + Len(W)) + Len(D)) + Len(T) /\ Len(T) \in Nat
    BY <1>7, <1>9, <1>11, <1>12, <1>a, Length
  <2>1. ASSUME Len(W) = 0, Len(D) = 0, Len(w) = Len(c) PROVE FALSE
    <3>1. num["W"] = <<>> /\ num["D"] = <<>>
      <4>1. ~ (0 > 0)
        OBVIOUS
      <4>2. QED
        BY <1>5, <2>1, <4>1, Zenon
    <3>2. num["H"] = <<>> /\ num["M"] = <<>> /\ num["S"] = <<>>
      <4>1. ~ (Len(c) + 1 < Len(c))
        BY <1>a
      <4>2. QED
        BY <2>1, <4>1, <1>11, Zenon
    <3>3. \A u \in Units : num[u] = NoNumbers[u]
      BY <3>1, <3>2, UnitsAre, Zenon
    <3>4. num = NoNumbers
      BY <3>3, UnitsAre
    <3>5. QED
      BY <3>4
  <2>2. \A x, y, z, v \in Nat : ~ (y = 0 /\ z = 0 /\ v = 0) => ((x + y) + z) + v >= x + 1
    OBVIOUS
  <2>3. ~ (Len(W) = 0 /\ Len(D) = 0 /\ Len(T) = 0)
    <3>1. Len(T) = 0 => Len(w) = Len(c)
      BY <1>12, <1>a
    <3>2. QED
      BY <2>1, <3>1
  <2>4. QED
    BY <1>5, <1>a, <2>b, <2>2, <2>3
<1>17. w[1] = "P"
  <2>1. \A j \in 1 .. Len(P) : w[0 + j] = P[j]
    BY <1>14, Zenon DEF At
  <2>2. 1 \in 1 .. 1 /\ 0 + 1 = 1
    OBVIOUS
  <2>3. QED
    BY <1>3, <2>1, <2>2, Zenon
<1>18. Len(w) \in Nat
  BY <1>12, Length
<1>19. FromOf(w) = o + 1 /\ SignOf(w) = SignSaid(mark)
  <2>1. CASE mark = "" /\ Len(sg) = 0
    <3>0. Len(sg) = 0
      BY <2>1, Zenon
    <3>1. o = 1 /\ Len(w) > 1
      BY <3>0, <1>3, <1>6, <1>16, <1>18
    <3>2. w[2] \in Letters
      BY <1>13, <3>1, <1>18 DEF Only
    <3>3. w[2] # "-" /\ w[2] \notin {"-", "+"}
      BY <1>2, <3>2
    <3>4. FromOf(w) = 2 /\ SignOf(w) = 1
      BY <3>1, <3>3, Zenon DEF FromOf, SignOf
    <3>5. SignSaid(mark) = 1
      BY <2>1 DEF SignSaid
    <3>6. QED
      BY <3>1, <3>4, <3>5
  <2>2. CASE mark # "" /\ mark \in {"-", "+"} /\ Len(sg) = 1 /\ sg[1] = mark
    <3>0. Len(sg) = 1
      BY <2>2, Zenon
    <3>1. o = 2 /\ Len(w) > 1
      BY <3>0, <1>3, <1>6, <1>16, <1>18
    <3>2. w[2] = mark
      <4>1. \A j \in 1 .. Len(sg) : w[Len(P) + j] = sg[j]
        BY <1>14, Zenon DEF At
      <4>2. 1 \in 1 .. 1 /\ 1 + 1 = 2
        OBVIOUS
      <4>3. QED
        BY <2>2, <1>3, <4>1, <4>2, Zenon
    <3>3. FromOf(w) = 3 /\ SignOf(w) = SignSaid(mark)
      BY <2>2, <3>1, <3>2, Zenon DEF FromOf, SignOf, SignSaid
    <3>4. QED
      BY <3>1, <3>3
  <2>3. QED
    BY <1>4, <2>1, <2>2, Zenon
<1>20. FromOf(w) \in Nat /\ FromOf(w) - 1 = o /\ ~ (Len(w) < FromOf(w))
  BY <1>16, <1>18, <1>19, <1>a
<1>21. QED
  BY <1>12, <1>15, <1>17, <1>19, <1>20, Zenon

LEMMA DurationRead ==
  ASSUME NEW mark \in Marks, NEW num \in Numbers, NEW w, w = DurationText(mark, num)
  PROVE  /\ ical_duration(w).ok = TRUE
         /\ [sign |-> ical_duration(w).sign, num |-> ical_duration(w).num]
              = DurationSaid(mark, num)
<1>1. num \in [Units -> Amounts] /\ num # NoNumbers
  BY DEF Numbers, NoNumbers
<1>2. /\ w \in Seq(Characters) /\ w[1] = "P" /\ SignOf(w) = SignSaid(mark)
      /\ ~ (Len(w) < FromOf(w)) /\ FromOf(w) \in Nat /\ Layout(w, FromOf(w) - 1, num)
  BY <1>1, TextLayout
<1>3. Means(DurationFrom(w)[FromOf(w)], SignSaid(mark), num)
  <2>1. Means(DurationFrom(w)[(FromOf(w) - 1) + 1], SignOf(w), num)
    BY <1>1, <1>2, LayoutRead, Zenon
  <2>2. (FromOf(w) - 1) + 1 = FromOf(w)
    BY <1>2
  <2>3. QED
    BY <1>2, <2>1, <2>2, Zenon
<1>4. ical_duration(w) = DurationFrom(w)[FromOf(w)]
  BY <1>2, DurationIs, Zenon
<1>5. QED
  BY <1>3, <1>4, Zenon DEF Means, DurationSaid, SignSaid

LEMMA FirstOfJoin ==
  ASSUME NEW S, NEW x \in S, NEW b \in Seq(S), NEW w, Chains(w, <<x>>, b)
  PROVE  w[1] = x
BY DEF Chains

(* One that begins with its sign is not read at all.                       *)
LEMMA SignedFirstFails ==
  ASSUME NEW mark \in Marks, mark # "", NEW num \in Numbers, NEW w, w = SignedFirst(mark, num)
  PROVE  ical_duration(w).ok = FALSE
<1> DEFINE rest == DurationText("", num)
<1>1. num \in [Units -> Amounts] /\ num # NoNumbers /\ "" \in Marks
  BY DEF Numbers, NoNumbers, Marks
<1>2. rest \in Seq(Characters)
  BY <1>1, TextLayout
<1>3. w = <<mark>> \o rest
  BY Zenon DEF SignedFirst, Mark
<1> HIDE DEF rest
<1>4. mark \in Characters /\ mark # "P"
  BY DEF Marks, Characters
<1>5. w[1] = mark
  <2>1. Chains(w, <<mark>>, rest)
    BY <1>3, Zenon DEF Chains
  <2>2. QED
    BY <1>2, <1>4, <2>1, FirstOfJoin, Zenon
<1>6. ical_duration(w) = DoneOf(w, FALSE, Len(w) + 1)
  BY <1>4, <1>5, DurationIs, Zenon
<1>7. DoneOf(w, FALSE, Len(w) + 1).ok = FALSE
  BY Zenon DEF DoneOf
<1>8. QED
  BY <1>6, <1>7, Zenon
-----------------------------------------------------------------------------
(* ical_parse: the last line read, and the component it is in.             *)

ASequence(s) == s \in Seq({s[i] : i \in DOMAIN s})
HasAttributes(c) == "attr" \in DOMAIN c /\ DOMAIN c.attr = Attributes

CompsOK == ASequence(comps) /\ \A i \in 1 .. Len(comps) : HasAttributes(comps[i])
StackOK ==
    ASequence(stack) /\ \A k \in 1 .. Len(stack) : stack[k].comp \in 1 .. Len(comps)

ICalType == text \in Seq(alphabet.lines) /\ CompsOK /\ StackOK
Unopened == text = <<>> => stack = <<>>
ICalInv == ICalType /\ Unopened /\ DurationsRead

LEMMA ASequenceIs ==
  ASSUME NEW S, NEW s \in Seq(S)
  PROVE  ASequence(s) /\ DOMAIN s = 1 .. Len(s)
<1>1. Len(s) \in Nat /\ DOMAIN s = 1 .. Len(s) /\ s = [i \in 1 .. Len(s) |-> s[i]]
  OBVIOUS
<1>2. \A T : \A n \in Nat : \A f \in [1 .. n -> T] : f \in Seq(T)
  OBVIOUS
<1>3. s \in [1 .. Len(s) -> {s[i] : i \in DOMAIN s}]
  BY <1>1
<1>4. QED
  BY <1>1, <1>2, <1>3, Zenon DEF ASequence

Grows(t, s, x) == t = Append(s, x)
Changes(t, s, i, x) == t = [s EXCEPT ![i] = x]

LEMMA GrownSequence ==
  ASSUME NEW s, ASequence(s), NEW x, NEW t, Grows(t, s, x)
  PROVE  /\ ASequence(t) /\ Len(t) = Len(s) + 1 /\ Len(s) \in Nat
         /\ t[Len(s) + 1] = x /\ \A i \in 1 .. Len(s) : t[i] = s[i]
<1> DEFINE T == {s[i] : i \in DOMAIN s} \cup {x}
<1>1. s \in Seq({s[i] : i \in DOMAIN s})
  BY Zenon DEF ASequence
<1>2. s \in Seq(T) /\ x \in T
  BY <1>1
<1> HIDE DEF T
<1>3. /\ t \in Seq(T) /\ Len(t) = Len(s) + 1 /\ Len(s) \in Nat
      /\ t[Len(s) + 1] = x /\ \A i \in 1 .. Len(s) : t[i] = s[i]
  BY <1>2 DEF Grows
<1>4. QED
  BY <1>3, ASequenceIs

LEMMA ChangedSequence ==
  ASSUME NEW s, ASequence(s), NEW i \in 1 .. Len(s), NEW x, NEW t, Changes(t, s, i, x)
  PROVE  /\ ASequence(t) /\ Len(t) = Len(s) /\ t[i] = x
         /\ \A k \in 1 .. Len(s) : k # i => t[k] = s[k]
<1> DEFINE T == {s[k] : k \in DOMAIN s} \cup {x}
<1>1. s \in Seq({s[k] : k \in DOMAIN s})
  BY Zenon DEF ASequence
<1>2. s \in Seq(T) /\ x \in T
  BY <1>1
<1> HIDE DEF T
<1>3. /\ t \in Seq(T) /\ Len(t) = Len(s) /\ t[i] = x
      /\ \A k \in 1 .. Len(s) : k # i => t[k] = s[k]
  BY <1>2 DEF Changes
<1>4. QED
  BY <1>3, ASequenceIs

LEMMA ZoneIs ==
  ASSUME ASequence(comps), LastZone # None
  PROVE  LastZone \in 1 .. Len(comps)
<1> DEFINE Z == {i \in DOMAIN comps : comps[i].type = "VTIMEZONE"}
           n == Len(comps)  R == {n - i : i \in Z}
<1>1. n \in Nat /\ DOMAIN comps = 1 .. n
  BY ASequenceIs DEF ASequence
<1>2. Z # {} /\ LastZone = CHOOSE i \in Z : \A k \in Z : k <= i
  BY Zenon DEF LastZone
<1>3. Z \subseteq 1 .. n
  BY <1>1
<1> HIDE DEF Z, n
<1>4. R \in SUBSET Nat /\ R # {}
  <2>1. \A i \in Z : n - i \in Nat
    BY <1>1, <1>3
  <2>2. QED
    BY <1>2, <2>1, Zenon
<1>5. PICK m \in R : \A k \in R : m <= k
  BY <1>4, Least
<1>6. PICK i \in Z : m = n - i
  BY <1>5
<1>7. \A k \in Z : k <= i
  <2> TAKE k \in Z
  <2>1. n - k \in R
    OBVIOUS
  <2>2. m <= n - k
    BY <1>5, <2>1
  <2>3. QED
    BY <1>1, <1>3, <1>6, <2>2
<1>8. QED
  BY <1>2, <1>3, <1>7, Zenon DEF n

LEMMA LineTaken ==
  ASSUME text \in Seq(alphabet.lines), alphabet' = alphabet,
         NEW line \in alphabet.lines, text' = Append(text, line)
  PROVE  /\ text' \in Seq(alphabet'.lines) /\ text' # <<>> /\ Last(text') = line
<1>1. alphabet'.lines = alphabet.lines
  OBVIOUS
<1>2. /\ text' \in Seq(alphabet.lines) /\ Len(text') = Len(text) + 1 /\ Len(text) \in Nat
      /\ text'[Len(text) + 1] = line
  BY AppendIs
<1>3. text' # <<>>
  BY <1>2
<1>4. QED
  BY <1>1, <1>2, <1>3 DEF Last

(* Every line but a DURATION leaves nothing to show.                       *)
LEMMA OtherLine ==
  ASSUME text' # <<>>, Name(Last(text')) # "DURATION"
  PROVE  Unopened' /\ DurationsRead'
BY Zenon DEF Unopened, DurationsRead

(* The stack grows by a frame of a component that exists.                  *)
LEMMA FramePushed ==
  ASSUME CompsOK, StackOK, NEW c, NEW z,
         Push([comp |-> c, tz |-> z]), c \in 1 .. Len(comps)',
         Len(comps)' >= Len(comps), Len(comps)' \in Nat
  PROVE  StackOK'
<1> DEFINE fr == [comp |-> c, tz |-> z]
<1>1. fr.comp = c
  OBVIOUS
<1>2. /\ Grows(stack', stack, fr) /\ ASequence(stack)
      /\ \A k \in 1 .. Len(stack) : stack[k].comp \in 1 .. Len(comps)
  BY Zenon DEF Push, StackOK, Grows
<1> HIDE DEF fr
<1>3. /\ ASequence(stack') /\ Len(stack') = Len(stack) + 1 /\ Len(stack) \in Nat
      /\ stack'[Len(stack) + 1] = fr /\ \A k \in 1 .. Len(stack) : stack'[k] = stack[k]
  <2>1. ASequence(stack) /\ Grows(stack', stack, fr)
    BY <1>2
  <2>2. QED
    BY <2>1, GrownSequence
<1>4. Len(comps) \in Nat
  BY ASequenceIs DEF CompsOK, ASequence
<1>5. \A k \in 1 .. Len(stack') : stack'[k].comp \in 1 .. Len(comps)'
  <2> TAKE k \in 1 .. Len(stack')
  <2>1. CASE k = Len(stack) + 1
    BY <2>1, <1>1, <1>3
  <2>2. CASE k # Len(stack) + 1
    <3>1. k \in 1 .. Len(stack)
      BY <2>2, <1>3
    <3>2. stack'[k].comp \in 1 .. Len(comps)
      BY <3>1, <1>2, <1>3
    <3>3. QED
      BY <3>2, <1>4
  <2>3. QED
    BY <2>1, <2>2
<1>6. QED
  BY <1>3, <1>5, Zenon DEF StackOK

LEMMA CompIs ==
  ASSUME NEW type
  PROVE  HasAttributes(Comp(type))
BY Zenon DEF HasAttributes, Comp

LEMMA CompOpened ==
  ASSUME ICalType, NEW type, Open(type)
  PROVE  CompsOK' /\ StackOK'
<1> DEFINE c == Comp(type)  n == Len(comps) + 1
<1>1. comps' = Append(comps, c) /\ Push([comp |-> n, tz |-> None]) /\ HasAttributes(c)
  BY CompIs, Zenon DEF Open
<1>2. CompsOK /\ StackOK
  BY Zenon DEF ICalType
<1>3. /\ ASequence(comps) /\ \A i \in 1 .. Len(comps) : HasAttributes(comps[i])
      /\ Grows(comps', comps, c)
  BY <1>1, <1>2, Zenon DEF CompsOK, Grows
<1> HIDE DEF c
<1>4. /\ ASequence(comps') /\ Len(comps') = Len(comps) + 1 /\ Len(comps) \in Nat
      /\ comps'[Len(comps) + 1] = c /\ \A i \in 1 .. Len(comps) : comps'[i] = comps[i]
  <2>1. ASequence(comps) /\ Grows(comps', comps, c)
    BY <1>3
  <2>2. QED
    BY <2>1, GrownSequence
<1>5. CompsOK'
  <2>1. ASSUME NEW i \in 1 .. Len(comps') PROVE HasAttributes(comps'[i])
    <3>1. i \in 1 .. Len(comps) \/ i = Len(comps) + 1
      BY <1>4
    <3>2. QED
      BY <3>1, <1>1, <1>3, <1>4, Zenon
  <2>2. QED
    BY <2>1, <1>4, Zenon DEF CompsOK
<1>6. StackOK'
  <2>1. n \in Nat /\ n \in 1 .. Len(comps') /\ Len(comps') >= Len(comps) /\ Len(comps') \in Nat
    BY <1>4
  <2> HIDE DEF n
  <2>2. QED
    BY <1>1, <1>2, <2>1, FramePushed
<1>7. QED
  BY <1>5, <1>6

(* A component changed otherwise than by losing an attribute.              *)
LEMMA CompChanged ==
  ASSUME ICalType, NEW i \in 1 .. Len(comps), NEW c, HasAttributes(c),
         Changes(comps', comps, i, c)
  PROVE  CompsOK' /\ Len(comps') = Len(comps) /\ comps'[i] = c
<1>1. ASequence(comps) /\ \A k \in 1 .. Len(comps) : HasAttributes(comps[k])
  BY Zenon DEF ICalType, CompsOK
<1>2. /\ ASequence(comps') /\ Len(comps') = Len(comps) /\ comps'[i] = c
      /\ \A k \in 1 .. Len(comps) : k # i => comps'[k] = comps[k]
  <2>1. ASequence(comps) /\ i \in 1 .. Len(comps) /\ Changes(comps', comps, i, c)
    BY <1>1
  <2>2. QED
    BY <2>1, ChangedSequence
<1>3. ASSUME NEW k \in 1 .. Len(comps') PROVE HasAttributes(comps'[k])
  BY <1>1, <1>2, Zenon
<1>4. QED
  BY <1>2, <1>3, Zenon DEF CompsOK

LEMMA StackKept ==
  ASSUME StackOK, Len(comps') = Len(comps), stack' = stack
  PROVE  StackOK'
BY Zenon DEF StackOK

LEMMA FailsKeeps ==
  ASSUME ICalInv, ical_line_fails
  PROVE  ICalInv'
<1>1. PICK line \in Line(None) : text' = Append(text, line)
  BY Zenon DEF ical_line_fails
<1>2. line \in alphabet.lines /\ Name(line) # "DURATION"
  BY NoneAssumption DEF Line, Attributes
<1>3. text \in Seq(alphabet.lines) /\ alphabet' = alphabet /\ comps' = comps /\ stack' = stack
  BY Zenon DEF ical_line_fails, ICalInv, ICalType
<1>4. text' \in Seq(alphabet'.lines) /\ text' # <<>> /\ Last(text') = line
  BY <1>1, <1>2, <1>3, LineTaken
<1>5. CompsOK' /\ StackOK'
  BY <1>3, Zenon DEF ICalInv, ICalType, CompsOK, StackOK
<1>6. Unopened' /\ DurationsRead'
  BY <1>2, <1>4, OtherLine, Zenon
<1>7. QED
  BY <1>4, <1>5, <1>6, Zenon DEF ICalInv, ICalType

LEMMA ParseKeeps ==
  ASSUME ICalInv, ical_parse
  PROVE  ICalInv'
<1>1. PICK line \in alphabet.lines :
        /\ Take(line)
        /\ IF Name(line) = "BEGIN" /\ Val(line) = "VCALENDAR"
           THEN Open("VCALENDAR") /\ UNCHANGED status
           ELSE status' = "error" /\ UNCHANGED <<comps, stack>>
  BY Zenon DEF ical_parse
<1>2. /\ text \in Seq(alphabet.lines) /\ alphabet' = alphabet /\ text' = Append(text, line)
      /\ stack = <<>>
  BY <1>1, Zenon DEF ical_parse, ICalInv, ICalType, Unopened, Take
<1>3. text' \in Seq(alphabet'.lines) /\ text' # <<>> /\ Last(text') = line
  BY <1>2, LineTaken
<1>4. CASE Name(line) = "BEGIN" /\ Val(line) = "VCALENDAR"
  <2>1. CompsOK' /\ StackOK'
    BY <1>1, <1>4, CompOpened, Zenon DEF ICalInv
  <2>2. Unopened' /\ DurationsRead'
    BY <1>3, <1>4, OtherLine
  <2>3. QED
    BY <1>3, <2>1, <2>2, Zenon DEF ICalInv, ICalType
<1>5. CASE ~ (Name(line) = "BEGIN" /\ Val(line) = "VCALENDAR")
  <2>1. comps' = comps /\ stack' = stack
    BY <1>1, <1>5, Zenon
  <2>2. CompsOK' /\ StackOK'
    BY <2>1, Zenon DEF ICalInv, ICalType, CompsOK, StackOK
  <2>3. Unopened' /\ DurationsRead'
    BY <1>2, <2>1, Zenon DEF Unopened, DurationsRead
  <2>4. QED
    BY <1>3, <2>2, <2>3, Zenon DEF ICalInv, ICalType
<1>6. QED
  BY <1>4, <1>5

LEMMA CompKeeps ==
  ASSUME ICalInv, ical_parsecomp
  PROVE  ICalInv'
<1>1. PICK line \in Line("BEGIN") : Take(line) /\ Open(Val(line))
  BY Zenon DEF ical_parsecomp
<1>2. /\ text \in Seq(alphabet.lines) /\ alphabet' = alphabet /\ text' = Append(text, line)
      /\ line \in alphabet.lines /\ Name(line) = "BEGIN"
  BY <1>1, Zenon DEF ical_parsecomp, ICalInv, ICalType, Take, Line
<1>3. text' \in Seq(alphabet'.lines) /\ text' # <<>> /\ Last(text') = line
  BY <1>2, LineTaken
<1>4. CompsOK' /\ StackOK'
  BY <1>1, CompOpened, Zenon DEF ICalInv
<1>5. Unopened' /\ DurationsRead'
  BY <1>2, <1>3, OtherLine
<1>6. QED
  BY <1>3, <1>4, <1>5, Zenon DEF ICalInv, ICalType

LEMMA TzKeeps ==
  ASSUME ICalInv, ical_parsetz
  PROVE  ICalInv'
<1>1. PICK line \in Line("BEGIN") :
        /\ Take(line)
        /\ IF LastZone = None
           THEN status' = "error" /\ UNCHANGED <<comps, stack>>
           ELSE /\ comps' = [comps EXCEPT ![LastZone].tzs = Append(@, Tz(Val(line)))]
                /\ Push([comp |-> LastZone, tz |-> Len(comps[LastZone].tzs) + 1])
                /\ UNCHANGED status
  BY Zenon DEF ical_parsetz
<1>2. /\ text \in Seq(alphabet.lines) /\ alphabet' = alphabet /\ text' = Append(text, line)
      /\ line \in alphabet.lines /\ Name(line) = "BEGIN" /\ ICalType /\ CompsOK /\ StackOK
      /\ ASequence(comps)
  BY <1>1, Zenon DEF ical_parsetz, ICalInv, ICalType, Take, Line, CompsOK
<1>3. text' \in Seq(alphabet'.lines) /\ text' # <<>> /\ Last(text') = line
  BY <1>2, LineTaken
<1>4. Unopened' /\ DurationsRead'
  BY <1>2, <1>3, OtherLine
<1>5. CASE LastZone = None
  <2>1. comps' = comps /\ stack' = stack
    BY <1>1, <1>5, Zenon
  <2>2. CompsOK' /\ StackOK'
    BY <2>1, <1>2, Zenon DEF CompsOK, StackOK
  <2>3. QED
    BY <1>3, <1>4, <2>2, Zenon DEF ICalInv, ICalType
<1>6. CASE LastZone # None
  <2> DEFINE z == LastZone  tzs == Append(comps[z].tzs, Tz(Val(line)))
             c == [comps[z] EXCEPT !.tzs = tzs]
  <2>1. z \in 1 .. Len(comps)
    BY <1>2, <1>6, ZoneIs, Zenon
  <2>2. /\ Changes(comps', comps, z, c)
        /\ Push([comp |-> z, tz |-> Len(comps[z].tzs) + 1])
    BY <1>1, <1>6, Zenon DEF Changes
  <2>3. HasAttributes(comps[z])
    BY <2>1, <1>2, Zenon DEF CompsOK
  <2> HIDE DEF z, tzs
  <2>4. HasAttributes(c)
    BY <2>3 DEF HasAttributes
  <2> HIDE DEF c
  <2>5. CompsOK' /\ Len(comps') = Len(comps)
    BY <1>2, <2>1, <2>2, <2>4, CompChanged, Zenon
  <2>6. Len(comps) \in Nat
    BY <1>2, ASequenceIs DEF ASequence
  <2>7. z \in 1 .. Len(comps)' /\ Len(comps)' >= Len(comps) /\ Len(comps)' \in Nat
    BY <2>1, <2>5, <2>6
  <2>8. StackOK'
    BY <1>2, <2>2, <2>7, FramePushed
  <2>9. QED
    BY <1>3, <1>4, <2>5, <2>8, Zenon DEF ICalInv, ICalType
<1>7. QED
  BY <1>5, <1>6

LEMMA TopIs ==
  ASSUME StackOK, stack # <<>>
  PROVE  Top.comp \in 1 .. Len(comps)
<1>1. Len(stack) \in 1 .. Len(stack)
  <2>1. \A S : \A s \in Seq(S) : s # <<>> => Len(s) \in 1 .. Len(s)
    OBVIOUS
  <2>2. QED
    BY <2>1, Zenon DEF StackOK, ASequence
<1>2. QED
  BY <1>1, Zenon DEF StackOK, Top, Last

LEMMA IgnoreKeeps ==
  ASSUME ICalInv, Ignore
  PROVE  ICalInv'
<1>1. PICK line \in alphabet.lines : Ignored(line) /\ Take(line)
  BY Zenon DEF Ignore
<1>2. /\ text \in Seq(alphabet.lines) /\ alphabet' = alphabet /\ text' = Append(text, line)
      /\ comps' = comps /\ stack' = stack /\ stack # <<>>
  BY <1>1, Zenon DEF Ignore, ICalInv, ICalType, Take
<1>3. text' \in Seq(alphabet'.lines) /\ text' # <<>> /\ Last(text') = line
  BY <1>2, LineTaken
<1>4. CompsOK' /\ StackOK'
  BY <1>2, Zenon DEF ICalInv, ICalType, CompsOK, StackOK
<1>5. ASSUME Top.tz = None, Name(line) = "DURATION" PROVE FALSE
  <2>1. "DURATION" \in Attributes
    BY DEF Attributes
  <2>2. Ignored(line) => Name(line) \notin IF Top.tz = None THEN Attributes ELSE TzAttributes
    BY <1>5, Zenon DEF Ignored
  <2>3. QED
    BY <1>1, <1>5, <2>1, <2>2, Zenon
<1>6. Unopened' /\ DurationsRead'
  <2>1. Top' = Top
    BY <1>2, Zenon DEF Top
  <2>2. QED
    BY <1>3, <1>5, <2>1, Zenon DEF Unopened, DurationsRead
<1>7. QED
  BY <1>3, <1>4, <1>6, Zenon DEF ICalInv, ICalType

(* A DURATION with its sign after the P is stored.                         *)
LEMMA DurationStored ==
  ASSUME NEW line, Name(line) = "DURATION", NEW old,
         NEW mark \in Marks, NEW num \in Numbers, DurationText(mark, num) = Val(line)
  PROVE  CompValue(line, old) = DurationSaid(mark, num) /\ DurationSaid(mark, num) # Bad
<1> DEFINE r == ical_duration(Val(line))
<1>1. r.ok = TRUE /\ [sign |-> r.sign, num |-> r.num] = DurationSaid(mark, num)
  BY DurationRead
<1> HIDE DEF r
<1>2. /\ Name(line) \notin {"UID", "TZID"} /\ Name(line) \notin Stamps
      /\ Name(line) \notin {"DTSTART", "DTEND"} /\ Name(line) # "RRULE"
  BY DEF Stamps
<1>3. CompValue(line, old) =
        LET d1 == r IN IF d1.ok THEN [sign |-> d1.sign, num |-> d1.num] ELSE Bad
  BY <1>2 DEF CompValue, r
<1>4. QED
  BY <1>1, <1>3, BadAssumption, Zenon

(* One with its sign before the P fails.                                   *)
LEMMA SignedFirstRefused ==
  ASSUME NEW line, Name(line) = "DURATION", NEW old,
         NEW mark \in Marks, mark # "", NEW num \in Numbers,
         SignedFirst(mark, num) = Val(line)
  PROVE  CompValue(line, old) = Bad
<1> DEFINE r == ical_duration(Val(line))
<1>1. r.ok = FALSE
  BY SignedFirstFails
<1> HIDE DEF r
<1>2. /\ Name(line) \notin {"UID", "TZID"} /\ Name(line) \notin Stamps
      /\ Name(line) \notin {"DTSTART", "DTEND"} /\ Name(line) # "RRULE"
  BY DEF Stamps
<1>3. CompValue(line, old) =
        LET d1 == r IN IF d1.ok THEN [sign |-> d1.sign, num |-> d1.num] ELSE Bad
  BY <1>2 DEF CompValue, r
<1>4. QED
  BY <1>1, <1>3, Zenon

LEMMA AttributeKeeps ==
  ASSUME ICalInv, comp_attribute
  PROVE  ICalInv'
<1> DEFINE i == Top.comp
<1>1. PICK line \in alphabet.lines :
        /\ Name(line) \in Attributes
        /\ IF Name(line) = "DURATION" THEN TakeCut(line, ical_duration(Val(line)).nul)
                                     ELSE Take(line)
        /\ IF CompValue(line, comps[Top.comp].attr[Name(line)]) = Bad
           THEN status' = "error" /\ UNCHANGED comps
           ELSE /\ comps' = [comps EXCEPT ![Top.comp].attr[Name(line)] =
                               CompValue(line, comps[Top.comp].attr[Name(line)])]
                /\ UNCHANGED status
  BY Zenon DEF comp_attribute
<1> DEFINE a == Name(line)  v == CompValue(line, comps[i].attr[a])
           c == [comps[i] EXCEPT !.attr[a] = v]
<1>2. /\ text \in Seq(alphabet.lines) /\ alphabet' = alphabet /\ text' = Append(text, line)
      /\ ICalType /\ CompsOK /\ StackOK /\ stack' = stack /\ stack # <<>> /\ status = "reading"
  BY <1>1, Zenon DEF comp_attribute, ICalInv, ICalType, Take, TakeCut, InComp, Reading
<1>3. text' \in Seq(alphabet'.lines) /\ text' # <<>> /\ Last(text') = line
  BY <1>2, LineTaken
<1>4. i \in 1 .. Len(comps)
  BY <1>2, TopIs
<1>5. HasAttributes(comps[i]) /\ a \in Attributes
  BY <1>1, <1>2, <1>4, Zenon DEF CompsOK
<1>6. \/ v = Bad /\ comps' = comps
      \/ v # Bad /\ Changes(comps', comps, i, c) /\ status' = status
  BY <1>1, Zenon DEF Changes
<1>7. Top' = Top
  BY <1>2, Zenon DEF Top
<1>8. a = "DURATION" =>
        \A mark \in Marks, num \in Numbers :
           /\ DurationText(mark, num) = Val(line) =>
                 v = DurationSaid(mark, num) /\ v # Bad
           /\ mark # "" /\ SignedFirst(mark, num) = Val(line) => v = Bad
  BY DurationStored, SignedFirstRefused, Zenon
<1>9. HasAttributes(c) /\ c.attr[a] = v
  <2> HIDE DEF v, a, i
  <2>1. QED
    BY <1>5 DEF HasAttributes
<1>10. CASE v = Bad
  <2>1. CompsOK' /\ StackOK'
    BY <1>2, <1>6, <1>10, Zenon DEF CompsOK, StackOK
  <2>2. status' = "error"
    BY <1>6, <1>10, <1>1, Zenon
  <2>3. Unopened' /\ DurationsRead'
    BY <1>3, <1>8, <1>10, <2>2, Zenon DEF Unopened, DurationsRead
  <2>4. QED
    BY <1>3, <2>1, <2>3, Zenon DEF ICalInv, ICalType
<1>11. CASE v # Bad
  <2> HIDE DEF c, v
  <2>1. CompsOK' /\ Len(comps') = Len(comps) /\ comps'[i] = c
    <3>1. Changes(comps', comps, i, c) /\ HasAttributes(c)
      BY <1>6, <1>9, <1>11, Zenon
    <3> HIDE DEF i
    <3>2. QED
      BY <1>2, <1>4, <3>1, CompChanged
  <2>2. StackOK'
    BY <1>2, <2>1, StackKept
  <2>3. ASSUME a = "DURATION", NEW mark \in Marks, NEW num \in Numbers,
               DurationText(mark, num) = Val(line)
        PROVE  /\ status' # "error"
               /\ comps'[Top'.comp].attr["DURATION"] = DurationSaid(mark, num)
    <3>1. v = DurationSaid(mark, num) /\ v # Bad
      BY <2>3, <1>8, Zenon
    <3>2. status' # "error"
      BY <3>1, <1>2, <1>6
    <3>3. QED
      BY <2>1, <2>3, <1>7, <1>9, <3>1, <3>2, Zenon
  <2>4. ASSUME a = "DURATION", NEW mark \in Marks, NEW num \in Numbers, mark # "",
               SignedFirst(mark, num) = Val(line)
        PROVE  FALSE
    BY <2>4, <1>8, <1>11, Zenon
  <2>5. Unopened' /\ DurationsRead'
    BY <1>3, <2>3, <2>4, Zenon DEF Unopened, DurationsRead
  <2>6. QED
    BY <1>3, <2>1, <2>2, <2>5, Zenon DEF ICalInv, ICalType
<1>12. QED
  BY <1>10, <1>11

LEMMA TzAttributeKeeps ==
  ASSUME ICalInv, tz_attribute
  PROVE  ICalInv'
<1> DEFINE i == Top.comp
<1>1. PICK line \in alphabet.lines :
        /\ Name(line) \in TzAttributes
        /\ Take(line)
        /\ \/ UNCHANGED comps
           \/ comps' = [comps EXCEPT ![Top.comp].tzs[Top.tz].attr[Name(line)] =
                          TzValue(line, comps[Top.comp].tzs[Top.tz].attr[Name(line)])]
  BY Zenon DEF tz_attribute
<1> DEFINE v == TzValue(line, comps[i].tzs[Top.tz].attr[Name(line)])
           c == [comps[i] EXCEPT !.tzs[Top.tz].attr[Name(line)] = v]
<1>2. /\ text \in Seq(alphabet.lines) /\ alphabet' = alphabet /\ text' = Append(text, line)
      /\ ICalType /\ CompsOK /\ StackOK /\ stack' = stack /\ stack # <<>> /\ Top.tz # None
  BY <1>1, Zenon DEF tz_attribute, ICalInv, ICalType, Take, InTz
<1>3. text' \in Seq(alphabet'.lines) /\ text' # <<>> /\ Last(text') = line
  BY <1>2, LineTaken
<1>4. i \in 1 .. Len(comps)
  BY <1>2, TopIs
<1>5. HasAttributes(comps[i])
  BY <1>2, <1>4, Zenon DEF CompsOK
<1>6. comps' = comps \/ Changes(comps', comps, i, c)
  BY <1>1, Zenon DEF Changes
<1>7. HasAttributes(c)
  <2> HIDE DEF v, i
  <2>1. QED
    BY <1>5 DEF HasAttributes
<1>8. Unopened' /\ DurationsRead'
  <2>1. Top' = Top
    BY <1>2, Zenon DEF Top
  <2>2. QED
    BY <1>2, <1>3, <2>1, Zenon DEF Unopened, DurationsRead
<1> HIDE DEF c, i
<1>9. CompsOK' /\ Len(comps') = Len(comps)
  <2>1. CASE comps' = comps
    BY <1>2, <2>1, Zenon DEF CompsOK
  <2>2. CASE Changes(comps', comps, i, c)
    BY <1>2, <1>4, <1>7, <2>2, CompChanged
  <2>3. QED
    BY <1>6, <2>1, <2>2
<1>10. StackOK'
  BY <1>2, <1>9, StackKept
<1>11. QED
  BY <1>3, <1>8, <1>9, <1>10, Zenon DEF ICalInv, ICalType

LEMMA ReturnKeeps ==
  ASSUME ICalInv, Return
  PROVE  ICalInv'
<1>1. PICK line \in Line("END") : Take(line)
  BY Zenon DEF Return
<1>2. /\ text \in Seq(alphabet.lines) /\ alphabet' = alphabet /\ text' = Append(text, line)
      /\ line \in alphabet.lines /\ Name(line) = "END" /\ comps' = comps
      /\ stack # <<>> /\ stack' = Front(stack) /\ CompsOK /\ StackOK
  BY <1>1, Zenon DEF Return, ICalInv, ICalType, Take, Line
<1>3. text' \in Seq(alphabet'.lines) /\ text' # <<>> /\ Last(text') = line
  BY <1>2, LineTaken
<1>4. Unopened' /\ DurationsRead'
  BY <1>2, <1>3, OtherLine
<1>5. StackOK'
  <2> DEFINE S == {stack[k] : k \in DOMAIN stack}
  <2>1. stack \in Seq(S) /\ \A k \in 1 .. Len(stack) : stack[k].comp \in 1 .. Len(comps)
    BY <1>2, Zenon DEF StackOK, ASequence
  <2> HIDE DEF S
  <2>2. \A s \in Seq(S) : s # <<>> =>
          /\ SubSeq(s, 1, Len(s) - 1) \in Seq(S)
          /\ \A k \in 1 .. Len(SubSeq(s, 1, Len(s) - 1)) :
               k \in 1 .. Len(s) /\ SubSeq(s, 1, Len(s) - 1)[k] = s[k]
    OBVIOUS
  <2>3. /\ stack' \in Seq(S)
        /\ \A k \in 1 .. Len(stack') : k \in 1 .. Len(stack) /\ stack'[k] = stack[k]
    BY <1>2, <2>1, <2>2, Zenon DEF Front
  <2>4. ASequence(stack')
    BY <2>3, ASequenceIs
  <2>5. \A k \in 1 .. Len(stack') : stack'[k].comp \in 1 .. Len(comps')
    BY <1>2, <2>1, <2>3, Zenon
  <2>6. QED
    BY <2>4, <2>5, Zenon DEF StackOK
<1>6. CompsOK'
  BY <1>2, Zenon DEF CompsOK
<1>7. QED
  BY <1>3, <1>4, <1>5, <1>6, Zenon DEF ICalInv, ICalType

LEMMA EndKeeps ==
  ASSUME ICalInv, EndOfText
  PROVE  ICalInv'
<1>1. /\ text' = text /\ alphabet' = alphabet /\ comps' = comps /\ stack' = <<>>
      /\ text \in Seq(alphabet.lines) /\ CompsOK
  BY Zenon DEF EndOfText, ICalInv, ICalType
<1>2. StackOK'
  <2>1. ASequence(<<>>) /\ \A k \in 1 .. Len(<<>>) : FALSE
    <3>1. <<>> \in Seq({}) /\ Len(<<>>) = 0
      OBVIOUS
    <3>2. ASequence(<<>>)
      BY <3>1, ASequenceIs, Zenon
    <3>3. QED
      BY <3>1, <3>2
  <2>2. QED
    BY <1>1, <2>1, Zenon DEF StackOK
<1>3. CompsOK'
  BY <1>1, Zenon DEF CompsOK
<1>4. QED
  BY <1>1, <1>2, <1>3, Zenon DEF ICalInv, ICalType, Unopened, DurationsRead

LEMMA ICalStep ==
  ASSUME ICalInv, [ICalNext]_icalvars
  PROVE  ICalInv'
<1>1. CASE UNCHANGED icalvars
  BY <1>1, Zenon DEF icalvars, ICalInv, ICalType, CompsOK, StackOK, Unopened, DurationsRead, Top
<1>2. CASE ICalNext
  BY <1>2, FailsKeeps, ParseKeeps, CompKeeps, TzKeeps, IgnoreKeeps, AttributeKeeps,
     TzAttributeKeeps, ReturnKeeps, EndKeeps, Zenon DEF ICalNext
<1>3. QED
  BY <1>1, <1>2

(* The parser's components and the calls in progress fit each other, a     *)
(* call needs a line, and the last line, if it was a DURATION with its     *)
(* sign after or before the P, has been read as what it says or refused    *)
(* (ical_parsecomp, ical_duration).                                        *)
THEOREM ICalInvariant == ICalSpec => []ICalInv
<1>1. ICalInit => ICalInv
  <2>1. ASSUME ICalInit PROVE ICalInv
    <3>1. text = <<>> /\ comps = <<>> /\ stack = <<>>
      BY <2>1, Zenon DEF ICalInit
    <3>2. /\ \A S : <<>> \in Seq(S)
          /\ Len(<<>>) = 0 /\ \A k \in 1 .. Len(<<>>) : FALSE
      OBVIOUS
    <3>3. ASequence(<<>>)
      <4>1. <<>> \in Seq({})
        OBVIOUS
      <4>2. QED
        BY <4>1, ASequenceIs, Zenon
    <3>4. QED
      BY <3>1, <3>2, <3>3, Zenon
         DEF ICalInv, ICalType, CompsOK, StackOK, Unopened, DurationsRead
  <2>2. QED
    BY <2>1
<1>2. ICalInv /\ [ICalNext]_icalvars => ICalInv'
  BY ICalStep
<1>3. QED
  BY <1>1, <1>2, PTL DEF ICalSpec

(* A DURATION whose sign, if any, follows its P is read as what it says,   *)
(* its sign and its numbers, and one whose sign comes before the P (the    *)
(* form of RFC 2445 4.3.6) is refused, whatever the text around it         *)
(* (ical_duration).                                                        *)
THEOREM DurationsReadHolds == ICalSpec => []DurationsRead
<1>1. ICalInv => DurationsRead
  BY Zenon DEF ICalInv
<1>2. QED
  BY <1>1, ICalInvariant, PTL
-----------------------------------------------------------------------------
(* Texts put together: FlattenSeq of one more piece.                       *)

FlatStep(ss, f, i) == IF i = 1 THEN ss[i] ELSE f[i - 1] \o ss[i]
FlatEq(ss, f) == f = [i \in 1 .. Len(ss) |-> FlatStep(ss, f, i)]
FlatOf(ss) == CHOOSE f : FlatEq(ss, f)

LEMMA FlattenIs ==
  ASSUME NEW ss
  PROVE  FlattenSeq(ss) = IF Len(ss) = 0 THEN ss ELSE FlatOf(ss)[Len(ss)]
BY Zenon DEF FlattenSeq, FlatOf, FlatEq, FlatStep

LEMMA FlatExists ==
  ASSUME NEW T, NEW ss \in Seq(T)
  PROVE  FlatEq(ss, FlatOf(ss))
<1> DEFINE n == Len(ss)
           Upto(k) == \E f : /\ f = [i \in 1 .. n |-> f[i]]
                             /\ \A i \in 1 .. k : f[i] = FlatStep(ss, f, i)
           Missing == {k \in 0 .. n : ~ Upto(k)}
<1>1. n \in Nat
  BY Length
<1> HIDE DEF n
<1>2. Upto(0)
  <2> DEFINE f == [i \in 1 .. n |-> <<>>]
  <2>1. f = [i \in 1 .. n |-> f[i]]
    BY Zenon
  <2> HIDE DEF f
  <2>2. \A i \in 1 .. 0 : f[i] = FlatStep(ss, f, i)
    OBVIOUS
  <2>3. QED
    BY <2>1, <2>2
<1>3. ASSUME NEW k \in 0 .. n - 1, Upto(k) PROVE Upto(k + 1)
  <2>1. PICK f : /\ f = [i \in 1 .. n |-> f[i]]
                 /\ \A i \in 1 .. k : f[i] = FlatStep(ss, f, i)
    BY <1>3
  <2> DEFINE g == [i \in 1 .. n |-> IF i = k + 1 THEN FlatStep(ss, f, k + 1) ELSE f[i]]
  <2>2. k + 1 \in 1 .. n
    BY <1>1
  <2>3. g[k + 1] = FlatStep(ss, f, k + 1) /\ \A i \in 1 .. n : i # k + 1 => g[i] = f[i]
    BY <2>2, Zenon
  <2>4. g = [i \in 1 .. n |-> g[i]]
    BY Zenon
  <2> HIDE DEF g
  <2>5. ASSUME NEW i \in 1 .. k + 1 PROVE g[i] = FlatStep(ss, g, i)
    <3>1. i \in 1 .. n /\ (i # 1 => i - 1 \in 1 .. n /\ i - 1 # k + 1)
      BY <1>1, <2>2
    <3>2. i # 1 => g[i - 1] = f[i - 1]
      BY <2>3, <3>1, Zenon
    <3>3. FlatStep(ss, f, i) = FlatStep(ss, g, i)
      BY <3>2, Zenon DEF FlatStep
    <3>4. g[i] = FlatStep(ss, f, i)
      <4>1. CASE i = k + 1
        BY <4>1, <2>3
      <4>2. CASE i # k + 1
        <5>1. i \in 1 .. k
          BY <4>2
        <5>2. QED
          BY <5>1, <4>2, <3>1, <2>1, <2>3
      <4>3. QED
        BY <4>1, <4>2
    <3>5. QED
      BY <3>3, <3>4
  <2>6. QED
    BY <2>4, <2>5
<1> HIDE DEF Upto
<1>4. Missing = {}
  <2> SUFFICES ASSUME Missing # {} PROVE FALSE
    OBVIOUS
  <2>1. Missing \in SUBSET Nat
    BY <1>1
  <2>2. PICK k \in Missing : \A m \in Missing : k <= m
    BY <2>1, Least
  <2>3. k \in 0 .. n /\ ~ Upto(k)
    BY <2>2
  <2>4. k # 0
    BY <2>3, <1>2
  <2>5. k - 1 \in 0 .. n - 1 /\ k - 1 < k /\ (k - 1) + 1 = k
    BY <2>3, <2>4, <1>1
  <2>6. k - 1 \notin Missing
    BY <2>2, <2>5
  <2>7. Upto(k - 1)
    BY <2>5, <2>6, <1>1
  <2>8. Upto((k - 1) + 1)
    BY <2>5, <2>7, <1>3
  <2>9. QED
    BY <2>3, <2>5, <2>8
<1>5. Upto(n)
  BY <1>1, <1>4
<1>6. PICK f : /\ f = [i \in 1 .. n |-> f[i]]
               /\ \A i \in 1 .. n : f[i] = FlatStep(ss, f, i)
  BY <1>5 DEF Upto
<1>7. f = [i \in 1 .. n |-> FlatStep(ss, f, i)]
  BY <1>6, Zenon
<1>8. FlatEq(ss, f)
  BY <1>7, Zenon DEF FlatEq, n
<1>9. QED
  BY <1>8, Zenon DEF FlatOf

LEMMA FlatUnfolds ==
  ASSUME NEW T, NEW ss \in Seq(T), NEW i \in 1 .. Len(ss)
  PROVE  FlatOf(ss)[i] = IF i = 1 THEN ss[i] ELSE FlatOf(ss)[i - 1] \o ss[i]
<1>1. FlatOf(ss) = [k \in 1 .. Len(ss) |-> FlatStep(ss, FlatOf(ss), k)]
  BY FlatExists, Zenon DEF FlatEq
<1>2. FlatOf(ss)[i] = FlatStep(ss, FlatOf(ss), i)
  BY <1>1, Zenon
<1>3. QED
  BY <1>2, Zenon DEF FlatStep

(* The pieces before the last are put together as without it.              *)
LEMMA FlatAgrees ==
  ASSUME NEW T, NEW ss \in Seq(T), NEW tt \in Seq(T), Len(ss) <= Len(tt),
         \A i \in 1 .. Len(ss) : tt[i] = ss[i], NEW i \in 1 .. Len(ss)
  PROVE  FlatOf(tt)[i] = FlatOf(ss)[i]
<1> DEFINE n == Len(ss)  Wrong == {k \in 1 .. n : FlatOf(tt)[k] # FlatOf(ss)[k]}
<1>1. n \in Nat /\ Len(tt) \in Nat
  BY Length
<1>2. Wrong = {}
  <2> SUFFICES ASSUME Wrong # {} PROVE FALSE
    OBVIOUS
  <2>1. Wrong \in SUBSET Nat
    BY <1>1
  <2>2. PICK k \in Wrong : \A m \in Wrong : k <= m
    BY <2>1, Least
  <2>3. k \in 1 .. n /\ k \in 1 .. Len(tt) /\ FlatOf(tt)[k] # FlatOf(ss)[k]
    BY <2>2, <1>1
  <2>4. k # 1 => k - 1 \in 1 .. n /\ k - 1 < k
    BY <2>3, <1>1
  <2>5. k # 1 => k - 1 \notin Wrong
    BY <2>2, <2>4
  <2>6. k # 1 => FlatOf(tt)[k - 1] = FlatOf(ss)[k - 1]
    BY <2>4, <2>5
  <2>7. FlatOf(tt)[k] = IF k = 1 THEN tt[k] ELSE FlatOf(tt)[k - 1] \o tt[k]
    BY <2>3, FlatUnfolds
  <2>8. FlatOf(ss)[k] = IF k = 1 THEN ss[k] ELSE FlatOf(ss)[k - 1] \o ss[k]
    BY <2>3, FlatUnfolds
  <2>9. tt[k] = ss[k]
    BY <2>3
  <2>10. QED
    BY <2>3, <2>6, <2>7, <2>8, <2>9, Zenon
<1>3. QED
  BY <1>2

LEMMA FlatGrows ==
  ASSUME NEW S, NEW ss \in Seq(Seq(S)), NEW x \in Seq(S), NEW tt, Grows(tt, ss, x)
  PROVE  FlattenSeq(tt) = IF Len(ss) = 0 THEN x ELSE FlattenSeq(ss) \o x
<1>1. /\ tt \in Seq(Seq(S)) /\ Len(tt) = Len(ss) + 1 /\ Len(ss) \in Nat
      /\ tt[Len(ss) + 1] = x /\ \A i \in 1 .. Len(ss) : tt[i] = ss[i]
  <2>1. tt = Append(ss, x)
    BY Zenon DEF Grows
  <2>2. QED
    BY <2>1, AppendIs, Length
<1>2. FlattenSeq(tt) = FlatOf(tt)[Len(tt)]
  <2>1. Len(tt) # 0
    BY <1>1
  <2>2. QED
    BY <2>1, FlattenIs, Zenon
<1>3. FlatOf(tt)[Len(tt)] = IF Len(tt) = 1 THEN x ELSE FlatOf(tt)[Len(tt) - 1] \o x
  <2>1. Len(tt) \in 1 .. Len(tt) /\ tt[Len(tt)] = x
    BY <1>1
  <2>2. FlatOf(tt)[Len(tt)] =
          IF Len(tt) = 1 THEN tt[Len(tt)] ELSE FlatOf(tt)[Len(tt) - 1] \o tt[Len(tt)]
    BY <1>1, <2>1, FlatUnfolds
  <2>3. QED
    BY <2>1, <2>2, Zenon
<1>4. CASE Len(ss) = 0
  BY <1>1, <1>2, <1>3, <1>4
<1>5. CASE Len(ss) # 0
  <2>1. Len(tt) # 1 /\ Len(tt) - 1 = Len(ss) /\ Len(ss) \in 1 .. Len(ss) /\ Len(ss) <= Len(tt)
    BY <1>1, <1>5
  <2>2. FlatOf(tt)[Len(ss)] = FlatOf(ss)[Len(ss)]
    BY <1>1, <2>1, FlatAgrees
  <2>3. FlattenSeq(ss) = FlatOf(ss)[Len(ss)]
    BY <1>5, FlattenIs, Zenon
  <2>4. QED
    BY <1>2, <1>3, <1>5, <2>1, <2>2, <2>3, Zenon
<1>6. QED
  BY <1>4, <1>5

LEMMA FlatType ==
  ASSUME NEW S, NEW ss \in Seq(Seq(S))
  PROVE  FlattenSeq(ss) \in Seq(S)
<1> DEFINE n == Len(ss)  Wrong == {k \in 1 .. n : FlatOf(ss)[k] \notin Seq(S)}
<1>1. n \in Nat /\ \A k \in 1 .. n : ss[k] \in Seq(S)
  BY Length
<1>2. Wrong = {}
  <2> SUFFICES ASSUME Wrong # {} PROVE FALSE
    OBVIOUS
  <2>1. Wrong \in SUBSET Nat
    BY <1>1
  <2>2. PICK k \in Wrong : \A m \in Wrong : k <= m
    BY <2>1, Least
  <2>3. k \in 1 .. n /\ FlatOf(ss)[k] \notin Seq(S)
    BY <2>2
  <2>4. k # 1 => k - 1 \in 1 .. n /\ k - 1 < k
    BY <2>3, <1>1
  <2>5. k # 1 => k - 1 \notin Wrong
    BY <2>2, <2>4
  <2>6. k # 1 => FlatOf(ss)[k - 1] \in Seq(S)
    BY <2>4, <2>5
  <2>7. FlatOf(ss)[k] = IF k = 1 THEN ss[k] ELSE FlatOf(ss)[k - 1] \o ss[k]
    BY <2>3, FlatUnfolds
  <2>8. \A s, t \in Seq(S) : s \o t \in Seq(S)
    OBVIOUS
  <2>9. QED
    BY <1>1, <2>3, <2>6, <2>7, <2>8, Zenon
<1>3. CASE n = 0
  <2>1. ss = <<>> /\ <<>> \in Seq(S)
    BY <1>3
  <2>2. QED
    BY <1>3, <2>1, FlattenIs, Zenon
<1>4. CASE n # 0
  <2>1. n \in 1 .. n
    BY <1>1, <1>4
  <2>2. FlatOf(ss)[n] \in Seq(S)
    BY <1>2, <2>1
  <2>3. QED
    BY <1>4, <2>2, FlattenIs, Zenon
<1>5. QED
  BY <1>3, <1>4

LEMMA FlatEmpty ==
  ASSUME NEW S, NEW ss \in Seq(Seq(S)), \A i \in 1 .. Len(ss) : ss[i] = <<>>
  PROVE  FlattenSeq(ss) = <<>>
<1> DEFINE n == Len(ss)  Wrong == {k \in 1 .. n : FlatOf(ss)[k] # <<>>}
<1>1. n \in Nat
  BY Length
<1>2. Wrong = {}
  <2> SUFFICES ASSUME Wrong # {} PROVE FALSE
    OBVIOUS
  <2>1. Wrong \in SUBSET Nat
    BY <1>1
  <2>2. PICK k \in Wrong : \A m \in Wrong : k <= m
    BY <2>1, Least
  <2>3. k \in 1 .. n /\ FlatOf(ss)[k] # <<>> /\ ss[k] = <<>>
    BY <2>2
  <2>4. k # 1 => k - 1 \in 1 .. n /\ k - 1 < k
    BY <2>3, <1>1
  <2>5. k # 1 => k - 1 \notin Wrong
    BY <2>2, <2>4
  <2>6. k # 1 => FlatOf(ss)[k - 1] = <<>>
    BY <2>4, <2>5
  <2>7. FlatOf(ss)[k] = IF k = 1 THEN ss[k] ELSE FlatOf(ss)[k - 1] \o ss[k]
    BY <2>3, FlatUnfolds
  <2>8. <<>> \o <<>> = <<>>
    OBVIOUS
  <2>9. QED
    BY <2>3, <2>6, <2>7, <2>8, Zenon
<1>3. CASE n = 0
  <2>1. ss = <<>>
    BY <1>3
  <2>2. QED
    BY <1>3, <2>1, FlattenIs, Zenon
<1>4. CASE n # 0
  <2>1. n \in 1 .. n
    BY <1>1, <1>4
  <2>2. FlatOf(ss)[n] = <<>>
    BY <1>2, <2>1
  <2>3. QED
    BY <1>4, <2>2, FlattenIs, Zenon
<1>5. QED
  BY <1>3, <1>4
-----------------------------------------------------------------------------
(* CaldavParser.  A document that grows by an event.                       *)

Adds(d2, d, kind, x) == ASequence(d) /\ Grows(d2, d, <<kind, x>>)

LEMMA DocGrows ==
  ASSUME NEW d, NEW d2, NEW kind, NEW x, Adds(d2, d, kind, x)
  PROVE  /\ ASequence(d2) /\ Len(d2) = Len(d) + 1 /\ Len(d) \in Nat
         /\ d2[Len(d) + 1][1] = kind /\ d2[Len(d) + 1][2] = x
         /\ \A k \in 1 .. Len(d) : d2[k] = d[k]
         /\ DOMAIN d = 1 .. Len(d) /\ DOMAIN d2 = 1 .. Len(d) + 1
<1> DEFINE e == <<kind, x>>
<1>1. e[1] = kind /\ e[2] = x
  OBVIOUS
<1>2. ASequence(d) /\ Grows(d2, d, e)
  BY Zenon DEF Adds
<1> HIDE DEF e
<1>3. /\ ASequence(d2) /\ Len(d2) = Len(d) + 1 /\ Len(d) \in Nat
      /\ d2[Len(d) + 1] = e /\ \A i \in 1 .. Len(d) : d2[i] = d[i]
  BY <1>2, GrownSequence
<1>4. DOMAIN d = 1 .. Len(d) /\ DOMAIN d2 = 1 .. Len(d2)
  BY <1>2, <1>3, ASequenceIs, Zenon DEF ASequence
<1>5. QED
  BY <1>1, <1>3, <1>4, Zenon

LEMMA OpenedIs ==
  ASSUME NEW d, ASequence(d)
  PROVE  /\ Opened(d) = {k \in 1 .. Len(d) : d[k][1] = "open"}
         /\ Opened(d) \subseteq 1 .. Len(d) /\ Len(d) \in Nat /\ Opened(d) \subseteq Nat
<1>1. DOMAIN d = 1 .. Len(d) /\ Len(d) \in Nat
  <2>1. DOMAIN d = 1 .. Len(d)
    BY ASequenceIs, Zenon DEF ASequence
  <2>2. QED
    BY <2>1, Length DEF ASequence
<1>2. Opened(d) = {k \in 1 .. Len(d) : d[k][1] = "open"}
  BY <1>1, Zenon DEF Opened
<1>3. QED
  BY <1>1, <1>2

LEMMA OpenedGrows ==
  ASSUME NEW d, NEW d2, NEW kind, NEW x, Adds(d2, d, kind, x)
  PROVE  Opened(d2) = Opened(d) \cup (IF kind = "open" THEN {Len(d) + 1} ELSE {})
<1>1. /\ Len(d2) = Len(d) + 1 /\ Len(d) \in Nat /\ d2[Len(d) + 1][1] = kind
      /\ \A k \in 1 .. Len(d) : d2[k] = d[k]
      /\ DOMAIN d = 1 .. Len(d) /\ DOMAIN d2 = 1 .. Len(d) + 1
  BY DocGrows
<1>2. 1 .. Len(d) + 1 = (1 .. Len(d)) \cup {Len(d) + 1}
  BY <1>1
<1>3. \A k \in 1 .. Len(d) : d2[k][1] = "open" <=> d[k][1] = "open"
  BY <1>1
<1>4. QED
  BY <1>1, <1>2, <1>3 DEF Opened

LEMMA CountGrows ==
  ASSUME NEW d, NEW d2, NEW kind, NEW x, Adds(d2, d, kind, x), NEW of
  PROVE  /\ \A k \in 0 .. Len(d) : Count(d, of, k) \in Nat /\ Count(d2, of, k) = Count(d, of, k)
         /\ Count(d2, of, Len(d) + 1) = Count(d, of, Len(d)) + (IF kind = of THEN 1 ELSE 0)
<1> DEFINE n == Len(d)
           C(k) == {i \in 1 .. k : d[i][1] = of}
           C2(k) == {i \in 1 .. k : d2[i][1] = of}
<1>1. /\ n \in Nat /\ d2[n + 1][1] = kind /\ \A k \in 1 .. n : d2[k] = d[k]
  BY DocGrows
<1> HIDE DEF n
<1>2. \A k \in 0 .. n : IsFiniteSet(C(k)) /\ Cardinality(C(k)) \in Nat
  <2> TAKE k \in 0 .. n
  <2>1. IsFiniteSet(1 .. k)
    BY FS_Interval
  <2>2. C(k) \subseteq 1 .. k
    OBVIOUS
  <2> HIDE DEF C
  <2>3. QED
    BY <2>1, <2>2, FS_Subset, FS_CardinalityType, Zenon
<1>3. \A k \in 0 .. n : C2(k) = C(k)
  BY <1>1
<1>4. C2(n + 1) = C(n) \cup (IF kind = of THEN {n + 1} ELSE {})
  <2>1. 1 .. n + 1 = (1 .. n) \cup {n + 1}
    BY <1>1
  <2>2. QED
    BY <1>1, <2>1
<1>5. Cardinality(C2(n + 1)) = Cardinality(C(n)) + (IF kind = of THEN 1 ELSE 0)
  <2>1. n \in 0 .. n /\ n + 1 \notin C(n)
    BY <1>1
  <2>2. IsFiniteSet(C(n)) /\ Cardinality(C(n)) \in Nat
    BY <1>2, <2>1
  <2> HIDE DEF C, C2
  <2>3. CASE kind = of
    <3>1. C2(n + 1) = C(n) \cup {n + 1}
      BY <1>4, <2>3
    <3>2. Cardinality(C(n) \cup {n + 1}) = Cardinality(C(n)) + 1
      BY <2>1, <2>2, FS_AddElement
    <3>3. QED
      BY <2>3, <3>1, <3>2
  <2>4. CASE kind # of
    <3>1. C2(n + 1) = C(n)
      BY <1>4, <2>4
    <3>2. QED
      BY <2>2, <2>4, <3>1
  <2>5. QED
    BY <2>3, <2>4
<1>6. \A k : Count(d, of, k) = Cardinality(C(k)) /\ Count(d2, of, k) = Cardinality(C2(k))
  BY Zenon DEF Count
<1> HIDE DEF C, C2
<1>7. QED
  BY <1>2, <1>3, <1>5, <1>6, Zenon DEF n

LEMMA DepthGrows ==
  ASSUME NEW d, NEW d2, NEW kind, NEW x, Adds(d2, d, kind, x)
  PROVE  /\ \A k \in 0 .. Len(d) : Depth(d, k) \in Int /\ Depth(d2, k) = Depth(d, k)
         /\ Depth(d2, Len(d) + 1) = Depth(d, Len(d)) +
              (IF kind = "open" THEN 1 ELSE IF kind = "close" THEN -1 ELSE 0)
<1>1. /\ \A k \in 0 .. Len(d) : Count(d, "open", k) \in Nat
                                /\ Count(d2, "open", k) = Count(d, "open", k)
      /\ Count(d2, "open", Len(d) + 1) =
           Count(d, "open", Len(d)) + (IF kind = "open" THEN 1 ELSE 0)
  BY CountGrows
<1>2. /\ \A k \in 0 .. Len(d) : Count(d, "close", k) \in Nat
                                /\ Count(d2, "close", k) = Count(d, "close", k)
      /\ Count(d2, "close", Len(d) + 1) =
           Count(d, "close", Len(d)) + (IF kind = "close" THEN 1 ELSE 0)
  BY CountGrows
<1>3. Len(d) \in 0 .. Len(d)
  BY DocGrows
<1>4. /\ \A m, n \in Nat : m - n \in Int
      /\ \A m, n \in Nat : (m + 1) - n = (m - n) + 1 /\ m - (n + 1) = (m - n) + -1
      /\ \A m, n \in Nat : (m + 0) - (n + 0) = (m - n) + 0
      /\ \A m \in Nat : m + 0 = m
  OBVIOUS
<1>5. \A k \in 0 .. Len(d) : Depth(d, k) \in Int /\ Depth(d2, k) = Depth(d, k)
  BY <1>1, <1>2, <1>4, Zenon DEF Depth
<1>6. Depth(d2, Len(d) + 1) = Depth(d, Len(d)) +
              (IF kind = "open" THEN 1 ELSE IF kind = "close" THEN -1 ELSE 0)
  <2> DEFINE o == Count(d, "open", Len(d))  c == Count(d, "close", Len(d))
             o2 == Count(d2, "open", Len(d) + 1)  c2 == Count(d2, "close", Len(d) + 1)
  <2>1. /\ o \in Nat /\ o2 = o + (IF kind = "open" THEN 1 ELSE 0)
        /\ c \in Nat /\ c2 = c + (IF kind = "close" THEN 1 ELSE 0)
    BY <1>1, <1>2, <1>3, Zenon
  <2>2. Depth(d, Len(d)) = o - c /\ Depth(d2, Len(d) + 1) = o2 - c2
    BY Zenon DEF Depth
  <2> HIDE DEF o, c, o2, c2
  <2>3. o2 - c2 = (o - c) + (IF kind = "open" THEN 1 ELSE IF kind = "close" THEN -1 ELSE 0)
    BY <2>1
  <2>4. QED
    BY <2>2, <2>3, Zenon
<1>7. QED
  BY <1>5, <1>6

(* What a document said before stays.                                      *)
LEMMA WithinStable ==
  ASSUME NEW d, NEW d2, NEW kind, NEW x, Adds(d2, d, kind, x), NEW k \in 1 .. Len(d)
  PROVE  Within(d2, k) = Within(d, k)
<1> DEFINE S == {b \in Opened(d) : b < k /\ Depth(d, b) = Depth(d, k - 1)}
           S2 == {b \in Opened(d2) : b < k /\ Depth(d2, b) = Depth(d2, k - 1)}
<1>1. Len(d) \in Nat /\ Opened(d) \subseteq 1 .. Len(d)
  BY OpenedIs DEF Adds
<1>2. \A b \in Nat : b < k => (b \in Opened(d2) <=> b \in Opened(d))
  BY <1>1, OpenedGrows
<1>3. Opened(d2) \subseteq Nat
  BY <1>1, OpenedGrows
<1>4. \A b \in 0 .. Len(d) : Depth(d2, b) = Depth(d, b)
  BY DepthGrows
<1>5. k - 1 \in 0 .. Len(d) /\ \A b \in Nat : b < k => b \in 0 .. Len(d)
  BY <1>1
<1>6. S = S2
  BY <1>1, <1>2, <1>3, <1>4, <1>5
<1>7. QED
  BY <1>6, Zenon DEF Within

(* b opened the i-th of the elements that are open.                        *)
OpenerIs(d, op, i, b) ==
    /\ b \in Opened(d) /\ d[b][2] = op[i] /\ Depth(d, b) = i
    /\ \A c \in Opened(d) : c > b => Depth(d, c) > i
Nested(d, op) ==
    /\ ASequence(d) /\ ASequence(op)
    /\ Depth(d, Len(d)) = Len(op)
    /\ \A i \in 1 .. Len(op) : \E b : OpenerIs(d, op, i, b)
    /\ \A i \in 2 .. Len(op) : \A a, b :
         OpenerIs(d, op, i - 1, a) /\ OpenerIs(d, op, i, b) => Within(d, b) = a
    /\ \A k \in 2 .. Len(d) : d[k][1] \in {"open", "text"} =>
         Within(d, k) \in Opened(d) /\ Within(d, k) < k
    /\ op # <<>> => OpenerIs(d, op, 1, 1)

LEMMA OneOpener ==
  ASSUME NEW d, ASequence(d), NEW op, NEW i \in Nat,
         NEW a, OpenerIs(d, op, i, a), NEW b, OpenerIs(d, op, i, b)
  PROVE  a = b
<1>1. a \in Nat /\ b \in Nat /\ a \in Opened(d) /\ b \in Opened(d)
  BY OpenedIs DEF OpenerIs
<1>2. Depth(d, a) = i /\ Depth(d, b) = i
  BY Zenon DEF OpenerIs
<1>3. ~ (i > i)
  OBVIOUS
<1>4. ~ (a > b) /\ ~ (b > a)
  BY <1>1, <1>2, <1>3, Zenon DEF OpenerIs
<1>5. QED
  BY <1>1, <1>4

LEMMA NestedLen ==
  ASSUME NEW d, NEW op, Nested(d, op)
  PROVE  /\ Len(d) \in Nat /\ Len(op) \in Nat /\ DOMAIN op = 1 .. Len(op)
         /\ (op = <<>> <=> Len(op) = 0) /\ (d = <<>> => op = <<>>)
<1>1. ASequence(d) /\ ASequence(op)
  BY Zenon DEF Nested
<1>2. \A S : \A s \in Seq(S) : Len(s) \in Nat /\ (s = <<>> <=> Len(s) = 0)
  OBVIOUS
<1>3. /\ Len(d) \in Nat /\ Len(op) \in Nat
      /\ (op = <<>> <=> Len(op) = 0) /\ (d = <<>> => Len(d) = 0)
  BY <1>1, <1>2, Zenon DEF ASequence
<1>4. DOMAIN op = 1 .. Len(op)
  BY <1>1, ASequenceIs, Zenon DEF ASequence
<1>5. ASSUME d = <<>>, op # <<>> PROVE FALSE
  <2>1. 1 \in Opened(d) /\ Opened(d) \subseteq 1 .. Len(d)
    BY <1>1, <1>5, OpenedIs DEF Nested, OpenerIs
  <2>2. QED
    BY <1>3, <1>5, <2>1
<1>6. QED
  BY <1>3, <1>4, <1>5, Zenon

(* An event belongs to the innermost element that is open.                 *)
LEMMA WithinNext ==
  ASSUME NEW d, NEW op, Nested(d, op), NEW d2, NEW kind, NEW x, Adds(d2, d, kind, x),
         NEW b, OpenerIs(d, op, Len(op), b)
  PROVE  Within(d2, Len(d) + 1) = b
<1> DEFINE n == Len(d)
           S == {c \in Opened(d2) : c < n + 1 /\ Depth(d2, c) = Depth(d2, (n + 1) - 1)}
<1>1. n \in Nat /\ Opened(d) \subseteq 1 .. n /\ ASequence(d)
  BY OpenedIs DEF Nested
<1>2. Len(op) \in Nat
  BY NestedLen
<1>3. /\ b \in Opened(d) /\ Depth(d, b) = Len(op)
      /\ \A c \in Opened(d) : c > b => Depth(d, c) > Len(op)
  BY Zenon DEF OpenerIs
<1>4. Depth(d, n) = Len(op)
  BY Zenon DEF Nested
<1>5. \A c \in 0 .. n : Depth(d2, c) = Depth(d, c)
  BY DepthGrows
<1>6. Opened(d2) \subseteq Opened(d) \cup {n + 1} /\ Opened(d) \subseteq Opened(d2)
  BY OpenedGrows
<1>7. (n + 1) - 1 = n /\ n \in 0 .. n /\ \A c \in Opened(d) : c \in 0 .. n /\ c < n + 1
  BY <1>1
<1>8. b \in S
  BY <1>3, <1>4, <1>5, <1>6, <1>7
<1>9. \A c \in S : c \in Opened(d) /\ Depth(d, c) = Len(op)
  BY <1>1, <1>4, <1>5, <1>6, <1>7
<1>10. \A c \in S : c <= b
  BY <1>1, <1>2, <1>3, <1>9
<1>11. Within(d2, n + 1) = CHOOSE c \in S : \A m \in S : m <= c
  BY Zenon DEF Within
<1>12. S \subseteq Nat
  BY <1>1, <1>9
<1> HIDE DEF S, n
<1>13. PICK c \in S : c = Within(d2, n + 1) /\ \A m \in S : m <= c
  BY <1>8, <1>10, <1>11, Zenon
<1>14. c <= b /\ b <= c /\ b \in Nat /\ c \in Nat
  BY <1>8, <1>10, <1>12, <1>13
<1>15. QED
  BY <1>13, <1>14 DEF n

LEMMA OpenerStays ==
  ASSUME NEW d, NEW op, Nested(d, op), NEW d2, NEW kind, NEW x, Adds(d2, d, kind, x),
         NEW op2, NEW i \in 1 .. Len(op), op2[i] = op[i], NEW b
  PROVE  /\ OpenerIs(d, op, i, b) => OpenerIs(d2, op2, i, b)
         /\ OpenerIs(d2, op2, i, b) /\ b # Len(d) + 1 => OpenerIs(d, op, i, b)
<1> DEFINE n == Len(d)
<1>1. n \in Nat /\ Opened(d) \subseteq 1 .. n /\ ASequence(d)
  BY OpenedIs DEF Nested
<1>2. Len(op) \in Nat /\ Depth(d, n) = Len(op)
  BY NestedLen DEF Nested
<1>3. \A c \in 0 .. n : Depth(d2, c) = Depth(d, c)
  BY DepthGrows
<1>4. Opened(d2) = Opened(d) \cup (IF kind = "open" THEN {n + 1} ELSE {})
  BY OpenedGrows
<1>5. \A c \in Opened(d) : c \in 0 .. n /\ d2[c] = d[c]
  BY <1>1, DocGrows
<1>6. kind = "open" => Depth(d2, n + 1) > i
  BY <1>1, <1>2, DepthGrows
<1> HIDE DEF n
<1>7. ASSUME OpenerIs(d, op, i, b) PROVE OpenerIs(d2, op2, i, b)
  <2>1. /\ b \in Opened(d) /\ d[b][2] = op[i] /\ Depth(d, b) = i
        /\ \A c \in Opened(d) : c > b => Depth(d, c) > i
    BY <1>7, Zenon DEF OpenerIs
  <2>2. b \in Opened(d2) /\ d2[b][2] = op2[i] /\ Depth(d2, b) = i
    BY <2>1, <1>3, <1>4, <1>5, Zenon
  <2>3. \A c \in Opened(d2) : c > b => Depth(d2, c) > i
    BY <2>1, <1>3, <1>4, <1>5, <1>6
  <2>4. QED
    BY <2>2, <2>3, Zenon DEF OpenerIs
<1>8. ASSUME OpenerIs(d2, op2, i, b), b # n + 1 PROVE OpenerIs(d, op, i, b)
  <2>1. /\ b \in Opened(d2) /\ d2[b][2] = op2[i] /\ Depth(d2, b) = i
        /\ \A c \in Opened(d2) : c > b => Depth(d2, c) > i
    BY <1>8, Zenon DEF OpenerIs
  <2>2. b \in Opened(d)
    BY <2>1, <1>4, <1>8
  <2>3. d[b][2] = op[i] /\ Depth(d, b) = i
    BY <2>1, <2>2, <1>3, <1>5, Zenon
  <2>4. \A c \in Opened(d) : c > b => Depth(d, c) > i
    BY <2>1, <1>3, <1>4, <1>5
  <2>5. QED
    BY <2>2, <2>3, <2>4, Zenon DEF OpenerIs
<1>9. QED
  BY <1>7, <1>8, Zenon DEF n

LEMMA EmptyIs ==
  ASSUME NEW s, ASequence(s)
  PROVE  s = <<>> <=> Len(s) = 0
<1>1. \A S : \A t \in Seq(S) : t = <<>> <=> Len(t) = 0
  OBVIOUS
<1>2. QED
  BY <1>1, Zenon DEF ASequence

(* The event before which elements are open is within the innermost.       *)
LEMMA EventWithin ==
  ASSUME NEW d, NEW op, Nested(d, op), op = <<>> => d = <<>>,
         NEW d2, NEW kind, NEW x, Adds(d2, d, kind, x), NEW k \in 2 .. Len(d) + 1,
         d2[k][1] \in {"open", "text"}
  PROVE  Within(d2, k) \in Opened(d2) /\ Within(d2, k) < k
<1> DEFINE n == Len(d)
<1>1. n \in Nat /\ Opened(d) \subseteq 1 .. n /\ ASequence(d)
  BY OpenedIs DEF Nested
<1>2. Opened(d) \subseteq Opened(d2)
  BY OpenedGrows
<1>3. CASE k \in 2 .. n
  <2>1. d2[k] = d[k] /\ k \in 1 .. n
    BY <1>1, <1>3, DocGrows
  <2>2. Within(d2, k) = Within(d, k)
    BY <2>1, WithinStable
  <2>3. Within(d, k) \in Opened(d) /\ Within(d, k) < k
    BY <1>3, <2>1, Zenon DEF Nested
  <2>4. QED
    BY <1>2, <2>2, <2>3
<1>4. CASE k = n + 1
  <2>1. Len(op) \in 1 .. Len(op)
    <3>1. d # <<>>
      <4>1. Len(d) # 0
        BY <1>1, <1>4
      <4>2. QED
        BY <4>1
    <3>2. Len(op) # 0 /\ Len(op) \in Nat
      BY <3>1, NestedLen
    <3>3. QED
      BY <3>2
  <2>2. PICK b : OpenerIs(d, op, Len(op), b)
    BY <2>1, Zenon DEF Nested
  <2>3. Within(d2, n + 1) = b
    BY <2>2, WithinNext
  <2>4. b \in Opened(d)
    BY <2>2, Zenon DEF OpenerIs
  <2>5. QED
    BY <1>1, <1>2, <1>4, <2>3, <2>4
<1>5. QED
  BY <1>1, <1>3, <1>4

LEMMA NestedOpens ==
  ASSUME NEW d, NEW op, Nested(d, op), op = <<>> => d = <<>>,
         NEW d2, NEW x, Adds(d2, d, "open", x), NEW op2, Grows(op2, op, x)
  PROVE  /\ Nested(d2, op2) /\ OpenerIs(d2, op2, Len(op2), Len(d) + 1)
         /\ Len(op2) = Len(op) + 1 /\ op2[Len(op) + 1] = x
         /\ \A i \in 1 .. Len(op) : op2[i] = op[i]
<1> DEFINE n == Len(d)  m == Len(op)
<1>1. n \in Nat /\ Opened(d) \subseteq 1 .. n /\ ASequence(d) /\ ASequence(op)
  BY OpenedIs DEF Nested
<1>2. m \in Nat /\ Depth(d, n) = m
  BY NestedLen DEF Nested
<1>3. /\ ASequence(op2) /\ Len(op2) = m + 1 /\ op2[m + 1] = x
      /\ \A i \in 1 .. m : op2[i] = op[i]
  BY <1>1, GrownSequence
<1>4. ASequence(d2) /\ Len(d2) = n + 1 /\ d2[n + 1][2] = x
  BY DocGrows
<1>5. Depth(d2, n + 1) = m + 1
  BY <1>2, DepthGrows
<1>6. Opened(d2) = Opened(d) \cup {n + 1}
  BY OpenedGrows
<1>7. OpenerIs(d2, op2, m + 1, n + 1)
  <2>1. \A c \in Opened(d2) : ~ (c > n + 1)
    BY <1>1, <1>6
  <2>2. n + 1 \in Opened(d2)
    BY <1>6
  <2>3. QED
    BY <1>3, <1>4, <1>5, <2>1, <2>2, Zenon DEF OpenerIs
<1>8. \A i \in 1 .. m : \A b :
        (OpenerIs(d, op, i, b) => OpenerIs(d2, op2, i, b))
        /\ (OpenerIs(d2, op2, i, b) /\ b # n + 1 => OpenerIs(d, op, i, b))
  BY <1>3, OpenerStays
<1>9. \A i \in 1 .. Len(op2) : \E b : OpenerIs(d2, op2, i, b)
  <2> TAKE i \in 1 .. Len(op2)
  <2>1. CASE i = m + 1
    BY <1>7, <2>1
  <2>2. CASE i # m + 1
    <3>1. i \in 1 .. m
      BY <1>2, <1>3, <2>2
    <3>2. PICK b : OpenerIs(d, op, i, b)
      BY <3>1, Zenon DEF Nested
    <3>3. QED
      BY <1>8, <3>1, <3>2, Zenon
  <2>3. QED
    BY <2>1, <2>2
<1>10. ASSUME NEW i \in 2 .. Len(op2), NEW a, NEW b,
              OpenerIs(d2, op2, i - 1, a), OpenerIs(d2, op2, i, b)
       PROVE  Within(d2, b) = a
  <2>1. Depth(d2, a) = i - 1 /\ Depth(d2, b) = i
    BY <1>10, Zenon DEF OpenerIs
  <2>2. i - 1 \in 1 .. m /\ a # n + 1
    BY <1>2, <1>3, <1>5, <2>1
  <2>3. OpenerIs(d, op, i - 1, a)
    BY <1>8, <1>10, <2>2, Zenon
  <2>4. CASE i = m + 1
    <3>1. b = n + 1
      BY <1>2, <1>4, <1>7, <1>10, <2>4, OneOpener
    <3>2. OpenerIs(d, op, Len(op), a)
      <4>1. i - 1 = Len(op)
        BY <1>2, <2>4
      <4>2. QED
        BY <2>3, <4>1, Zenon
    <3>3. Within(d2, n + 1) = a
      BY <3>2, WithinNext
    <3>4. QED
      BY <3>1, <3>3
  <2>5. CASE i # m + 1
    <3>1. i \in 2 .. m /\ i \in 1 .. m /\ b # n + 1
      BY <1>2, <1>3, <1>5, <2>1, <2>5
    <3>2. OpenerIs(d, op, i, b)
      BY <1>8, <1>10, <3>1, Zenon
    <3>3. Within(d, b) = a
      BY <2>3, <3>1, <3>2, Zenon DEF Nested
    <3>4. b \in 1 .. n
      BY <1>1, <3>2, Zenon DEF OpenerIs
    <3>5. QED
      BY <3>3, <3>4, WithinStable
  <2>6. QED
    BY <2>4, <2>5
<1>11. \A k \in 2 .. Len(d2) : d2[k][1] \in {"open", "text"} =>
         Within(d2, k) \in Opened(d2) /\ Within(d2, k) < k
  BY <1>4, EventWithin
<1>12. OpenerIs(d2, op2, 1, 1)
  <2>1. CASE op = <<>>
    <3>1. m + 1 = 1 /\ n + 1 = 1
      BY <2>1
    <3>2. QED
      BY <1>7, <3>1, Zenon
  <2>2. CASE op # <<>>
    <3>1. 1 \in 1 .. m
      BY <2>2, <1>2, NestedLen
    <3>2. OpenerIs(d, op, 1, 1)
      BY <2>2, Zenon DEF Nested
    <3>3. QED
      BY <1>8, <3>1, <3>2, Zenon
  <2>3. QED
    BY <2>1, <2>2
<1>13. Nested(d2, op2)
  BY <1>3, <1>4, <1>5, <1>9, <1>10, <1>11, <1>12, Zenon DEF Nested
<1>14. QED
  BY <1>3, <1>7, <1>13, Zenon

(* Any other event, after which the elements op2 are open.                 *)
LEMMA NestedKept ==
  ASSUME NEW d, NEW op, Nested(d, op), op = <<>> => d = <<>>,
         NEW d2, NEW kind, kind # "open", NEW x, Adds(d2, d, kind, x),
         NEW op2, ASequence(op2), Len(op2) <= Len(op), Len(op2) \in Nat,
         Depth(d2, Len(d) + 1) = Len(op2), \A i \in 1 .. Len(op2) : op2[i] = op[i]
  PROVE  /\ Nested(d2, op2)
         /\ \A i \in 1 .. Len(op2) : \A b : OpenerIs(d, op, i, b) <=> OpenerIs(d2, op2, i, b)
<1> DEFINE n == Len(d)  m == Len(op)  l == Len(op2)
<1>1. n \in Nat /\ Opened(d) \subseteq 1 .. n /\ ASequence(d)
  BY OpenedIs DEF Nested
<1>2. m \in Nat /\ l \in Nat /\ l <= m
  BY NestedLen
<1>3. ASequence(d2) /\ Len(d2) = n + 1
  BY DocGrows
<1>4. Opened(d2) = Opened(d)
  BY OpenedGrows
<1>5. \A i \in 1 .. l : \A b : OpenerIs(d, op, i, b) <=> OpenerIs(d2, op2, i, b)
  <2> TAKE i \in 1 .. l
  <2> TAKE b
  <2>1. i \in 1 .. m /\ op2[i] = op[i]
    BY <1>2
  <2>2. OpenerIs(d2, op2, i, b) => b # n + 1
    BY <1>1, <1>4 DEF OpenerIs
  <2>3. QED
    BY <2>1, <2>2, OpenerStays
<1>6. \A i \in 1 .. l : \E b : OpenerIs(d2, op2, i, b)
  <2> TAKE i \in 1 .. l
  <2>1. i \in 1 .. m
    BY <1>2
  <2>2. PICK b : OpenerIs(d, op, i, b)
    BY <2>1, Zenon DEF Nested
  <2>3. QED
    BY <1>5, <2>2, Zenon
<1>7. ASSUME NEW i \in 2 .. l, NEW a, NEW b,
             OpenerIs(d2, op2, i - 1, a), OpenerIs(d2, op2, i, b)
      PROVE  Within(d2, b) = a
  <2>1. i - 1 \in 1 .. l /\ i \in 1 .. l /\ i \in 2 .. m
    BY <1>2
  <2>2. OpenerIs(d, op, i - 1, a) /\ OpenerIs(d, op, i, b)
    BY <1>5, <1>7, <2>1, Zenon
  <2>3. Within(d, b) = a
    BY <2>1, <2>2, Zenon DEF Nested
  <2>4. b \in 1 .. n
    BY <1>1, <2>2, Zenon DEF OpenerIs
  <2>5. QED
    BY <2>3, <2>4, WithinStable
<1>8. \A k \in 2 .. Len(d2) : d2[k][1] \in {"open", "text"} =>
        Within(d2, k) \in Opened(d2) /\ Within(d2, k) < k
  BY <1>3, EventWithin
<1>9. op2 # <<>> => OpenerIs(d2, op2, 1, 1)
  <2> SUFFICES ASSUME op2 # <<>> PROVE OpenerIs(d2, op2, 1, 1)
    OBVIOUS
  <2>1. l # 0
    BY EmptyIs
  <2>2. 1 \in 1 .. l /\ op # <<>>
    BY <1>2, <2>1, NestedLen
  <2>3. OpenerIs(d, op, 1, 1)
    BY <2>2, Zenon DEF Nested
  <2>4. QED
    BY <1>5, <2>2, <2>3, Zenon
<1>10. QED
  BY <1>3, <1>5, <1>6, <1>7, <1>8, <1>9, Zenon DEF Nested

(* The text of an element grows by a text within it.                       *)
Texts(d) == \A k \in 1 .. Len(d) : d[k][1] = "text" => d[k][2] \in Seq(STRING)
Pieces(d, b) == [k \in DOMAIN d |-> IF TextIn(d, b, k) THEN d[k][2] ELSE <<>>]

LEMMA PiecesAre ==
  ASSUME NEW d, ASequence(d), Texts(d), NEW b
  PROVE  /\ Pieces(d, b) \in Seq(Seq(STRING)) /\ Len(Pieces(d, b)) = Len(d)
         /\ \A k \in 1 .. Len(d) :
              Pieces(d, b)[k] = IF TextIn(d, b, k) THEN d[k][2] ELSE <<>>
         /\ OwnText(d, b) = FlattenSeq(Pieces(d, b)) /\ OwnText(d, b) \in Seq(STRING)
<1> DEFINE p == Pieces(d, b)  n == Len(d)
<1>1. DOMAIN d = 1 .. n /\ n \in Nat
  BY ASequenceIs, Length DEF ASequence
<1>2. p = [k \in 1 .. n |-> IF TextIn(d, b, k) THEN d[k][2] ELSE <<>>]
  BY <1>1, Zenon DEF Pieces
<1>3. \A k \in 1 .. n : (IF TextIn(d, b, k) THEN d[k][2] ELSE <<>>) \in Seq(STRING)
  <2>1. <<>> \in Seq(STRING)
    OBVIOUS
  <2>2. QED
    BY <2>1, Zenon DEF TextIn, Texts
<1> HIDE DEF p
<1>4. p \in [1 .. n -> Seq(STRING)]
  BY <1>2, <1>3, Zenon
<1>5. \A T : \A l \in Nat : \A f \in [1 .. l -> T] : f \in Seq(T) /\ Len(f) = l
  OBVIOUS
<1>6. p \in Seq(Seq(STRING)) /\ Len(p) = n
  BY <1>1, <1>4, <1>5, Zenon
<1>7. OwnText(d, b) = FlattenSeq(p)
  BY Zenon DEF OwnText, Pieces, p
<1>8. FlattenSeq(p) \in Seq(STRING)
  BY <1>6, FlatType
<1>9. \A k \in 1 .. n : p[k] = IF TextIn(d, b, k) THEN d[k][2] ELSE <<>>
  BY <1>2, Zenon
<1>10. QED
  BY <1>6, <1>7, <1>8, <1>9, Zenon DEF p

LEMMA TextsGrow ==
  ASSUME NEW d, Texts(d), NEW d2, NEW kind, NEW x, Adds(d2, d, kind, x),
         kind = "text" => x \in Seq(STRING)
  PROVE  Texts(d2)
<1>1. /\ Len(d2) = Len(d) + 1 /\ Len(d) \in Nat
      /\ d2[Len(d) + 1][1] = kind /\ d2[Len(d) + 1][2] = x
      /\ \A k \in 1 .. Len(d) : d2[k] = d[k]
  BY DocGrows
<1>2. \A k \in 1 .. Len(d2) : k \in 1 .. Len(d) \/ k = Len(d) + 1
  BY <1>1
<1>3. QED
  BY <1>1, <1>2, Zenon DEF Texts

LEMMA OwnTextGrows ==
  ASSUME NEW d, Texts(d), NEW d2, NEW kind, NEW x, Adds(d2, d, kind, x),
         kind = "text" => x \in Seq(STRING), NEW b
  PROVE  OwnText(d2, b) =
           IF kind = "text" /\ Within(d2, Len(d) + 1) = b THEN OwnText(d, b) \o x
           ELSE OwnText(d, b)
<1> DEFINE n == Len(d)  p == Pieces(d, b)  p2 == Pieces(d2, b)
           v == IF kind = "text" /\ Within(d2, n + 1) = b THEN x ELSE <<>>
<1>1. /\ ASequence(d) /\ ASequence(d2) /\ Len(d2) = n + 1 /\ n \in Nat
      /\ d2[n + 1][1] = kind /\ d2[n + 1][2] = x /\ \A k \in 1 .. n : d2[k] = d[k]
  BY DocGrows DEF Adds
<1>2. Texts(d2)
  BY TextsGrow
<1>3. /\ p \in Seq(Seq(STRING)) /\ Len(p) = n
      /\ \A k \in 1 .. n : p[k] = IF TextIn(d, b, k) THEN d[k][2] ELSE <<>>
      /\ OwnText(d, b) = FlattenSeq(p) /\ OwnText(d, b) \in Seq(STRING)
  BY <1>1, PiecesAre
<1>4. /\ p2 \in Seq(Seq(STRING)) /\ Len(p2) = n + 1
      /\ \A k \in 1 .. n + 1 : p2[k] = IF TextIn(d2, b, k) THEN d2[k][2] ELSE <<>>
      /\ OwnText(d2, b) = FlattenSeq(p2)
  BY <1>1, <1>2, PiecesAre
<1> HIDE DEF p, p2
<1>5. \A k \in 1 .. n : p2[k] = p[k]
  <2> TAKE k \in 1 .. n
  <2>1. TextIn(d2, b, k) <=> TextIn(d, b, k)
    BY <1>1, WithinStable DEF TextIn
  <2>2. k \in 1 .. n + 1
    BY <1>1
  <2>3. QED
    BY <1>1, <1>3, <1>4, <2>1, <2>2, Zenon
<1>6. p2[n + 1] = v /\ v \in Seq(STRING)
  <2>1. n + 1 \in 1 .. n + 1 /\ <<>> \in Seq(STRING)
    BY <1>1
  <2>2. TextIn(d2, b, n + 1) <=> kind = "text" /\ Within(d2, n + 1) = b
    BY <1>1, Zenon DEF TextIn
  <2>3. QED
    BY <1>1, <1>4, <2>1, <2>2, Zenon
<1> HIDE DEF v
<1>7. Grows(p2, p, v)
  <2> DEFINE q == Append(p, v)
  <2>1. /\ q \in Seq(Seq(STRING)) /\ Len(q) = n + 1 /\ q[n + 1] = v
        /\ \A k \in 1 .. n : q[k] = p[k]
    BY <1>3, <1>6
  <2> HIDE DEF q
  <2>2. \A k \in 1 .. n + 1 : q[k] = p2[k]
    <3>1. \A k \in 1 .. n + 1 : k \in 1 .. n \/ k = n + 1
      BY <1>1
    <3>2. QED
      BY <1>5, <1>6, <2>1, <3>1, Zenon
  <2>3. q = p2
    BY <1>4, <2>1, <2>2, SameSeq
  <2>4. QED
    BY <2>3, Zenon DEF Grows, q
<1>8. FlattenSeq(p2) = IF n = 0 THEN v ELSE FlattenSeq(p) \o v
  BY <1>3, <1>6, <1>7, FlatGrows
<1>9. OwnText(d2, b) = OwnText(d, b) \o v
  <2>1. CASE n = 0
    <3>1. \A i \in 1 .. Len(p) : p[i] = <<>>
      BY <1>3, <2>1
    <3>2. FlattenSeq(p) = <<>>
      BY <1>3, <3>1, FlatEmpty
    <3>3. <<>> \o v = v
      BY <1>6
    <3>4. QED
      BY <1>3, <1>4, <1>8, <2>1, <3>2, <3>3, Zenon
  <2>2. CASE n # 0
    BY <1>3, <1>4, <1>8, <2>2, Zenon
  <2>3. QED
    BY <2>1, <2>2
<1>10. \A s \in Seq(STRING) : s \o <<>> = s
  OBVIOUS
<1>11. QED
  BY <1>3, <1>9, <1>10, Zenon DEF v

(* An element that has just been opened has no text.                       *)
LEMMA OwnTextNew ==
  ASSUME NEW d, NEW op, Nested(d, op), Texts(d), d[1][1] # "text"
  PROVE  OwnText(d, Len(d)) = <<>>
<1> DEFINE n == Len(d)  p == Pieces(d, n)
<1>1. n \in Nat /\ ASequence(d)
  BY NestedLen DEF Nested
<1>2. /\ p \in Seq(Seq(STRING)) /\ Len(p) = n
      /\ \A k \in 1 .. n : p[k] = IF TextIn(d, n, k) THEN d[k][2] ELSE <<>>
      /\ OwnText(d, n) = FlattenSeq(p)
  BY <1>1, PiecesAre
<1> HIDE DEF p
<1>3. \A k \in 1 .. n : ~ TextIn(d, n, k)
  <2> SUFFICES ASSUME NEW k \in 1 .. n, TextIn(d, n, k) PROVE FALSE
    OBVIOUS
  <2>1. d[k][1] = "text" /\ Within(d, k) = n
    BY Zenon DEF TextIn
  <2>2. k \in 2 .. n
    BY <1>1, <2>1
  <2>3. Within(d, k) < k
    BY <2>1, <2>2 DEF Nested
  <2>4. QED
    BY <1>1, <2>1, <2>2, <2>3
<1>4. \A k \in 1 .. Len(p) : p[k] = <<>>
  BY <1>2, <1>3, Zenon
<1>5. QED
  BY <1>2, <1>4, FlatEmpty, Zenon

(* The innermost of the elements that are open, and what is known of it.   *)
Current(d, op, b) == op # <<>> /\ OpenerIs(d, op, Len(op), b)
InnerIs(op, N) == op # <<>> /\ op[Len(op)] \in N
OuterIs(op, N) == Len(op) > 1 /\ op[Len(op) - 1] \in N

LEMMA CurrentIs ==
  ASSUME NEW d, NEW op, Nested(d, op), op # <<>>
  PROVE  \E b : Current(d, op, b)
<1>1. Len(op) \in 1 .. Len(op)
  BY NestedLen
<1>2. \E b : OpenerIs(d, op, Len(op), b)
  BY <1>1, Zenon DEF Nested
<1>3. QED
  BY <1>2, Zenon DEF Current

LEMMA OneCurrent ==
  ASSUME NEW d, NEW op, Nested(d, op), NEW a, Current(d, op, a), NEW b, Current(d, op, b)
  PROVE  a = b
<1>1. Len(op) \in Nat /\ ASequence(d)
  BY NestedLen DEF Nested
<1>2. OpenerIs(d, op, Len(op), a) /\ OpenerIs(d, op, Len(op), b)
  BY Zenon DEF Current
<1>3. QED
  BY <1>1, <1>2, OneOpener

(* The i-th of the elements that are open is within the one before.        *)
LEMMA OpenerIn ==
  ASSUME NEW d, NEW op, Nested(d, op), NEW i \in 1 .. Len(op), NEW b, OpenerIs(d, op, i, b)
  PROVE  /\ b \in Opened(d) /\ b \in 1 .. Len(d) /\ Depth(d, b) = i
         /\ i = 1 <=> b = 1
         /\ \A N : Is(d, b, N) <=> op[i] \in N
         /\ \A N : In(d, b, N) <=> i > 1 /\ op[i - 1] \in N
         /\ i > 1 => OpenerIs(d, op, i - 1, Within(d, b))
<1>1. b \in Opened(d) /\ d[b][2] = op[i] /\ Depth(d, b) = i
  BY Zenon DEF OpenerIs
<1>2. b \in 1 .. Len(d) /\ Len(d) \in Nat /\ Len(op) \in Nat /\ op # <<>>
  <2>1. ASequence(d)
    BY Zenon DEF Nested
  <2>2. Opened(d) \subseteq 1 .. Len(d)
    BY <2>1, OpenedIs
  <2>3. QED
    BY <1>1, <2>2, NestedLen
<1>3. OpenerIs(d, op, 1, 1)
  BY <1>2, Zenon DEF Nested
<1>4. Depth(d, 1) = 1
  BY <1>3, Zenon DEF OpenerIs
<1>5. i = 1 => b = 1
  <2> SUFFICES ASSUME i = 1 PROVE b = 1
    OBVIOUS
  <2>1. OpenerIs(d, op, 1, b) /\ ASequence(d) /\ 1 \in Nat
    BY Zenon DEF Nested
  <2>2. QED
    BY <1>3, <2>1, OneOpener
<1>6. b = 1 => i = 1
  BY <1>1, <1>4
<1>7. i > 1 => OpenerIs(d, op, i - 1, Within(d, b))
  <2> SUFFICES ASSUME i > 1 PROVE OpenerIs(d, op, i - 1, Within(d, b))
    OBVIOUS
  <2>1. i \in 2 .. Len(op) /\ i - 1 \in 1 .. Len(op)
    BY <1>2
  <2>2. PICK a : OpenerIs(d, op, i - 1, a)
    BY <2>1, Zenon DEF Nested
  <2>3. Within(d, b) = a
    BY <2>1, <2>2, Zenon DEF Nested
  <2>4. QED
    BY <2>2, <2>3, Zenon
<1>8. \A N : Is(d, b, N) <=> op[i] \in N
  BY <1>1, Zenon DEF Is
<1>9. ASSUME NEW N PROVE In(d, b, N) <=> i > 1 /\ op[i - 1] \in N
  <2>1. b > 1 <=> i > 1
    BY <1>2, <1>5, <1>6
  <2>2. i > 1 => d[Within(d, b)][2] = op[i - 1]
    BY <1>7, Zenon DEF OpenerIs
  <2>3. QED
    BY <2>1, <2>2, Zenon DEF In, Is
<1>10. QED
  BY <1>1, <1>2, <1>5, <1>6, <1>7, <1>8, <1>9, Zenon

LEMMA CurrentIn ==
  ASSUME NEW d, NEW op, Nested(d, op), NEW b, Current(d, op, b)
  PROVE  /\ b \in Opened(d) /\ b \in 1 .. Len(d)
         /\ b = 1 <=> Len(op) = 1
         /\ \A N : Is(d, b, N) <=> InnerIs(op, N)
         /\ \A N : In(d, b, N) <=> OuterIs(op, N)
         /\ b # 1 => /\ Within(d, b) \in Opened(d)
                     /\ \A N : In(d, Within(d, b), N) <=> Len(op) > 2 /\ op[Len(op) - 2] \in N
<1> DEFINE m == Len(op)
<1>1. OpenerIs(d, op, m, b) /\ op # <<>>
  BY Zenon DEF Current
<1>2. m \in 1 .. m /\ m \in Nat
  BY <1>1, NestedLen
<1>3. /\ b \in Opened(d) /\ b \in 1 .. Len(d)
      /\ m = 1 <=> b = 1
      /\ \A N : Is(d, b, N) <=> op[m] \in N
      /\ \A N : In(d, b, N) <=> m > 1 /\ op[m - 1] \in N
      /\ m > 1 => OpenerIs(d, op, m - 1, Within(d, b))
  BY <1>1, <1>2, OpenerIn
<1>4. ASSUME b # 1
      PROVE  /\ Within(d, b) \in Opened(d)
             /\ \A N : In(d, Within(d, b), N) <=> m > 2 /\ op[m - 2] \in N
  <2> HIDE DEF m
  <2>a. m # 1
    BY <1>3, <1>4, Zenon
  <2>1. m - 1 \in 1 .. m /\ m > 1 /\ (m - 1 > 1 <=> m > 2) /\ (m - 1) - 1 = m - 2
    BY <1>2, <2>a
  <2>2. OpenerIs(d, op, m - 1, Within(d, b))
    BY <1>3, <2>1
  <2>3. /\ Within(d, b) \in Opened(d)
        /\ \A N : In(d, Within(d, b), N) <=> m - 1 > 1 /\ op[(m - 1) - 1] \in N
    BY <2>1, <2>2, OpenerIn DEF m
  <2>4. QED
    BY <2>1, <2>3, Zenon
<1>5. QED
  BY <1>1, <1>3, <1>4, Zenon DEF InnerIs, OuterIs

(* What was said of an element stays.                                      *)
LEMMA InStable ==
  ASSUME NEW d, NEW op, Nested(d, op), NEW d2, NEW kind, NEW x, Adds(d2, d, kind, x),
         NEW k \in Opened(d)
  PROVE  /\ k \in Nat /\ k \in 1 .. Len(d) /\ k \in Opened(d2)
         /\ d2[k] = d[k]
         /\ \A N : Is(d2, k, N) <=> Is(d, k, N)
         /\ \A N : In(d2, k, N) <=> In(d, k, N)
         /\ k # 1 => \A N : In(d2, Within(d2, k), N) <=> In(d, Within(d, k), N)
<1>1. ASequence(d)
  BY Zenon DEF Nested
<1>2. Opened(d) \subseteq 1 .. Len(d) /\ Opened(d) \subseteq Nat /\ Len(d) \in Nat
  BY <1>1, OpenedIs
<1>3. \A c \in 1 .. Len(d) : d2[c] = d[c] /\ Within(d2, c) = Within(d, c)
  BY DocGrows, WithinStable
<1>4. ASSUME NEW c \in Opened(d)
      PROVE  /\ c \in 1 .. Len(d) /\ d2[c] = d[c]
             /\ Within(d2, c) = Within(d, c)
             /\ c > 1 => Within(d, c) \in Opened(d) /\ Within(d, c) \in 1 .. Len(d)
             /\ \A N : Is(d2, c, N) <=> Is(d, c, N)
             /\ \A N : In(d2, c, N) <=> In(d, c, N)
  <2>1. c \in 1 .. Len(d) /\ d2[c] = d[c] /\ Within(d2, c) = Within(d, c)
    BY <1>2, <1>3
  <2>2. ASSUME c > 1 PROVE Within(d, c) \in Opened(d) /\ Within(d, c) \in 1 .. Len(d)
    <3>1. c \in 2 .. Len(d)
      BY <1>2, <2>1, <2>2
    <3>2. d[c][1] = "open"
      BY <1>1, OpenedIs
    <3>3. d[c][1] \in {"open", "text"}
      BY <3>2
    <3>4. Within(d, c) \in Opened(d)
      BY <3>1, <3>3, Zenon DEF Nested
    <3>5. QED
      BY <1>2, <3>4
  <2>3. c > 1 => d2[Within(d, c)] = d[Within(d, c)]
    BY <1>3, <2>2
  <2>4. QED
    BY <2>1, <2>2, <2>3, Zenon DEF Is, In
<1>5. k \in Opened(d2)
  BY OpenedGrows
<1>6. k # 1 => k > 1
  BY <1>2
<1>7. ASSUME k # 1 PROVE \A N : In(d2, Within(d2, k), N) <=> In(d, Within(d, k), N)
  BY <1>4, <1>6, <1>7, Zenon
<1>8. QED
  BY <1>2, <1>4, <1>5, <1>7, Zenon

(* What a proper document has open.                                        *)
Fits(op) ==
    /\ Len(op) = 1 => op[1] \in Requests
    /\ Len(op) > 1 => ~ InnerIs(op, Requests)
    /\ ~ OuterIs(op, Properties \cup {"href"})
    /\ OuterIs(op, {"prop"}) => ~ InnerIs(op, {"prop"})
    /\ Len(op) > 2 => op[Len(op) - 2] # "prop"

LEMMA ProperFits ==
  ASSUME NEW d, NEW op, Nested(d, op), Proper(d), NEW b, Current(d, op, b)
  PROVE  Fits(op)
<1>1. /\ b \in Opened(d) /\ b \in 1 .. Len(d)
      /\ b = 1 <=> Len(op) = 1
      /\ \A N : Is(d, b, N) <=> InnerIs(op, N)
      /\ \A N : In(d, b, N) <=> OuterIs(op, N)
      /\ b # 1 => \A N : In(d, Within(d, b), N) <=> Len(op) > 2 /\ op[Len(op) - 2] \in N
  BY CurrentIn
<1>2. Len(op) \in Nat
  BY NestedLen
<1>3. CASE b = 1
  <2>1. Len(op) = 1 /\ ~ (Len(op) > 1) /\ ~ (Len(op) > 2)
    BY <1>1, <1>3
  <2>2. InnerIs(op, Requests)
    BY <1>1, <1>3, Zenon DEF Proper
  <2>3. op[1] \in Requests
    BY <2>1, <2>2 DEF InnerIs
  <2>4. QED
    BY <2>1, <2>3, Zenon DEF Fits, OuterIs
<1>4. CASE b # 1
  <2>1. b \in Opened(d) \ {1} /\ Len(op) # 1
    BY <1>1, <1>4
  <2>2. /\ ~ Is(d, b, Requests) /\ ~ In(d, b, Properties \cup {"href"})
        /\ In(d, b, {"prop"}) => ~ Is(d, b, {"prop"})
        /\ ~ In(d, Within(d, b), {"prop"})
    BY <2>1, Zenon DEF Proper
  <2>3. \A y : y = "prop" => y \in {"prop"}
    OBVIOUS
  <2>4. QED
    BY <1>1, <1>4, <2>1, <2>2, <2>3, Zenon DEF Fits
<1>5. QED
  BY <1>3, <1>4

LEMMA ProperGrows ==
  ASSUME NEW d, NEW op, Nested(d, op), d # <<>>,
         NEW d2, NEW kind, NEW x, Adds(d2, d, kind, x), Proper(d2)
  PROVE  Proper(d)
<1>1. 1 \in Opened(d)
  <2>1. ASequence(d)
    BY Zenon DEF Nested
  <2>2. Len(d) # 0 /\ Len(d) \in Nat
    BY <2>1, EmptyIs, OpenedIs
  <2>3. Opened(d2) \subseteq Opened(d) \cup {Len(d) + 1} /\ 1 \in Opened(d2)
    BY OpenedGrows, Zenon DEF Proper
  <2>4. QED
    BY <2>2, <2>3
<1>2. \A k \in Opened(d) :
         /\ k \in Opened(d2)
         /\ \A N : Is(d2, k, N) <=> Is(d, k, N)
         /\ \A N : In(d2, k, N) <=> In(d, k, N)
         /\ k # 1 => \A N : In(d2, Within(d2, k), N) <=> In(d, Within(d, k), N)
  BY InStable
<1>3. Is(d, 1, Requests)
  BY <1>1, <1>2, Zenon DEF Proper
<1>4. ASSUME NEW k \in Opened(d) \ {1}
      PROVE  /\ ~ Is(d, k, Requests) /\ ~ In(d, k, Properties \cup {"href"})
             /\ In(d, k, {"prop"}) => ~ Is(d, k, {"prop"})
             /\ ~ In(d, Within(d, k), {"prop"})
  <2>1. k \in Opened(d2) \ {1} /\ k \in Opened(d) /\ k # 1
    BY <1>2
  <2>2. /\ ~ Is(d2, k, Requests) /\ ~ In(d2, k, Properties \cup {"href"})
        /\ In(d2, k, {"prop"}) => ~ Is(d2, k, {"prop"})
        /\ ~ In(d2, Within(d2, k), {"prop"})
    BY <2>1, Zenon DEF Proper
  <2>3. QED
    BY <1>2, <2>1, <2>2, Zenon
<1>5. QED
  BY <1>1, <1>3, <1>4, Zenon DEF Proper

LEMMA NamedKept ==
  ASSUME NEW d, NEW op, Nested(d, op), NEW d2, NEW kind, kind # "open", NEW x,
         Adds(d2, d, kind, x)
  PROVE  Named(d2) = Named(d)
<1>1. Opened(d2) = Opened(d)
  BY OpenedGrows
<1>2. \A k \in Opened(d) : \A N : In(d2, k, N) <=> In(d, k, N)
  BY InStable
<1>3. QED
  BY <1>1, <1>2, Zenon DEF Named

LEMMA NamedOpens ==
  ASSUME NEW d, NEW op, Nested(d, op), NEW d2, NEW x, Adds(d2, d, "open", x),
         NEW op2, Nested(d2, op2), Current(d2, op2, Len(d) + 1)
  PROVE  Named(d2) = Named(d) \cup (IF OuterIs(op2, {"prop"}) THEN {Len(d) + 1} ELSE {})
<1> DEFINE n == Len(d)
<1>1. Opened(d2) = Opened(d) \cup {n + 1}
  BY OpenedGrows
<1>2. \A k \in Opened(d) : \A N : In(d2, k, N) <=> In(d, k, N)
  BY InStable
<1>3. In(d2, n + 1, {"prop"}) <=> OuterIs(op2, {"prop"})
  BY CurrentIn
<1>4. Named(d2) = {k \in Opened(d2) : In(d2, k, {"prop"})}
      /\ Named(d) = {k \in Opened(d) : In(d, k, {"prop"})}
  BY Zenon DEF Named
<1> HIDE DEF n
<1>5. CASE OuterIs(op2, {"prop"})
  <2>1. Named(d2) = Named(d) \cup {n + 1}
    BY <1>1, <1>2, <1>3, <1>4, <1>5
  <2>2. QED
    BY <1>5, <2>1, Zenon DEF n
<1>6. CASE ~ OuterIs(op2, {"prop"})
  <2>1. Named(d2) = Named(d) \cup {}
    BY <1>1, <1>2, <1>3, <1>4, <1>6
  <2>2. QED
    BY <1>6, <2>1, Zenon DEF n
<1>7. QED
  BY <1>5, <1>6

LEMMA LinkedIs ==
  ASSUME NEW d
  PROVE  Linked(d) = {k \in Opened(d) : Is(d, k, {"href"}) /\ ~In(d, k, {"prop"})
                                        /\ OwnText(d, k) # <<>>}
BY Zenon DEF Linked

(* Only a text changes what is linked to, in the element it is in.         *)
LEMMA LinkedKept ==
  ASSUME NEW d, NEW op, Nested(d, op), Texts(d), NEW d2, NEW kind, kind # "text", NEW x,
         Adds(d2, d, kind, x),
         kind = "open" => OwnText(d2, Len(d) + 1) = <<>>
  PROVE  Linked(d2) = Linked(d) /\ \A b : OwnText(d2, b) = OwnText(d, b)
<1> DEFINE n == Len(d)
<1>1. Opened(d2) = Opened(d) \cup (IF kind = "open" THEN {n + 1} ELSE {})
  BY OpenedGrows
<1>2. \A k \in Opened(d) : /\ \A N : Is(d2, k, N) <=> Is(d, k, N)
                           /\ \A N : In(d2, k, N) <=> In(d, k, N)
  BY InStable
<1>3. \A b : OwnText(d2, b) = OwnText(d, b)
  BY OwnTextGrows
<1> HIDE DEF n
<1>4. \A k \in Opened(d2) : k \notin Opened(d) => OwnText(d2, k) = <<>>
  <2>1. kind = "open" => OwnText(d2, n + 1) = <<>>
    BY Zenon DEF n
  <2>2. QED
    BY <1>1, <2>1
<1>5. Opened(d) \subseteq Opened(d2)
  BY <1>1
<1>6. ASSUME NEW k PROVE k \in Linked(d2) <=> k \in Linked(d)
  BY <1>2, <1>3, <1>4, <1>5, LinkedIs, Zenon
<1>7. QED
  BY <1>3, <1>6

LEMMA LinkedText ==
  ASSUME NEW d, NEW op, Nested(d, op), Texts(d), NEW d2, NEW x, Adds(d2, d, "text", x),
         x \in Seq(STRING), NEW b, Current(d, op, b)
  PROVE  /\ \A k : k # b => (k \in Linked(d2) <=> k \in Linked(d))
         /\ \A k : k # b => OwnText(d2, k) = OwnText(d, k)
         /\ OwnText(d2, b) = OwnText(d, b) \o x
<1>1. Opened(d2) = Opened(d)
  BY OpenedGrows
<1>2. \A k \in Opened(d) : /\ \A N : Is(d2, k, N) <=> Is(d, k, N)
                           /\ \A N : In(d2, k, N) <=> In(d, k, N)
  BY InStable
<1>3. Within(d2, Len(d) + 1) = b
  <2>1. OpenerIs(d, op, Len(op), b)
    BY Zenon DEF Current
  <2>2. QED
    BY <2>1, WithinNext
<1>4. \A k : OwnText(d2, k) = IF "text" = "text" /\ Within(d2, Len(d) + 1) = k
                              THEN OwnText(d, k) \o x ELSE OwnText(d, k)
  BY OwnTextGrows
<1>5. ASSUME NEW k, k # b PROVE OwnText(d2, k) = OwnText(d, k)
  BY <1>3, <1>4, <1>5, Zenon
<1>6. OwnText(d2, b) = OwnText(d, b) \o x
  BY <1>3, <1>4, Zenon
<1>7. ASSUME NEW k, k # b PROVE k \in Linked(d2) <=> k \in Linked(d)
  BY <1>1, <1>2, <1>5, <1>7, LinkedIs, Zenon
<1>8. QED
  BY <1>5, <1>6, <1>7

(* Lists in the order of the document.                                     *)
Follows(T, S, m) ==
    /\ S \subseteq Nat /\ IsFiniteSet(S)
    /\ m \in Nat /\ \A k \in S : k < m
    /\ T = S \cup {m}

LEMMA PlaceNew ==
  ASSUME NEW S, NEW m, NEW T, Follows(T, S, m)
  PROVE  /\ Cardinality(S) \in Nat /\ Cardinality(T) = Cardinality(S) + 1
         /\ Place(T, m) = Cardinality(S) + 1
         /\ \A k \in S : Place(T, k) = Place(S, k) /\ Place(S, k) \in 1 .. Cardinality(S)
<1>a. /\ S \subseteq Nat /\ IsFiniteSet(S)
      /\ m \in Nat /\ \A k \in S : k < m
      /\ T = S \cup {m}
  BY Zenon DEF Follows
<1>1. Cardinality(S) \in Nat
  BY <1>a, FS_CardinalityType
<1>2. m \notin S
  <2>1. ~ (m < m)
    BY <1>a
  <2>2. QED
    BY <1>a, <2>1, Zenon
<1>3. Cardinality(T) = Cardinality(S) + 1
  BY <1>a, <1>2, FS_AddElement
<1>4. Place(T, m) = Cardinality(S) + 1
  <2>a. \A i, j \in Nat : i < j => i <= j /\ j <= j
    OBVIOUS
  <2>b. m <= m /\ \A k \in S : k <= m
    BY <1>a, <2>a
  <2>1. {c \in T : c <= m} = T
    BY <1>a, <2>b
  <2>2. QED
    BY <1>3, <2>1, Zenon DEF Place
<1>5. ASSUME NEW k \in S
      PROVE  Place(T, k) = Place(S, k) /\ Place(S, k) \in 1 .. Cardinality(S)
  <2> DEFINE P == {c \in S : c <= k}
  <2>1. {c \in T : c <= k} = P
    BY <1>a
  <2>2. P \subseteq S /\ k \in P
    BY <1>a
  <2> HIDE DEF P
  <2>3. IsFiniteSet(P) /\ Cardinality(P) <= Cardinality(S)
    BY <1>a, <2>2, FS_Subset
  <2>4. Cardinality(P) \in Nat /\ Cardinality(P) # 0
    BY <2>2, <2>3, FS_CardinalityType, FS_EmptySet
  <2>5. Cardinality(P) \in 1 .. Cardinality(S)
    BY <1>1, <2>3, <2>4
  <2>6. Place(T, k) = Cardinality(P) /\ Place(S, k) = Cardinality(P)
    BY <2>1, Zenon DEF Place, P
  <2>7. QED
    BY <2>5, <2>6
<1>6. QED
  BY <1>1, <1>3, <1>4, <1>5

LinksOK(d, S, hs) ==
    Len(hs) = Cardinality(S) /\ \A k \in S : hs[Place(S, k)] = Decoded(OwnText(d, k))
PropsOK(d, S, ps) ==
    Len(ps) = Cardinality(S) /\ \A k \in S : AsNamed(d, k, ps[Place(S, k)])

LEMMA LinksGrow ==
  ASSUME NEW S, NEW m, NEW T, Follows(T, S, m), NEW d, NEW d2,
         \A k \in S : OwnText(d2, k) = OwnText(d, k),
         NEW hs, ASequence(hs), LinksOK(d, S, hs),
         NEW h2, Grows(h2, hs, Decoded(OwnText(d2, m)))
  PROVE  LinksOK(d2, T, h2)
<1>1. /\ Cardinality(S) \in Nat /\ Cardinality(T) = Cardinality(S) + 1
      /\ Place(T, m) = Cardinality(S) + 1
      /\ \A k \in S : Place(T, k) = Place(S, k) /\ Place(S, k) \in 1 .. Cardinality(S)
  BY PlaceNew, Zenon
<1>2. /\ Len(h2) = Len(hs) + 1 /\ h2[Len(hs) + 1] = Decoded(OwnText(d2, m))
      /\ \A i \in 1 .. Len(hs) : h2[i] = hs[i]
  BY GrownSequence
<1>3. /\ Len(hs) = Cardinality(S)
      /\ \A k \in S : hs[Place(S, k)] = Decoded(OwnText(d, k))
  BY Zenon DEF LinksOK
<1>4. \A k \in S : h2[Place(T, k)] = Decoded(OwnText(d2, k))
  BY <1>1, <1>2, <1>3, Zenon
<1>5. h2[Place(T, m)] = Decoded(OwnText(d2, m))
  BY <1>1, <1>2, <1>3, Zenon
<1>6. \A k \in T : k \in S \/ k = m
  BY DEF Follows
<1>7. \A k \in T : h2[Place(T, k)] = Decoded(OwnText(d2, k))
  BY <1>4, <1>5, <1>6, Zenon
<1>8. Len(h2) = Cardinality(T)
  BY <1>1, <1>2, <1>3, Zenon
<1>9. QED
  BY <1>7, <1>8, Zenon DEF LinksOK

LEMMA LinksKept ==
  ASSUME NEW S, NEW d, NEW d2, \A k \in S : OwnText(d2, k) = OwnText(d, k),
         NEW hs, LinksOK(d, S, hs)
  PROVE  LinksOK(d2, S, hs)
BY Zenon DEF LinksOK

(* The entry of element k is the same in two documents.                    *)
SameEntry(d2, d, k) ==
    /\ d2[1] = d[1] /\ d2[k] = d[k]
    /\ Is(d, k, Properties) => OwnText(d2, k) = OwnText(d, k)

LEMMA AsNamedKept ==
  ASSUME NEW d, NEW d2, NEW k, SameEntry(d2, d, k), NEW prop, AsNamed(d, k, prop)
  PROVE  AsNamed(d2, k, prop)
<1>1. d2[1] = d[1] /\ d2[k] = d[k]
  BY Zenon DEF SameEntry
<1>2. \A N : (Is(d2, 1, N) <=> Is(d, 1, N)) /\ (Is(d2, k, N) <=> Is(d, k, N))
  BY <1>1, Zenon DEF Is
<1>3. Sets(d2, k) <=> Sets(d, k)
  BY <1>2, Zenon DEF Sets
<1>4. Sets(d, k) => OwnText(d2, k) = OwnText(d, k)
  BY Zenon DEF Sets, SameEntry
<1>5. prop[1] = IF Is(d2, k, Properties) THEN d2[k][2] ELSE CALPROP__MAX
  BY <1>1, <1>2, Zenon DEF AsNamed
<1>6. ~ Sets(d2, k) => prop[2] = Unset
  BY <1>3, Zenon DEF AsNamed
<1>7. Sets(d2, k) /\ OwnText(d2, k) # <<>> =>
        prop = <<d2[k][2], OwnText(d2, k), propvalids(d2[k][2], OwnText(d2, k))>>
  <2> SUFFICES ASSUME Sets(d2, k), OwnText(d2, k) # <<>>
               PROVE  prop = <<d2[k][2], OwnText(d2, k), propvalids(d2[k][2], OwnText(d2, k))>>
    OBVIOUS
  <2>1. Sets(d, k) /\ OwnText(d2, k) = OwnText(d, k) /\ OwnText(d, k) # <<>>
    BY <1>3, <1>4, Zenon
  <2>2. prop = <<d[k][2], OwnText(d, k), propvalids(d[k][2], OwnText(d, k))>>
    BY <2>1, Zenon DEF AsNamed
  <2>3. QED
    BY <1>1, <2>1, <2>2, Zenon
<1>8. QED
  BY <1>5, <1>6, <1>7, Zenon DEF AsNamed

LEMMA PropsGrow ==
  ASSUME NEW S, NEW m, NEW T, Follows(T, S, m), NEW d, NEW d2, \A k \in S : SameEntry(d2, d, k),
         NEW ps, ASequence(ps), PropsOK(d, S, ps),
         NEW prop, AsNamed(d2, m, prop), NEW p2, Grows(p2, ps, prop)
  PROVE  PropsOK(d2, T, p2)
<1>1. /\ Cardinality(S) \in Nat /\ Cardinality(T) = Cardinality(S) + 1
      /\ Place(T, m) = Cardinality(S) + 1
      /\ \A k \in S : Place(T, k) = Place(S, k) /\ Place(S, k) \in 1 .. Cardinality(S)
  BY PlaceNew, Zenon
<1>2. /\ Len(p2) = Len(ps) + 1 /\ p2[Len(ps) + 1] = prop
      /\ \A i \in 1 .. Len(ps) : p2[i] = ps[i]
  BY GrownSequence
<1>3. Len(ps) = Cardinality(S) /\ \A k \in S : AsNamed(d, k, ps[Place(S, k)])
  BY Zenon DEF PropsOK
<1>4. \A k \in S : AsNamed(d2, k, ps[Place(S, k)])
  BY <1>3, AsNamedKept, Zenon
<1>5. \A k \in S : p2[Place(T, k)] = ps[Place(S, k)]
  BY <1>1, <1>2, <1>3, Zenon
<1>6. \A k \in S : AsNamed(d2, k, p2[Place(T, k)])
  BY <1>4, <1>5, Zenon
<1>7. p2[Place(T, m)] = prop
  BY <1>1, <1>2, <1>3, Zenon
<1>8. \A k \in T : k \in S \/ k = m
  BY DEF Follows
<1>9. \A k \in T : AsNamed(d2, k, p2[Place(T, k)])
  BY <1>6, <1>7, <1>8, Zenon
<1>10. Len(p2) = Cardinality(T)
  BY <1>1, <1>2, <1>3, Zenon
<1>11. QED
  BY <1>9, <1>10, Zenon DEF PropsOK

LEMMA PropsKept ==
  ASSUME NEW S, NEW d, NEW d2, \A k \in S : SameEntry(d2, d, k), NEW ps, PropsOK(d, S, ps)
  PROVE  PropsOK(d2, S, ps)
<1>1. Len(ps) = Cardinality(S) /\ \A k \in S : AsNamed(d, k, ps[Place(S, k)])
  BY Zenon DEF PropsOK
<1>2. \A k \in S : AsNamed(d2, k, ps[Place(S, k)])
  BY <1>1, AsNamedKept, Zenon
<1>3. QED
  BY <1>1, <1>2, Zenon DEF PropsOK

(* The elements whose links and properties are in the lists: all but the   *)
(* one being read.                                                         *)
LinkedDone(d, op) == {k \in Linked(d) : ~ Current(d, op, k)}
NamedDone(d, op) == {k \in Named(d) : ~ (Current(d, op, k) /\ Is(d, k, Properties))}
GoodLinks(d, S) == \A k \in S : BadEncoding \notin Range(Decoded(OwnText(d, k)))

HandlersOK(op, hd) ==
    op # <<>> => hd = IF InnerIs(op, {"prop"}) \/ OuterIs(op, {"prop"}) THEN "prop" ELSE "parse"
Recording(op) ==
    \/ InnerIs(op, Properties) /\ OuterIs(op, {"prop"})
    \/ InnerIs(op, {"href"}) /\ ~ OuterIs(op, {"prop"})
BufferOK(d, op, bf, bu, fr) ==
    \A b : Current(d, op, b) /\ Recording(op) =>
      /\ bf = TRUE
      /\ IF OwnText(d, b) = <<>> THEN fr = TRUE ELSE fr = FALSE /\ bu = OwnText(d, b)
LeafLast(d, op) ==
    \A b : Current(d, op, b) /\ InnerIs(op, Properties \cup {"href"}) =>
      \A c \in Opened(d) : c <= b

LEMMA DoneIs ==
  ASSUME NEW d, NEW op, Nested(d, op)
  PROVE  /\ ~ InnerIs(op, {"href"}) => LinkedDone(d, op) = Linked(d)
         /\ ~ InnerIs(op, Properties) => NamedDone(d, op) = Named(d)
<1>1. \A k : Current(d, op, k) => \A N : Is(d, k, N) <=> InnerIs(op, N)
  BY CurrentIn
<1>2. \A k \in Linked(d) : Is(d, k, {"href"})
  BY LinkedIs, Zenon
<1>3. ASSUME ~ InnerIs(op, {"href"}) PROVE LinkedDone(d, op) = Linked(d)
  BY <1>1, <1>2, <1>3, Zenon DEF LinkedDone
<1>4. ASSUME ~ InnerIs(op, Properties) PROVE NamedDone(d, op) = Named(d)
  BY <1>1, <1>4, Zenon DEF NamedDone
<1>5. QED
  BY <1>3, <1>4

LEMMA DoneOpened ==
  ASSUME NEW d, NEW op, ASequence(d)
  PROVE  /\ LinkedDone(d, op) \subseteq Opened(d) /\ NamedDone(d, op) \subseteq Opened(d)
         /\ LinkedDone(d, op) \subseteq Nat /\ NamedDone(d, op) \subseteq Nat
         /\ IsFiniteSet(LinkedDone(d, op)) /\ IsFiniteSet(NamedDone(d, op))
<1>1. Opened(d) \subseteq 1 .. Len(d) /\ Opened(d) \subseteq Nat /\ Len(d) \in Nat
  BY OpenedIs
<1>2. Linked(d) \subseteq Opened(d) /\ Named(d) \subseteq Opened(d)
  BY Zenon DEF Linked, Named
<1>3. LinkedDone(d, op) \subseteq Opened(d) /\ NamedDone(d, op) \subseteq Opened(d)
  BY <1>2, Zenon DEF LinkedDone, NamedDone
<1>4. IsFiniteSet(1 .. Len(d))
  BY <1>1, FS_Interval
<1>5. IsFiniteSet(Opened(d))
  BY <1>1, <1>4, FS_Subset, Zenon
<1>6. IsFiniteSet(LinkedDone(d, op)) /\ IsFiniteSet(NamedDone(d, op))
  BY <1>3, <1>5, FS_Subset, Zenon
<1>7. QED
  BY <1>1, <1>3, <1>6, Zenon

(* The lists of a document that grows by no link or property.              *)
LEMMA SameEntries ==
  ASSUME NEW d, NEW op, Nested(d, op), NEW d2, NEW kind, NEW x, Adds(d2, d, kind, x),
         NEW k \in Opened(d), Is(d, k, Properties) => OwnText(d2, k) = OwnText(d, k)
  PROVE  SameEntry(d2, d, k)
<1>1. /\ \A i \in 1 .. Len(d) : d2[i] = d[i] 
      /\ Len(d) \in Nat
  BY DocGrows
<1>2. k \in 1 .. Len(d)
  BY InStable
<1>3. 1 \in 1 .. Len(d)
  BY <1>1, <1>2
<1>4. QED
  BY <1>1, <1>2, <1>3, Zenon DEF SameEntry

(* An element is opened in a proper document.                              *)
LEMMA DocOpens ==
  ASSUME NEW d, NEW op, Nested(d, op), op # <<>>, Texts(d), NEW d2, NEW x,
         Adds(d2, d, "open", x), NEW op2, Grows(op2, op, x), Proper(d2)
  PROVE  /\ Proper(d) /\ Fits(op) /\ Fits(op2)
         /\ Current(d2, op2, Len(d) + 1) /\ OwnText(d2, Len(d) + 1) = <<>>
         /\ \A N : (InnerIs(op2, N) <=> x \in N) /\ (OuterIs(op2, N) <=> InnerIs(op, N))
         /\ LeafLast(d2, op2)
<1> DEFINE n == Len(d)
<1>1. /\ Nested(d2, op2) /\ OpenerIs(d2, op2, Len(op2), n + 1)
      /\ Len(op2) = Len(op) + 1 /\ op2[Len(op) + 1] = x
      /\ \A i \in 1 .. Len(op) : op2[i] = op[i]
  BY NestedOpens
<1>2. /\ n \in Nat /\ Len(op) \in Nat /\ Len(op) # 0 /\ (d = <<>> => op = <<>>)
      /\ (op2 = <<>> <=> Len(op2) = 0)
  BY <1>1, NestedLen
<1>3. Proper(d)
  BY <1>2, ProperGrows
<1>4. op2 # <<>> /\ Len(op2) > 1 /\ Len(op2) - 1 = Len(op) /\ Len(op) \in 1 .. Len(op)
  BY <1>1, <1>2
<1>5. Current(d2, op2, n + 1)
  BY <1>1, <1>4, Zenon DEF Current
<1>6. Fits(op2)
  BY <1>1, <1>5, ProperFits
<1>7. Fits(op)
  <2>1. PICK b : Current(d, op, b)
    BY CurrentIs
  <2>2. QED
    BY <1>3, <2>1, ProperFits
<1>8. \A N : (InnerIs(op2, N) <=> x \in N) /\ (OuterIs(op2, N) <=> InnerIs(op, N))
  BY <1>1, <1>4, Zenon DEF InnerIs, OuterIs
<1>9. OwnText(d2, n + 1) = <<>>
  <2>1. Texts(d2)
    BY TextsGrow
  <2>2. 1 \in Opened(d2) /\ ASequence(d2)
    BY <1>1, Zenon DEF Proper, Nested
  <2>3. d2[1][1] # "text"
    BY <2>2, OpenedIs
  <2>4. Len(d2) = n + 1
    BY DocGrows
  <2>5. OwnText(d2, Len(d2)) = <<>>
    BY <1>1, <2>1, <2>3, OwnTextNew
  <2>6. QED
    BY <2>4, <2>5, Zenon
<1>10. LeafLast(d2, op2)
  <2>1. \A b : Current(d2, op2, b) => b = n + 1
    BY <1>1, <1>5, OneCurrent
  <2>2. Opened(d2) = Opened(d) \cup {n + 1} /\ Opened(d) \subseteq 1 .. n
    BY OpenedGrows, OpenedIs DEF Adds
  <2>3. \A c \in Opened(d2) : c <= n + 1
    BY <1>2, <2>2
  <2>4. QED
    BY <2>1, <2>3, Zenon DEF LeafLast
<1>11. QED
  BY <1>3, <1>5, <1>6, <1>7, <1>8, <1>9, <1>10, Zenon

LEMMA ListsOpen ==
  ASSUME NEW d, NEW op, Nested(d, op), op # <<>>, Texts(d), NEW d2, NEW x,
         Adds(d2, d, "open", x), NEW op2, Grows(op2, op, x), Proper(d2)
  PROVE  /\ LinkedDone(d2, op2) = LinkedDone(d, op)
         /\ \A b : OwnText(d2, b) = OwnText(d, b)
         /\ IF InnerIs(op, {"prop"}) /\ x \notin Properties
            THEN Follows(NamedDone(d2, op2), NamedDone(d, op), Len(d) + 1)
            ELSE NamedDone(d2, op2) = NamedDone(d, op)
         /\ \A k \in NamedDone(d, op) : SameEntry(d2, d, k)
         /\ d2[Len(d) + 1][2] = x /\ d2[1] = d[1]
<1> DEFINE n == Len(d)
<1>1. /\ Proper(d) /\ Fits(op2)
      /\ Current(d2, op2, n + 1) /\ OwnText(d2, n + 1) = <<>>
      /\ \A N : (InnerIs(op2, N) <=> x \in N) /\ (OuterIs(op2, N) <=> InnerIs(op, N))
  BY DocOpens
<1>2. Nested(d2, op2)
  BY NestedOpens
<1>3. Linked(d2) = Linked(d) /\ \A b : OwnText(d2, b) = OwnText(d, b)
  <2>1. "open" # "text"
    OBVIOUS
  <2>2. QED
    BY <1>1, <2>1, LinkedKept
<1>4. Named(d2) = Named(d) \cup (IF InnerIs(op, {"prop"}) THEN {n + 1} ELSE {})
  <2>1. Named(d2) = Named(d) \cup (IF OuterIs(op2, {"prop"}) THEN {n + 1} ELSE {})
    BY <1>1, <1>2, NamedOpens
  <2>2. QED
    BY <1>1, <2>1, Zenon
<1>5. LinkedDone(d, op) = Linked(d) /\ NamedDone(d, op) = Named(d)
  <2>1. ~ InnerIs(op, Properties \cup {"href"})
    BY <1>1, Zenon DEF Fits
  <2>2. ~ InnerIs(op, Properties) /\ ~ InnerIs(op, {"href"})
    BY <2>1 DEF InnerIs
  <2>3. QED
    BY <2>2, DoneIs
<1>6. \A k : Current(d2, op2, k) <=> k = n + 1
  BY <1>1, <1>2, OneCurrent
<1>7. n + 1 \notin Linked(d2)
  BY <1>1, LinkedIs, Zenon
<1>8. LinkedDone(d2, op2) = Linked(d2)
  BY <1>6, <1>7, Zenon DEF LinkedDone
<1>9. Is(d2, n + 1, Properties) <=> x \in Properties
  BY <1>1, <1>2, CurrentIn, Zenon
<1>10. Opened(d) \subseteq 1 .. n /\ n \in Nat /\ ASequence(d)
  BY OpenedIs DEF Adds
<1>11. Named(d) \subseteq Opened(d) /\ NamedDone(d, op) \subseteq Nat /\ IsFiniteSet(NamedDone(d, op))
  BY <1>10, DoneOpened, Zenon DEF Named
<1>12. \A k \in Named(d) : k < n + 1 /\ k # n + 1
  BY <1>10, <1>11
<1>13. NamedDone(d2, op2) = {k \in Named(d2) : ~ (k = n + 1 /\ x \in Properties)}
  BY <1>6, <1>9, Zenon DEF NamedDone
<1> HIDE DEF n
<1>14. ASSUME InnerIs(op, {"prop"}) /\ x \notin Properties
       PROVE  Follows(NamedDone(d2, op2), NamedDone(d, op), n + 1)
  <2>1. NamedDone(d2, op2) = Named(d) \cup {n + 1}
    BY <1>4, <1>13, <1>14
  <2>2. \A k \in NamedDone(d, op) : k < n + 1
    BY <1>5, <1>12, Zenon
  <2>3. n + 1 \in Nat
    BY <1>10
  <2>4. QED
    BY <1>5, <1>11, <2>1, <2>2, <2>3, Zenon DEF Follows
<1>15. ASSUME ~ (InnerIs(op, {"prop"}) /\ x \notin Properties)
       PROVE  NamedDone(d2, op2) = NamedDone(d, op)
  <2>1. NamedDone(d2, op2) = Named(d)
    BY <1>4, <1>12, <1>13, <1>15
  <2>2. QED
    BY <1>5, <2>1, Zenon
<1>16. \A k \in NamedDone(d, op) : SameEntry(d2, d, k)
  <2> TAKE k \in NamedDone(d, op)
  <2>1. k \in Opened(d) /\ OwnText(d2, k) = OwnText(d, k)
    BY <1>3, <1>5, <1>11, Zenon
  <2>2. QED
    BY <2>1, SameEntries
<1>17. d2[n + 1][2] = x /\ d2[1] = d[1]
  <2>1. 1 \in 1 .. Len(d)
    <3>1. Len(d) # 0
      BY NestedLen
    <3>2. QED
      BY <1>10, <3>1 DEF n
  <2>2. QED
    BY <2>1, DocGrows DEF n
<1>18. QED
  BY <1>3, <1>5, <1>8, <1>14, <1>15, <1>16, <1>17, Zenon DEF n

(* The innermost element is closed.                                        *)
Pops(op2, op) ==
    ASequence(op2) /\ Len(op) = Len(op2) + 1 /\ \A i \in 1 .. Len(op2) : op2[i] = op[i]

LEMMA DocCloses ==
  ASSUME NEW d, NEW op, Nested(d, op), op # <<>>, Texts(d), NEW d2, NEW x,
         Adds(d2, d, "close", x), NEW op2, Pops(op2, op), Proper(d2)
  PROVE  /\ Proper(d) /\ Fits(op) /\ Nested(d2, op2) /\ Texts(d2)
         /\ (op2 = <<>> <=> Len(op) = 1)
         /\ \A N : InnerIs(op2, N) <=> OuterIs(op, N)
         /\ ~ OuterIs(op2, {"prop"})
         /\ ~ InnerIs(op2, Properties) /\ ~ InnerIs(op2, {"href"})
         /\ LeafLast(d2, op2) /\ ~ Recording(op2)
<1> DEFINE n == Len(d)
<1>1. /\ ASequence(op2) /\ Len(op) = Len(op2) + 1 /\ \A i \in 1 .. Len(op2) : op2[i] = op[i]
  BY Zenon DEF Pops
<1>2. /\ Len(d) \in Nat /\ Len(op) \in Nat /\ d # <<>> /\ Len(op2) \in Nat
      /\ (op2 = <<>> <=> Len(op2) = 0) /\ Depth(d, n) = Len(op)
  <2>1. Len(op2) \in Nat
    BY <1>1, Length DEF ASequence
  <2>2. op2 = <<>> <=> Len(op2) = 0
    BY <1>1, EmptyIs
  <2>3. QED
    BY <2>1, <2>2, NestedLen, Zenon DEF Nested
<1>3. Proper(d)
  BY <1>2, ProperGrows
<1>4. PICK b : Current(d, op, b)
  BY CurrentIs
<1>5. Fits(op)
  BY <1>3, <1>4, ProperFits
<1>6. Nested(d2, op2)
  <2>1. Depth(d2, n + 1) = Len(op2)
    BY <1>1, <1>2, DepthGrows
  <2>2. Len(op2) <= Len(op) /\ "close" # "open"
    BY <1>1, <1>2
  <2>3. QED
    BY <1>1, <1>2, <2>1, <2>2, NestedKept
<1>7. Texts(d2)
  BY TextsGrow
<1>8. op2 = <<>> <=> Len(op) = 1
  BY <1>1, <1>2
<1>9. \A N : (InnerIs(op2, N) <=> OuterIs(op, N)) 
             /\ (OuterIs(op2, N) <=> Len(op) > 2 /\ op[Len(op) - 2] \in N)
  <2>1. /\ Len(op) > 1 => Len(op2) \in 1 .. Len(op2) /\ Len(op2) = Len(op) - 1
        /\ Len(op) > 1 <=> Len(op2) # 0
        /\ Len(op2) > 1 => Len(op2) - 1 \in 1 .. Len(op2) /\ Len(op2) - 1 = Len(op) - 2
        /\ Len(op) > 2 <=> Len(op2) > 1
    BY <1>1, <1>2
  <2>2. /\ Len(op) > 1 => op2[Len(op2)] = op[Len(op) - 1]
        /\ Len(op2) > 1 => op2[Len(op2) - 1] = op[Len(op) - 2]
    BY <1>1, <2>1, Zenon
  <2>3. QED
    BY <1>2, <2>1, <2>2, Zenon DEF InnerIs, OuterIs
<1>10. ~ OuterIs(op2, {"prop"})
  <2>1. Len(op) > 2 => op[Len(op) - 2] \notin {"prop"}
    BY <1>5 DEF Fits
  <2>2. QED
    BY <1>9, <2>1, Zenon
<1>11. ~ InnerIs(op2, Properties \cup {"href"})
  BY <1>5, <1>9, Zenon DEF Fits
<1>12. ~ InnerIs(op2, Properties) /\ ~ InnerIs(op2, {"href"})
  BY <1>11 DEF InnerIs
<1>13. LeafLast(d2, op2) /\ ~ Recording(op2)
  BY <1>11, <1>12, Zenon DEF LeafLast, Recording
<1>14. QED
  BY <1>3, <1>5, <1>6, <1>7, <1>8, <1>9, <1>10, <1>12, <1>13, Zenon

LEMMA ListsClose ==
  ASSUME NEW d, NEW op, Nested(d, op), op # <<>>, Texts(d), LeafLast(d, op), NEW d2, NEW x,
         Adds(d2, d, "close", x), NEW op2, Pops(op2, op), Proper(d2),
         NEW b, Current(d, op, b)
  PROVE  /\ \A k : OwnText(d2, k) = OwnText(d, k)
         /\ IF InnerIs(op, {"href"}) /\ ~ OuterIs(op, {"prop"}) /\ OwnText(d, b) # <<>>
            THEN Follows(LinkedDone(d2, op2), LinkedDone(d, op), b)
            ELSE LinkedDone(d2, op2) = LinkedDone(d, op)
         /\ IF InnerIs(op, Properties) /\ OuterIs(op, {"prop"})
            THEN Follows(NamedDone(d2, op2), NamedDone(d, op), b)
            ELSE NamedDone(d2, op2) = NamedDone(d, op)
         /\ \A k \in Opened(d) : SameEntry(d2, d, k)
         /\ \A N : Is(d2, b, N) <=> InnerIs(op, N)
         /\ d2[1] = d[1] /\ d2[b] = d[b]
<1>1. /\ Proper(d) /\ Nested(d2, op2)
      /\ ~ InnerIs(op2, Properties) /\ ~ InnerIs(op2, {"href"})
  BY DocCloses
<1>2. /\ b \in Opened(d) /\ \A N : Is(d, b, N) <=> InnerIs(op, N)
      /\ \A N : In(d, b, N) <=> OuterIs(op, N)
  BY CurrentIn
<1>3. Linked(d2) = Linked(d) /\ \A k : OwnText(d2, k) = OwnText(d, k)
  <2>1. "close" # "text" /\ "close" # "open"
    OBVIOUS
  <2>2. QED
    BY <2>1, LinkedKept
<1>4. Named(d2) = Named(d)
  <2>1. "close" # "open"
    OBVIOUS
  <2>2. QED
    BY <2>1, NamedKept
<1>5. LinkedDone(d2, op2) = Linked(d) /\ NamedDone(d2, op2) = Named(d)
  BY <1>1, <1>3, <1>4, DoneIs, Zenon
<1>6. \A k : Current(d, op, k) <=> k = b
  BY OneCurrent
<1>7. /\ LinkedDone(d, op) = {k \in Linked(d) : k # b}
      /\ NamedDone(d, op) = {k \in Named(d) : ~ (k = b /\ InnerIs(op, Properties))}
  BY <1>2, <1>6, Zenon DEF LinkedDone, NamedDone
<1>8. /\ b \in Linked(d) <=>
           InnerIs(op, {"href"}) /\ ~ OuterIs(op, {"prop"}) /\ OwnText(d, b) # <<>>
      /\ b \in Named(d) <=> OuterIs(op, {"prop"})
  BY <1>2, Zenon DEF Linked, Named
<1>9. /\ LinkedDone(d, op) \subseteq Opened(d) /\ NamedDone(d, op) \subseteq Opened(d)
      /\ LinkedDone(d, op) \subseteq Nat /\ NamedDone(d, op) \subseteq Nat
      /\ IsFiniteSet(LinkedDone(d, op)) /\ IsFiniteSet(NamedDone(d, op))
      /\ Opened(d) \subseteq Nat
  <2>1. ASequence(d)
    BY Zenon DEF Adds
  <2>2. QED
    BY <2>1, DoneOpened, OpenedIs, Zenon
<1>10. ASSUME InnerIs(op, Properties \cup {"href"})
       PROVE  \A k \in Opened(d) : k # b => k < b
  <2>1. \A k \in Opened(d) : k <= b
    BY <1>10, Zenon DEF LeafLast
  <2>2. \A i, j \in Nat : i <= j /\ i # j => i < j
    OBVIOUS
  <2>3. QED
    BY <1>2, <1>9, <2>1, <2>2, Zenon
<1>11. ASSUME b \in Linked(d) PROVE Follows(Linked(d), LinkedDone(d, op), b)
  <2>1. InnerIs(op, Properties \cup {"href"})
    BY <1>8, <1>11 DEF InnerIs
  <2>2. \A k \in LinkedDone(d, op) : k < b
    BY <1>7, <1>9, <1>10, <2>1, Zenon
  <2>3. Linked(d) = LinkedDone(d, op) \cup {b}
    BY <1>7, <1>11, Zenon
  <2>4. QED
    BY <1>2, <1>9, <2>2, <2>3, Zenon DEF Follows
<1>12. ASSUME b \notin Linked(d) PROVE Linked(d) = LinkedDone(d, op)
  BY <1>7, <1>12, Zenon
<1>13. ASSUME InnerIs(op, Properties), b \in Named(d)
       PROVE  Follows(Named(d), NamedDone(d, op), b)
  <2>1. InnerIs(op, Properties \cup {"href"})
    BY <1>13 DEF InnerIs
  <2>2. \A k \in NamedDone(d, op) : k < b
    BY <1>7, <1>9, <1>10, <1>13, <2>1, Zenon
  <2>3. Named(d) = NamedDone(d, op) \cup {b}
    BY <1>7, <1>13, Zenon
  <2>4. QED
    BY <1>2, <1>9, <2>2, <2>3, Zenon DEF Follows
<1>14. ASSUME ~ (InnerIs(op, Properties) /\ b \in Named(d))
       PROVE  Named(d) = NamedDone(d, op)
  BY <1>7, <1>14, Zenon
<1>15. \A k \in Opened(d) : SameEntry(d2, d, k)
  <2> TAKE k \in Opened(d)
  <2>1. OwnText(d2, k) = OwnText(d, k)
    BY <1>3, Zenon
  <2>2. QED
    BY <2>1, SameEntries
<1>16. d2[1] = d[1] /\ d2[b] = d[b]
  BY <1>2, <1>15, Zenon DEF SameEntry
<1>17. \A N : Is(d2, b, N) <=> InnerIs(op, N)
  BY <1>2, <1>16, Zenon DEF Is
<1>18. IF InnerIs(op, {"href"}) /\ ~ OuterIs(op, {"prop"}) /\ OwnText(d, b) # <<>>
       THEN Follows(LinkedDone(d2, op2), LinkedDone(d, op), b)
       ELSE LinkedDone(d2, op2) = LinkedDone(d, op)
  BY <1>5, <1>8, <1>11, <1>12, Zenon
<1>19. IF InnerIs(op, Properties) /\ OuterIs(op, {"prop"})
       THEN Follows(NamedDone(d2, op2), NamedDone(d, op), b)
       ELSE NamedDone(d2, op2) = NamedDone(d, op)
  BY <1>5, <1>8, <1>13, <1>14, Zenon
<1>20. QED
  BY <1>3, <1>15, <1>16, <1>17, <1>18, <1>19, Zenon

(* A text is read.                                                         *)
LEMMA ListsText ==
  ASSUME NEW d, NEW op, Nested(d, op), op # <<>>, Texts(d), LeafLast(d, op), NEW d2, NEW x,
         Adds(d2, d, "text", x), x \in Seq(STRING), Proper(d2), NEW b, Current(d, op, b)
  PROVE  /\ Proper(d) /\ Fits(op) /\ Nested(d2, op) /\ Texts(d2)
         /\ Current(d2, op, b) /\ LeafLast(d2, op)
         /\ OwnText(d2, b) = OwnText(d, b) \o x /\ OwnText(d, b) \in Seq(STRING)
         /\ \A k : k # b => OwnText(d2, k) = OwnText(d, k)
         /\ LinkedDone(d2, op) = LinkedDone(d, op) /\ b \notin LinkedDone(d, op)
         /\ NamedDone(d2, op) = NamedDone(d, op)
         /\ \A k \in NamedDone(d, op) : SameEntry(d2, d, k)
         /\ d2[1] = d[1]
<1>1. /\ Len(d) \in Nat /\ Len(op) \in Nat /\ d # <<>> /\ ASequence(op) /\ ASequence(d)
      /\ Depth(d, Len(d)) = Len(op)
  BY NestedLen, Zenon DEF Nested
<1>2. Proper(d)
  BY <1>1, ProperGrows
<1>3. Fits(op)
  BY <1>2, ProperFits
<1>4. "text" # "open" /\ "text" # "close"
  OBVIOUS
<1>5. /\ Nested(d2, op)
      /\ \A i \in 1 .. Len(op) : \A c : OpenerIs(d, op, i, c) <=> OpenerIs(d2, op, i, c)
  <2>1. Depth(d2, Len(d) + 1) = Len(op) /\ Len(op) <= Len(op)
    BY <1>1, DepthGrows
  <2>2. QED
    BY <1>1, <1>4, <2>1, NestedKept
<1>6. \A k : Current(d2, op, k) <=> Current(d, op, k)
  <2>1. Len(op) \in 1 .. Len(op)
    BY NestedLen
  <2>2. QED
    BY <1>5, <2>1, Zenon DEF Current
<1>7. Texts(d2)
  BY TextsGrow
<1>8. \A k : Current(d, op, k) <=> k = b
  BY OneCurrent
<1>9. Opened(d2) = Opened(d) /\ Named(d2) = Named(d)
  BY <1>4, OpenedGrows, NamedKept
<1>10. LeafLast(d2, op)
  BY <1>6, <1>9, Zenon DEF LeafLast
<1>11. /\ \A k : k # b => (k \in Linked(d2) <=> k \in Linked(d))
       /\ \A k : k # b => OwnText(d2, k) = OwnText(d, k)
       /\ OwnText(d2, b) = OwnText(d, b) \o x
  BY LinkedText
<1>12. LinkedDone(d2, op) = LinkedDone(d, op) /\ b \notin LinkedDone(d, op)
  BY <1>6, <1>8, <1>11, Zenon DEF LinkedDone
<1>13. \A k \in Opened(d) : \A N : Is(d2, k, N) <=> Is(d, k, N)
  BY InStable
<1>14. Named(d) \subseteq Opened(d) /\ b \in Opened(d)
  BY CurrentIn, Zenon DEF Named
<1>15. NamedDone(d2, op) = NamedDone(d, op)
  BY <1>6, <1>9, <1>13, <1>14, Zenon DEF NamedDone
<1>16. OwnText(d, b) \in Seq(STRING)
  BY <1>1, PiecesAre
<1>17. ASSUME NEW k \in NamedDone(d, op) PROVE SameEntry(d2, d, k)
  <2>1. k \in Opened(d) /\ (k = b => ~ Is(d, k, Properties))
    BY <1>8, <1>14, Zenon DEF NamedDone
  <2>2. Is(d, k, Properties) => OwnText(d2, k) = OwnText(d, k)
    BY <1>11, <2>1, Zenon
  <2>3. QED
    BY <2>1, <2>2, SameEntries
<1>18. d2[1] = d[1]
  <2>1. 1 \in 1 .. Len(d)
    BY <1>1, EmptyIs
  <2>2. QED
    BY <2>1, DocGrows
<1>19. QED
  BY <1>2, <1>3, <1>5, <1>6, <1>7, <1>10, <1>11, <1>12, <1>15, <1>16, <1>17, <1>18, Zenon
-----------------------------------------------------------------------------
(* CaldavParser.  What the parser has when it has read a proper document.  *)

Understood ==
    /\ request = doc[1][2]
    /\ LinksOK(doc, LinkedDone(doc, open), hrefs)
    /\ GoodLinks(doc, LinkedDone(doc, open))
    /\ PropsOK(doc, NamedDone(doc, open), props)
    /\ HandlersOK(open, handlers)
    /\ BufferOK(doc, open, buffering, buf, fresh)
    /\ LeafLast(doc, open)

XmlType ==
    /\ Nested(doc, open) /\ Texts(doc) /\ ASequence(props) /\ ASequence(hrefs)
    /\ grammar \in Grammars /\ handlers \in {"parse", "prop", "none"}
    /\ doc = <<>> => /\ open = <<>> /\ handlers = "parse" /\ request = Unset
                     /\ props = <<>> /\ hrefs = <<>>

XmlInv ==
    /\ XmlType
    /\ outcome = "parsing" /\ Proper(doc) => Understood
    /\ RequestAsWritten

LEMMA ListsKept ==
  ASSUME ASequence(props), ASequence(hrefs), NEW e,
         \/ parseopen(e) \/ propopen(e) \/ parseclose(e) \/ propclose(e)
         \/ parsebuffer(e) \/ Nothing
  PROVE  ASequence(props)' /\ ASequence(hrefs)'
<1> DEFINE Same == props' = props /\ hrefs' = hrefs
           More1 == hrefs' = hrefs /\ \E x : Grows(props', props, x)
           More2 == props' = props /\ \E x : Grows(hrefs', hrefs, x)
<1>1. UNCHANGED parsed => Same
  BY DEF parsed
<1>2. Nothing => Same
  BY <1>1, Zenon DEF Nothing
<1>3. ASSUME NEW key, propadd(key) PROVE Same \/ More1
  <2>1. CASE request = Unset
    BY <1>1, <1>3, <2>1, Zenon DEF propadd
  <2>2. CASE request # Unset
    BY <1>3, <2>2, Zenon DEF propadd, Grows
  <2>3. QED
    BY <2>1, <2>2
<1>4. close_href => Same \/ More2
  <2> SUFFICES ASSUME close_href PROVE Same \/ More2
    OBVIOUS
  <2>1. CASE fresh
    BY <1>2, <2>1, Zenon DEF close_href
  <2>2. CASE ~ fresh /\ request = Unset
    BY <1>1, <2>2 DEF close_href
  <2>3. CASE ~ fresh /\ request # Unset
    <3>1. hrefs' = Append(hrefs, Decoded(buf)) /\ props' = props
      BY <2>3 DEF close_href
    <3>2. QED
      BY <3>1, Zenon DEF Grows
  <2>4. QED
    BY <2>1, <2>2, <2>3
<1>5. parseopen(e) => Same
  <2>1. caldav_alloc(e) => Same
    BY <1>1 DEF caldav_alloc
  <2>2. QED
    BY <1>1, <1>2, <2>1 DEF parseopen
<1>6. propopen(e) => Same \/ More1
  BY <1>1, <1>3, Zenon DEF propopen
<1>7. parseclose(e) => Same \/ More2
  BY <1>1, <1>2, <1>4 DEF parseclose
<1>8. propclose(e) => Same \/ More1
  BY <1>1, <1>2, <1>3 DEF propclose
<1>9. parsebuffer(e) => Same
  BY <1>1, <1>2 DEF parsebuffer
<1>10. Same \/ More1 \/ More2
  BY <1>2, <1>5, <1>6, <1>7, <1>8, <1>9
<1>11. Same => ASequence(props') /\ ASequence(hrefs')
  BY Zenon
<1>12. More1 => ASequence(props') /\ ASequence(hrefs')
  BY GrownSequence, Zenon
<1>13. More2 => ASequence(props') /\ ASequence(hrefs')
  BY GrownSequence, Zenon
<1>14. QED
  BY <1>10, <1>11, <1>12, <1>13

LEMMA HandlersKept ==
  ASSUME handlers \in {"parse", "prop", "none"}, NEW e,
         \/ parseopen(e) \/ propopen(e) \/ parseclose(e) \/ propclose(e)
         \/ parsebuffer(e) \/ Nothing
  PROVE  handlers' \in {"parse", "prop", "none"}
<1> DEFINE Known == handlers' \in {"parse", "prop", "none"}
<1>1. UNCHANGED handlers => Known
  OBVIOUS
<1>2. Nothing => Known
  BY DEF Nothing
<1>3. close_href => Known
  BY <1>2 DEF close_href
<1>4. parseopen(e) => Known
  BY <1>2 DEF parseopen
<1>5. propopen(e) => Known
  BY <1>1 DEF propopen
<1>6. parseclose(e) => Known
  BY <1>2, <1>3 DEF parseclose
<1>7. propclose(e) => Known
  BY <1>1, <1>2 DEF propclose
<1>8. parsebuffer(e) => Known
  BY <1>1, <1>2 DEF parsebuffer
<1>9. QED
  BY <1>2, <1>4, <1>5, <1>6, <1>7, <1>8

LEMMA FrontPops ==
  ASSUME NEW op, ASequence(op), op # <<>>, NEW op2, op2 = Front(op)
  PROVE  Pops(op2, op) /\ Last(op) = op[Len(op)]
<1>1. \A S : \A s \in Seq(S) : s # <<>> =>
        /\ SubSeq(s, 1, Len(s) - 1) \in Seq(S)
        /\ \A i \in 1 .. Len(SubSeq(s, 1, Len(s) - 1)) : SubSeq(s, 1, Len(s) - 1)[i] = s[i]
  OBVIOUS
<1>a. \A S : \A s \in Seq(S) : s # <<>> => Len(s) = Len(SubSeq(s, 1, Len(s) - 1)) + 1
  <2> TAKE S
  <2> TAKE s \in Seq(S)
  <2> HAVE s # <<>>
  <2> DEFINE n == Len(s) - 1
  <2>1. n \in Nat /\ Len(s) = n + 1 /\ \A i \in 1 .. n : s[i] \in S
    OBVIOUS
  <2> HIDE DEF n
  <2>2. Len(SubSeq(s, 1, n)) = n
    BY <2>1
  <2>3. QED
    BY <2>1, <2>2 DEF n
<1> DEFINE S == {op[i] : i \in DOMAIN op}  t == SubSeq(op, 1, Len(op) - 1)
<1>2. op \in Seq(S) /\ op2 = t
  BY Zenon DEF ASequence, Front
<1>3. /\ t \in Seq(S) /\ Len(op) = Len(t) + 1
      /\ \A i \in 1 .. Len(t) : t[i] = op[i]
  BY <1>1, <1>a, <1>2, Zenon
<1> HIDE DEF S, t
<1>4. ASequence(op2)
  BY <1>2, <1>3, ASequenceIs
<1>5. Last(op) = op[Len(op)]
  BY Zenon DEF Last
<1>6. QED
  BY <1>2, <1>3, <1>4, <1>5, Zenon DEF Pops

(* What the handlers do in the cases of a proper document.                 *)
LEMMA ParseOpens ==
  ASSUME NEW e, parseopen(e)
  PROVE  /\ e \in Requests => caldav_alloc(e) /\ UNCHANGED <<handlers, buffering, buf, fresh>>
         /\ e = "href" => Buffer /\ UNCHANGED <<handlers, buf, parsed, outcome>>
         /\ e = "prop" => /\ handlers' = "prop"
                          /\ UNCHANGED <<buffering, buf, fresh, parsed, outcome>>
         /\ e \notin Requests \cup {"href", "prop"} => Nothing
<1>1. e \in Requests => e # "href" /\ e # "prop"
  BY DEF Requests
<1>2. "href" # "prop"
  OBVIOUS
<1>3. CASE e \in Requests
  <2>1. e # "href" /\ e # "prop"
    BY <1>1, <1>3
  <2>2. caldav_alloc(e) /\ UNCHANGED <<handlers, buffering, buf, fresh>>
    BY <1>3, <2>1, Zenon DEF parseopen
  <2>3. QED
    BY <1>3, <2>1, <2>2, Zenon
<1>4. CASE e \notin Requests /\ e = "href"
  <2>1. Buffer /\ UNCHANGED <<handlers, buf, parsed, outcome>>
    BY <1>2, <1>4, Zenon DEF parseopen
  <2>2. QED
    BY <1>2, <1>4, <2>1
<1>5. CASE e \notin Requests /\ e = "prop"
  <2>1. handlers' = "prop" /\ UNCHANGED <<buffering, buf, fresh, parsed, outcome>>
    BY <1>2, <1>5, Zenon DEF parseopen
  <2>2. QED
    BY <1>2, <1>5, <2>1
<1>6. CASE e \notin Requests /\ e # "href" /\ e # "prop"
  <2>1. Nothing
    BY <1>6, Zenon DEF parseopen
  <2>2. QED
    BY <1>6, <2>1
<1>7. QED
  BY <1>3, <1>4, <1>5, <1>6, Zenon

LEMMA ParseCloses ==
  ASSUME NEW e, parseclose(e)
  PROVE  /\ e \in Requests => /\ handlers' = "none" /\ buffering' = FALSE
                              /\ UNCHANGED <<buf, fresh, parsed, outcome>>
         /\ e = "href" => close_href
         /\ e \notin Requests \cup {"href"} => Nothing
<1>1. e \in Requests => e # "href"
  BY DEF Requests
<1>2. CASE e \in Requests
  <2>1. e # "href"
    BY <1>1, <1>2
  <2>2. handlers' = "none" /\ buffering' = FALSE /\ UNCHANGED <<buf, fresh, parsed, outcome>>
    BY <1>2, <2>1, Zenon DEF parseclose
  <2>3. QED
    BY <1>2, <2>1, <2>2, Zenon
<1>3. CASE e \notin Requests /\ e = "href"
  <2>1. close_href
    BY <1>3, Zenon DEF parseclose
  <2>2. QED
    BY <1>3, <2>1
<1>4. CASE e \notin Requests /\ e # "href"
  <2>1. Nothing
    BY <1>4, Zenon DEF parseclose
  <2>2. QED
    BY <1>4, <2>1
<1>5. QED
  BY <1>2, <1>3, <1>4, Zenon

LEMMA PropCloses ==
  ASSUME NEW e, propclose(e)
  PROVE  /\ e = "prop" => /\ handlers' = "parse"
                          /\ UNCHANGED <<buffering, buf, fresh, parsed, outcome>>
         /\ e \in Properties => propadd(e) /\ buffering' = FALSE /\ UNCHANGED <<handlers, buf, fresh>>
         /\ e \notin Properties \cup {"prop"} => Nothing
<1>1. e \in Properties => e # "prop"
  BY DEF Properties
<1>2. CASE e \in Properties
  <2>1. e # "prop"
    BY <1>1, <1>2
  <2>2. propadd(e) /\ buffering' = FALSE /\ UNCHANGED <<handlers, buf, fresh>>
    BY <1>2, <2>1, Zenon DEF propclose
  <2>3. QED
    BY <1>2, <2>1, <2>2, Zenon
<1>3. CASE e \notin Properties /\ e = "prop"
  <2>1. handlers' = "parse" /\ UNCHANGED <<buffering, buf, fresh, parsed, outcome>>
    BY <1>3, Zenon DEF propclose
  <2>2. QED
    BY <1>3, <2>1
<1>4. CASE e \notin Properties /\ e # "prop"
  <2>1. Nothing
    BY <1>4, Zenon DEF propclose
  <2>2. QED
    BY <1>4, <2>1
<1>5. QED
  BY <1>2, <1>3, <1>4, Zenon

LEMMA RootUnderstood ==
  ASSUME XmlInv, outcome = "parsing", open = <<>>, doc = <<>>,
         NEW e, Adds(doc', doc, "open", e), Grows(open', open, e), parseopen(e), Proper(doc')
  PROVE  outcome' = "parsing" /\ Understood'
<1>1. request = Unset /\ props = <<>> /\ hrefs = <<>> /\ handlers = "parse"
  BY Zenon DEF XmlInv, XmlType
<1>2. Len(doc) = 0 /\ Len(open) = 0 /\ ASequence(open)
  <2>1. ASequence(open)
    BY Zenon DEF XmlInv, XmlType, Nested
  <2>2. Len(doc) = 0 /\ Len(open) = 0
    OBVIOUS
  <2>3. QED
    BY <2>1, <2>2
<1>3. doc'[1][1] = "open" /\ doc'[1][2] = e /\ Opened(doc') = {1}
  <2>1. doc'[Len(doc) + 1][1] = "open" /\ doc'[Len(doc) + 1][2] = e
    BY DocGrows
  <2>2. Opened(doc') = Opened(doc) \cup {Len(doc) + 1}
    BY OpenedGrows
  <2>3. Opened(doc) = {}
    BY DEF Opened
  <2>4. QED
    BY <1>2, <2>1, <2>2, <2>3
<1>4. Len(open') = 1 /\ open'[1] = e
  <2>1. Len(open') = Len(open) + 1 /\ open'[Len(open) + 1] = e
    BY <1>2, GrownSequence
  <2>2. QED
    BY <1>2, <2>1
<1>5. e \in Requests
  BY <1>3, Zenon DEF Proper, Is
<1>6. e # "href" /\ e # "prop" /\ e \notin Properties
  BY <1>5 DEF Requests, Properties
<1>7. caldav_alloc(e) /\ UNCHANGED <<handlers, buffering, buf, fresh>>
  BY <1>5, ParseOpens, Zenon
<1>8. request' = e /\ props' = <<>> /\ hrefs' = <<>> /\ outcome' = "parsing" /\ handlers' = "parse"
  BY <1>1, <1>7 DEF caldav_alloc
<1>9. \A N : ~ In(doc', 1, N)
  BY DEF In
<1>10. Named(doc') = {} /\ Linked(doc') = {}
  <2>1. ~ Is(doc', 1, {"href"})
    BY <1>3, <1>6 DEF Is
  <2>2. \A k \in Opened(doc') : k = 1
    BY <1>3
  <2>3. QED
    BY <1>9, <2>1, <2>2, LinkedIs, Zenon DEF Named
<1>11. NamedDone(doc', open') = {} /\ LinkedDone(doc', open') = {}
  BY <1>10, Zenon DEF NamedDone, LinkedDone
<1>12. Len(<<>>) = 0 /\ Cardinality({}) = 0
  BY FS_EmptySet
<1>13. /\ LinksOK(doc', LinkedDone(doc', open'), hrefs')
       /\ GoodLinks(doc', LinkedDone(doc', open'))
       /\ PropsOK(doc', NamedDone(doc', open'), props')
  BY <1>8, <1>11, <1>12, Zenon DEF LinksOK, GoodLinks, PropsOK
<1>14. ~ InnerIs(open', {"prop"}) /\ ~ InnerIs(open', {"href"}) /\ ~ InnerIs(open', Properties)
  BY <1>4, <1>6 DEF InnerIs
<1>15. \A N : ~ OuterIs(open', N)
  BY <1>4 DEF OuterIs
<1>16. ~ InnerIs(open', Properties \cup {"href"})
  BY <1>14 DEF InnerIs
<1>17. HandlersOK(open', handlers')
  BY <1>8, <1>14, <1>15, Zenon DEF HandlersOK
<1>18. BufferOK(doc', open', buffering', buf', fresh') /\ LeafLast(doc', open')
  BY <1>14, <1>16, Zenon DEF BufferOK, LeafLast, Recording
<1>19. request' = doc'[1][2]
  BY <1>3, <1>8
<1>20. QED
  BY <1>8, <1>13, <1>17, <1>18, <1>19, Zenon DEF Understood

(* An element opened inside another: the property being read, the href, or *)
(* one that stands for nothing (yet).                                      *)
LEMMA InsideUnderstood ==
  ASSUME XmlInv, outcome = "parsing", open # <<>>,
         NEW e, Adds(doc', doc, "open", e), Grows(open', open, e), Proper(doc'),
         CASE handlers = "parse" -> parseopen(e)
           [] handlers = "prop"  -> propopen(e)
           [] handlers = "none"  -> Nothing
  PROVE  outcome' = "parsing" /\ Understood'
<1> DEFINE n == Len(doc)
<1>1. Nested(doc, open) /\ Texts(doc) /\ ASequence(props) /\ ASequence(doc)
  BY Zenon DEF XmlInv, XmlType, Nested
<1>2. /\ Proper(doc) /\ Fits(open) /\ Fits(open')
      /\ Current(doc', open', n + 1) /\ OwnText(doc', n + 1) = <<>>
      /\ \A N : (InnerIs(open', N) <=> e \in N) /\ (OuterIs(open', N) <=> InnerIs(open, N))
      /\ LeafLast(doc', open')
  BY <1>1, DocOpens
<1>3. /\ LinkedDone(doc', open') = LinkedDone(doc, open)
      /\ \A b : OwnText(doc', b) = OwnText(doc, b)
      /\ IF InnerIs(open, {"prop"}) /\ e \notin Properties
         THEN Follows(NamedDone(doc', open'), NamedDone(doc, open), n + 1)
         ELSE NamedDone(doc', open') = NamedDone(doc, open)
      /\ \A k \in NamedDone(doc, open) : SameEntry(doc', doc, k)
      /\ doc'[n + 1][2] = e /\ doc'[1] = doc[1]
  BY <1>1, ListsOpen
<1>4. Nested(doc', open') /\ Len(open') > 1 /\ \A N : Is(doc', n + 1, N) <=> InnerIs(open', N)
  <2>1. Nested(doc', open') /\ Len(open') = Len(open) + 1
    BY <1>1, NestedOpens
  <2>2. Len(open) \in Nat /\ Len(open) # 0
    BY <1>1, NestedLen
  <2>3. \A N : Is(doc', n + 1, N) <=> InnerIs(open', N)
    BY <1>2, <2>1, CurrentIn
  <2>4. QED
    BY <2>1, <2>2, <2>3
<1> HIDE DEF n
<1>5. Understood
  BY <1>2, Zenon DEF XmlInv
<1>6. /\ request = doc[1][2]
      /\ LinksOK(doc, LinkedDone(doc, open), hrefs)
      /\ GoodLinks(doc, LinkedDone(doc, open))
      /\ PropsOK(doc, NamedDone(doc, open), props)
      /\ HandlersOK(open, handlers)
  BY <1>5, Zenon DEF Understood
<1>7. LinksOK(doc', LinkedDone(doc', open'), hrefs)
  BY <1>3, <1>6, LinksKept, Zenon
<1>8. GoodLinks(doc', LinkedDone(doc', open'))
  BY <1>3, <1>6, Zenon DEF GoodLinks
<1>9. request = doc'[1][2] /\ request # Unset
  <2>1. request \in Requests
    BY <1>2, <1>6, Zenon DEF Proper, Is
  <2>2. QED
    BY <1>3, <1>6, <2>1, GrammarsAssumption, Zenon
<1>10. \A b : Current(doc', open', b) => b = n + 1
  BY <1>2, <1>4, OneCurrent
<1>11. ~ OuterIs(open, {"prop"})
  <2>1. Len(open') = Len(open) + 1 /\ \A i \in 1 .. Len(open) : open'[i] = open[i]
    BY <1>1, NestedOpens
  <2>2. Len(open) \in Nat
    BY <1>1, NestedLen
  <2>3. Len(open') > 2 => open'[Len(open') - 2] # "prop"
    BY <1>2, Zenon DEF Fits
  <2>4. Len(open) > 1 => /\ Len(open') > 2 /\ Len(open') - 2 = Len(open) - 1
                         /\ Len(open) - 1 \in 1 .. Len(open)
    BY <2>1, <2>2
  <2>5. Len(open) > 1 => open[Len(open) - 1] # "prop"
    BY <2>1, <2>3, <2>4, Zenon
  <2>6. QED
    BY <2>5 DEF OuterIs
<1>12. handlers = IF InnerIs(open, {"prop"}) THEN "prop" ELSE "parse"
  BY <1>6, <1>11, Zenon DEF HandlersOK
<1>13. \A y : e \in {y} <=> e = y
  OBVIOUS
<1>14. ASSUME buffering' = TRUE, fresh' = TRUE
       PROVE  BufferOK(doc', open', buffering', buf', fresh')
  BY <1>2, <1>10, <1>14, Zenon DEF BufferOK
<1>15. ASSUME ~ Recording(open')
       PROVE  BufferOK(doc', open', buffering', buf', fresh')
  BY <1>15, Zenon DEF BufferOK
<1>16. Recording(open') <=> \/ e \in Properties /\ InnerIs(open, {"prop"})
                            \/ e = "href" /\ ~ InnerIs(open, {"prop"})
  BY <1>2, <1>13, Zenon DEF Recording
<1>17. ASSUME NamedDone(doc', open') = NamedDone(doc, open)
       PROVE  PropsOK(doc', NamedDone(doc', open'), props)
  BY <1>3, <1>6, <1>17, PropsKept, Zenon
<1>18. CASE InnerIs(open, {"prop"})
  <2>1. handlers = "prop" /\ "prop" # "parse" /\ "prop" # "none"
    BY <1>12, <1>18
  <2>2. propopen(e)
    BY <2>1, Zenon
  <2>3. ASSUME handlers' = handlers PROVE HandlersOK(open', handlers')
    BY <1>2, <1>18, <2>1, <2>3, Zenon DEF HandlersOK
  <2>4. CASE e \in Properties
    <3>1. Buffer /\ UNCHANGED <<handlers, buf, parsed, outcome>>
      BY <2>2, <2>4, Zenon DEF propopen
    <3>2. /\ buffering' = TRUE /\ fresh' = TRUE /\ handlers' = handlers /\ outcome' = "parsing"
          /\ request' = request /\ props' = props /\ hrefs' = hrefs
      BY <3>1 DEF Buffer, parsed
    <3>3. NamedDone(doc', open') = NamedDone(doc, open)
      BY <1>3, <2>4, Zenon
    <3>4. QED
      BY <1>2, <1>7, <1>8, <1>9, <1>14, <1>17, <2>3, <3>2, <3>3, Zenon DEF Understood
  <2>5. CASE e \notin Properties
    <3>1. propadd(CALPROP__MAX) /\ UNCHANGED <<handlers, buffering, buf, fresh>>
      BY <2>2, <2>5, Zenon DEF propopen
    <3> DEFINE entry == <<CALPROP__MAX, Unset, 0>>
    <3>2. /\ Grows(props', props, entry) /\ handlers' = handlers /\ outcome' = "parsing"
          /\ request' = request /\ hrefs' = hrefs
      BY <1>9, <3>1 DEF propadd, Grows
    <3>3. AsNamed(doc', n + 1, entry)
      <4>1. ~ Is(doc', n + 1, Properties)
        BY <1>2, <1>4, <2>5, Zenon
      <4>2. entry[1] = CALPROP__MAX /\ entry[2] = Unset
        OBVIOUS
      <4> HIDE DEF entry
      <4>3. QED
        BY <4>1, <4>2, Zenon DEF AsNamed, Sets
    <3> HIDE DEF entry
    <3>4. Follows(NamedDone(doc', open'), NamedDone(doc, open), n + 1)
      BY <1>3, <1>18, <2>5, Zenon
    <3>5. PropsOK(doc', NamedDone(doc', open'), props')
      BY <1>1, <1>3, <1>6, <3>2, <3>3, <3>4, PropsGrow
    <3>6. ~ Recording(open')
      BY <1>16, <1>18, <2>5, Zenon
    <3>7. QED
      BY <1>2, <1>7, <1>8, <1>9, <1>15, <2>3, <3>2, <3>5, <3>6, Zenon DEF Understood
  <2>6. QED
    BY <2>4, <2>5
<1>19. CASE ~ InnerIs(open, {"prop"})
  <2>1. handlers = "parse"
    BY <1>12, <1>19, Zenon
  <2>2. parseopen(e)
    BY <2>1
  <2>3. ~ OuterIs(open', {"prop"})
    BY <1>2, <1>19, Zenon
  <2>4. NamedDone(doc', open') = NamedDone(doc, open)
    BY <1>3, <1>19, Zenon
  <2>5. e \notin Requests
    BY <1>2, <1>4, Zenon DEF Fits
  <2>6. ASSUME handlers' = handlers, e # "prop" PROVE HandlersOK(open', handlers')
    BY <1>2, <1>13, <2>1, <2>3, <2>6, Zenon DEF HandlersOK
  <2>7. CASE e = "href"
    <3>1. Buffer /\ UNCHANGED <<handlers, buf, parsed, outcome>>
      BY <2>2, <2>7, ParseOpens, Zenon
    <3>2. /\ buffering' = TRUE /\ fresh' = TRUE /\ handlers' = handlers /\ outcome' = "parsing"
          /\ request' = request /\ props' = props /\ hrefs' = hrefs
      BY <3>1 DEF Buffer, parsed
    <3>3. e # "prop"
      BY <2>7
    <3>4. QED
      BY <1>2, <1>7, <1>8, <1>9, <1>14, <1>17, <2>4, <2>6, <3>2, <3>3, Zenon DEF Understood
  <2>8. CASE e = "prop"
    <3>1. handlers' = "prop" /\ UNCHANGED <<buffering, buf, fresh, parsed, outcome>>
      BY <2>2, <2>8, ParseOpens, Zenon
    <3>2. /\ outcome' = "parsing"
          /\ request' = request /\ props' = props /\ hrefs' = hrefs
      BY <3>1 DEF parsed
    <3>3. ~ Recording(open')
      <4>1. e # "href"
        BY <2>8
      <4>2. QED
        BY <1>16, <1>19, <4>1, Zenon
    <3>4. HandlersOK(open', handlers')
      BY <1>2, <1>13, <2>8, <3>1, Zenon DEF HandlersOK
    <3>5. QED
      BY <1>2, <1>7, <1>8, <1>9, <1>15, <1>17, <2>4, <3>2, <3>3, <3>4, Zenon DEF Understood
  <2>9. CASE e # "href" /\ e # "prop"
    <3>1. Nothing
      <4>1. e \notin Requests \cup {"href", "prop"}
        BY <2>5, <2>9
      <4>2. QED
        BY <2>2, <4>1, ParseOpens, Zenon
    <3>2. /\ handlers' = handlers /\ outcome' = "parsing"
          /\ request' = request /\ props' = props /\ hrefs' = hrefs
      BY <3>1 DEF Nothing, parsed
    <3>3. ~ Recording(open')
      BY <1>16, <1>19, <2>9, Zenon
    <3>4. QED
      BY <1>2, <1>7, <1>8, <1>9, <1>15, <1>17, <2>4, <2>6, <2>9, <3>2, <3>3, Zenon DEF Understood
  <2>10. QED
    BY <2>7, <2>8, <2>9
<1>20. QED
  BY <1>18, <1>19

(* A document goes on: what every handler keeps.                           *)
LEMMA DocType ==
  ASSUME XmlType, NEW kind, NEW e, Adds(doc', doc, kind, e), grammar' = grammar,
         kind = "text" => e \in Seq(STRING),
         Nested(doc', open'),
         \/ parseopen(e) \/ propopen(e) \/ parseclose(e) \/ propclose(e)
         \/ parsebuffer(e) \/ Nothing
  PROVE  XmlType'
<1>1. ASequence(props) /\ ASequence(hrefs) /\ Texts(doc) /\ ASequence(doc)
  BY Zenon DEF XmlType, Nested
<1>2. ASequence(props') /\ ASequence(hrefs')
  BY <1>1, ListsKept
<1>3. Texts(doc')
  BY <1>1, TextsGrow
<1>4. doc' # <<>>
  <2>1. Len(doc') = Len(doc) + 1 /\ Len(doc) \in Nat
    BY DocGrows
  <2>2. Len(doc') # 0
    BY <2>1
  <2>3. QED
    BY <2>2
<1>5. handlers' \in {"parse", "prop", "none"}
  BY HandlersKept, Zenon DEF XmlType
<1>6. QED
  BY <1>2, <1>3, <1>4, <1>5, Zenon DEF XmlType

LEMMA OpenKeeps ==
  ASSUME XmlInv, OpenElement
  PROVE  XmlInv'
<1>1. PICK e : /\ Event("open", e) /\ open' = Append(open, e)
               /\ CASE handlers = "parse" -> parseopen(e)
                    [] handlers = "prop"  -> propopen(e)
                    [] handlers = "none"  -> Nothing
  BY Zenon DEF OpenElement
<1>2. outcome = "parsing" /\ (open = <<>> => doc = <<>>)
  BY Zenon DEF OpenElement, More
<1>3. Nested(doc, open) /\ ASequence(doc) /\ Texts(doc) /\ XmlType
  BY Zenon DEF XmlInv, XmlType, Nested
<1>4. Adds(doc', doc, "open", e) /\ Grows(open', open, e) /\ grammar' = grammar
  BY <1>1, <1>3, Zenon DEF Event, Adds, Grows
<1>5. Nested(doc', open')
  BY <1>2, <1>3, <1>4, NestedOpens
<1>6. XmlType'
  <2>a. handlers \in {"parse", "prop", "none"}
    BY <1>3, Zenon DEF XmlType
  <2>1. parseopen(e) \/ propopen(e) \/ Nothing
    BY <1>1, <2>a
  <2>2. "open" # "text"
    OBVIOUS
  <2>3. ASSUME parseopen(e) \/ propopen(e) \/ Nothing PROVE XmlType'
    BY <1>3, <1>4, <1>5, <2>2, <2>3, DocType
  <2>4. QED
    BY <2>1, <2>3
<1>7. ASSUME Proper(doc') PROVE outcome' = "parsing" /\ Understood'
  <2>1. CASE open = <<>>
    <3>1. handlers = "parse" /\ doc = <<>>
      BY <1>2, <1>3, <2>1, Zenon DEF XmlType
    <3>2. parseopen(e)
      BY <1>1, <3>1
    <3>3. QED
      BY <1>2, <1>4, <1>7, <2>1, <3>1, <3>2, RootUnderstood
  <2>2. CASE open # <<>>
    BY <1>1, <1>2, <1>4, <1>7, <2>2, InsideUnderstood
  <2>3. QED
    BY <2>1, <2>2
<1>8. RequestAsWritten'
  <2>1. "parsing" \notin {"done", "error", "crash"}
    OBVIOUS
  <2>2. QED
    BY <1>7, <2>1, Zenon DEF RequestAsWritten
<1>9. QED
  BY <1>6, <1>7, <1>8, Zenon DEF XmlInv

LEMMA TextUnderstood ==
  ASSUME XmlInv, outcome = "parsing", open # <<>>,
         NEW x \in Seq(STRING), x # <<>>, Adds(doc', doc, "text", x), open' = open,
         Proper(doc'), parsebuffer(x)
  PROVE  outcome' = "parsing" /\ Understood'
<1>1. Nested(doc, open) /\ Texts(doc) /\ ASequence(props)
  BY Zenon DEF XmlInv, XmlType
<1>2. PICK b : Current(doc, open, b)
  BY <1>1, CurrentIs
<1>3. Proper(doc)
  <2>1. doc # <<>>
    BY <1>1, NestedLen
  <2>2. QED
    BY <1>1, <2>1, ProperGrows
<1>4. /\ request = doc[1][2]
      /\ LinksOK(doc, LinkedDone(doc, open), hrefs)
      /\ GoodLinks(doc, LinkedDone(doc, open))
      /\ PropsOK(doc, NamedDone(doc, open), props)
      /\ HandlersOK(open, handlers)
      /\ BufferOK(doc, open, buffering, buf, fresh)
      /\ LeafLast(doc, open)
  BY <1>3, Zenon DEF XmlInv, Understood
<1>5. /\ Nested(doc', open) /\ Current(doc', open, b) /\ LeafLast(doc', open)
      /\ OwnText(doc', b) = OwnText(doc, b) \o x /\ OwnText(doc, b) \in Seq(STRING)
      /\ \A k : k # b => OwnText(doc', k) = OwnText(doc, k)
      /\ LinkedDone(doc', open) = LinkedDone(doc, open) /\ b \notin LinkedDone(doc, open)
      /\ NamedDone(doc', open) = NamedDone(doc, open)
      /\ \A k \in NamedDone(doc, open) : SameEntry(doc', doc, k)
      /\ doc'[1] = doc[1]
  BY <1>1, <1>2, <1>4, ListsText
<1>6. /\ request' = request /\ props' = props /\ hrefs' = hrefs /\ outcome' = "parsing"
      /\ handlers' = handlers /\ buffering' = buffering
  BY DEF parsebuffer, Nothing, parsed
<1>7. \A k \in LinkedDone(doc, open) : OwnText(doc', k) = OwnText(doc, k)
  BY <1>5, Zenon
<1>8. LinksOK(doc', LinkedDone(doc, open), hrefs)
  BY <1>4, <1>7, LinksKept
<1>9. GoodLinks(doc', LinkedDone(doc, open))
  BY <1>4, <1>7, Zenon DEF GoodLinks
<1>10. PropsOK(doc', NamedDone(doc, open), props)
  BY <1>4, <1>5, PropsKept
<1>11. BufferOK(doc', open, buffering', buf', fresh')
  <2> SUFFICES ASSUME NEW k, Current(doc', open, k), Recording(open)
               PROVE  /\ buffering' = TRUE
                      /\ OwnText(doc', k) # <<>> /\ fresh' = FALSE /\ buf' = OwnText(doc', k)
    BY Zenon DEF BufferOK
  <2>1. k = b
    BY <1>5, OneCurrent
  <2>2. /\ buffering = TRUE
        /\ IF OwnText(doc, b) = <<>> THEN fresh = TRUE
           ELSE fresh = FALSE /\ buf = OwnText(doc, b)
    BY <1>2, <1>4, Zenon DEF BufferOK
  <2>3. (buf' = IF fresh THEN x ELSE buf \o x) /\ fresh' = FALSE
    BY <2>2, Zenon DEF parsebuffer
  <2>4. \A s \in Seq(STRING) : s \o x # <<>>
    <3> TAKE s \in Seq(STRING)
    <3>1. Len(s \o x) = Len(s) + Len(x) /\ Len(x) \in Nat /\ Len(x) # 0 /\ Len(s) \in Nat
      OBVIOUS
    <3>2. Len(s \o x) # 0
      BY <3>1
    <3>3. QED
      BY <3>2
  <2>5. <<>> \o x = x
    OBVIOUS
  <2>6. buf' = OwnText(doc, b) \o x
    BY <2>2, <2>3, <2>5, Zenon
  <2>7. QED
    BY <1>5, <1>6, <2>1, <2>2, <2>3, <2>4, <2>6, Zenon
<1>12. QED
  BY <1>4, <1>5, <1>6, <1>8, <1>9, <1>10, <1>11, Zenon DEF Understood

LEMMA TextKeeps ==
  ASSUME XmlInv, Text
  PROVE  XmlInv'
<1>1. PICK x \in grammar.texts : Event("text", x) /\ parsebuffer(x)
  BY Zenon DEF Text
<1>2. outcome = "parsing" /\ (open = <<>> => doc = <<>>) /\ open' = open
  BY Zenon DEF Text, More
<1>3. Nested(doc, open) /\ ASequence(doc) /\ Texts(doc) /\ XmlType /\ grammar \in Grammars
      /\ ASequence(open)
  BY Zenon DEF XmlInv, XmlType, Nested
<1>4. x \in Seq(STRING) /\ x # <<>>
  BY <1>3, GrammarsAssumption, Zenon
<1>5. Adds(doc', doc, "text", x) /\ grammar' = grammar
  BY <1>1, <1>3, Zenon DEF Event, Adds, Grows
<1>6. Nested(doc', open')
  <2>1. "text" # "open" /\ "text" # "close"
    OBVIOUS
  <2>a. Len(open) \in Nat /\ Depth(doc, Len(doc)) = Len(open)
    BY <1>3, NestedLen, Zenon DEF Nested
  <2>2. Len(open) \in Nat /\ Len(open) <= Len(open) /\ Depth(doc, Len(doc)) = Len(open)
    BY <2>a
  <2>3. Depth(doc', Len(doc) + 1) = Len(open)
    BY <1>5, <2>1, <2>2, DepthGrows
  <2>4. Nested(doc', open)
    BY <1>2, <1>3, <1>5, <2>1, <2>2, <2>3, NestedKept
  <2>5. QED
    BY <1>2, <2>4, Zenon
<1>7. XmlType'
  BY <1>1, <1>3, <1>4, <1>5, <1>6, DocType
<1>8. ASSUME Proper(doc') PROVE outcome' = "parsing" /\ Understood'
  <2>1. CASE open = <<>>
    <3>a. "text" # "open"
      OBVIOUS
    <3>1. Opened(doc') = Opened(doc) \cup {}
      BY <1>5, <3>a, OpenedGrows, Zenon
    <3>2. doc = <<>>
      BY <1>2, <2>1
    <3>3. 1 \notin Opened(doc')
      BY <3>1, <3>2 DEF Opened
    <3>4. QED
      BY <1>8, <3>3, Zenon DEF Proper
  <2>2. CASE open # <<>>
    BY <1>1, <1>2, <1>4, <1>5, <1>8, <2>2, TextUnderstood
  <2>3. QED
    BY <2>1, <2>2
<1>9. RequestAsWritten'
  <2>1. "parsing" \notin {"done", "error", "crash"}
    OBVIOUS
  <2>2. QED
    BY <1>8, <2>1, Zenon DEF RequestAsWritten
<1>10. QED
  BY <1>7, <1>8, <1>9, Zenon DEF XmlInv

(* The list of links grows by a href's text, which may be badly escaped.   *)
LEMMA HrefCloses ==
  ASSUME NEW b, Current(doc, open, b), OwnText(doc, b) # <<>>, Recording(open),
         BufferOK(doc, open, buffering, buf, fresh), request # Unset, outcome = "parsing",
         LinksOK(doc, LinkedDone(doc, open), hrefs), GoodLinks(doc, LinkedDone(doc, open)),
         ASequence(hrefs), \A k : OwnText(doc', k) = OwnText(doc, k),
         Follows(LinkedDone(doc', open'), LinkedDone(doc, open), b), close_href
  PROVE  /\ LinksOK(doc', LinkedDone(doc', open'), hrefs')
         /\ UNCHANGED <<handlers, request, props>>
         /\ \/ outcome' = "parsing" /\ GoodLinks(doc', LinkedDone(doc', open'))
            \/ /\ outcome' = "error"
               /\ \E k \in LinkedDone(doc', open') :
                    BadEncoding \in Range(Decoded(OwnText(doc', k)))
<1>1. fresh = FALSE /\ buf = OwnText(doc, b)
  BY Zenon DEF BufferOK
<1>2. /\ hrefs' = Append(hrefs, Decoded(buf))
      /\ outcome' = IF BadEncoding \in Range(Decoded(buf)) THEN "error" ELSE outcome
      /\ UNCHANGED <<handlers, buf, fresh, request, props>>
  BY <1>1 DEF close_href
<1>3. Grows(hrefs', hrefs, Decoded(OwnText(doc', b)))
  BY <1>1, <1>2, Zenon DEF Grows
<1>4. LinksOK(doc', LinkedDone(doc', open'), hrefs')
  BY <1>3, LinksGrow, Zenon
<1>5. LinkedDone(doc', open') = LinkedDone(doc, open) \cup {b}
  BY Zenon DEF Follows
<1>6. CASE BadEncoding \in Range(Decoded(buf))
  <2>1. outcome' = "error"
    BY <1>2, <1>6, Zenon
  <2>2. b \in LinkedDone(doc', open')
    BY <1>5
  <2>3. BadEncoding \in Range(Decoded(OwnText(doc', b)))
    BY <1>1, <1>6, Zenon
  <2>4. QED
    BY <1>2, <1>4, <2>1, <2>2, <2>3
<1>7. CASE BadEncoding \notin Range(Decoded(buf))
  <2>1. outcome' = "parsing"
    BY <1>2, <1>7, Zenon
  <2>2. \A k \in LinkedDone(doc', open') : k \in LinkedDone(doc, open) \/ k = b
    BY <1>5
  <2>3. GoodLinks(doc', LinkedDone(doc', open'))
    BY <1>1, <1>7, <2>2, Zenon DEF GoodLinks
  <2>4. QED
    BY <1>2, <1>4, <2>1, <2>3
<1>8. QED
  BY <1>6, <1>7

(* The list of properties grows by one with its text.                      *)
LEMMA PropertyCloses ==
  ASSUME NEW b, Current(doc, open, b), Recording(open), Proper(doc'),
         BufferOK(doc, open, buffering, buf, fresh), request # Unset, request = doc'[1][2],
         PropsOK(doc, NamedDone(doc, open), props), ASequence(props),
         OwnText(doc', b) = OwnText(doc, b),
         \A k \in NamedDone(doc, open) : SameEntry(doc', doc, k),
         Follows(NamedDone(doc', open'), NamedDone(doc, open), b),
         NEW x \in Properties, doc'[b][2] = x, propadd(x)
  PROVE  /\ PropsOK(doc', NamedDone(doc', open'), props')
         /\ UNCHANGED <<request, hrefs, outcome>>
<1> DEFINE entry == IF x = CALPROP__MAX \/ request # "propertyupdate" THEN <<x, Unset, 0>>
                    ELSE <<x, buf, propvalids(x, buf)>>
<1>1. Grows(props', props, entry) /\ UNCHANGED <<request, hrefs, outcome>>
  BY Zenon DEF propadd, Grows
<1>2. x # CALPROP__MAX
  BY DEF Properties, CALPROP__MAX
<1>3. OwnText(doc, b) # <<>> => buf = OwnText(doc', b)
  BY Zenon DEF BufferOK
<1>4. Is(doc', b, Properties)
  BY Zenon DEF Is
<1>5. Sets(doc', b) <=> request = "propertyupdate"
  BY <1>4 DEF Sets, Is
<1>6. AsNamed(doc', b, entry)
  <2>1. CASE request # "propertyupdate"
    <3>1. entry = <<x, Unset, 0>>
      BY <2>1, Zenon
    <3>2. entry[1] = x /\ entry[2] = Unset
      BY <3>1
    <3> HIDE DEF entry
    <3>3. QED
      BY <1>4, <1>5, <2>1, <3>2, Zenon DEF AsNamed
  <2>2. CASE request = "propertyupdate"
    <3>1. entry = <<x, buf, propvalids(x, buf)>>
      BY <1>2, <2>2, Zenon
    <3>2. entry[1] = x
      BY <3>1
    <3> HIDE DEF entry
    <3>3. OwnText(doc', b) # <<>> =>
            entry = <<doc'[b][2], OwnText(doc', b), propvalids(doc'[b][2], OwnText(doc', b))>>
      BY <1>3, <3>1, Zenon
    <3>4. QED
      BY <1>4, <1>5, <2>2, <3>2, <3>3, Zenon DEF AsNamed
  <2>3. QED
    BY <2>1, <2>2
<1> HIDE DEF entry
<1>7. PropsOK(doc', NamedDone(doc', open'), props')
  BY <1>1, <1>6, PropsGrow
<1>8. QED
  BY <1>1, <1>7

LEMMA CloseUnderstood ==
  ASSUME XmlInv, outcome = "parsing", open # <<>>, NEW x, x = open[Len(open)],
         Adds(doc', doc, "close", x), Pops(open', open), Proper(doc'),
         CASE handlers = "parse" -> parseclose(x)
           [] handlers = "prop"  -> propclose(x)
           [] handlers = "none"  -> Nothing
  PROVE  \/ outcome' = "parsing" /\ Understood'
         \/ outcome' = "error" /\ RequestAsWritten'
<1>1. Nested(doc, open) /\ Texts(doc) /\ ASequence(props) /\ ASequence(hrefs)
  BY Zenon DEF XmlInv, XmlType
<1>2. PICK b : Current(doc, open, b)
  BY <1>1, CurrentIs
<1>3. /\ Proper(doc) /\ Fits(open) /\ Nested(doc', open')
      /\ (open' = <<>> <=> Len(open) = 1)
      /\ \A N : InnerIs(open', N) <=> OuterIs(open, N)
      /\ ~ OuterIs(open', {"prop"})
      /\ ~ InnerIs(open', Properties) /\ ~ InnerIs(open', {"href"})
      /\ LeafLast(doc', open') /\ ~ Recording(open')
  BY <1>1, DocCloses
<1>4. /\ request = doc[1][2]
      /\ LinksOK(doc, LinkedDone(doc, open), hrefs)
      /\ GoodLinks(doc, LinkedDone(doc, open))
      /\ PropsOK(doc, NamedDone(doc, open), props)
      /\ HandlersOK(open, handlers)
      /\ BufferOK(doc, open, buffering, buf, fresh)
      /\ LeafLast(doc, open)
  BY <1>3, Zenon DEF XmlInv, Understood
<1>5. /\ \A k : OwnText(doc', k) = OwnText(doc, k)
      /\ IF InnerIs(open, {"href"}) /\ ~ OuterIs(open, {"prop"}) /\ OwnText(doc, b) # <<>>
         THEN Follows(LinkedDone(doc', open'), LinkedDone(doc, open), b)
         ELSE LinkedDone(doc', open') = LinkedDone(doc, open)
      /\ IF InnerIs(open, Properties) /\ OuterIs(open, {"prop"})
         THEN Follows(NamedDone(doc', open'), NamedDone(doc, open), b)
         ELSE NamedDone(doc', open') = NamedDone(doc, open)
      /\ \A k \in Opened(doc) : SameEntry(doc', doc, k)
      /\ \A N : Is(doc', b, N) <=> InnerIs(open, N)
      /\ doc'[1] = doc[1] /\ doc'[b] = doc[b]
  BY <1>1, <1>2, <1>4, ListsClose
<1>6. \A N : InnerIs(open, N) <=> x \in N
  BY Zenon DEF InnerIs
<1>7. \A y : x \in {y} <=> x = y
  OBVIOUS
<1>8. doc'[b][2] = x
  BY <1>5, <1>6, <1>7, Zenon DEF Is
<1>9. request = doc'[1][2] /\ request # Unset
  <2>1. request \in Requests
    BY <1>3, <1>4, Zenon DEF Proper, Is
  <2>2. QED
    BY <1>4, <1>5, <2>1, GrammarsAssumption, Zenon
<1>10. handlers = IF x = "prop" \/ OuterIs(open, {"prop"}) THEN "prop" ELSE "parse"
  BY <1>4, <1>6, <1>7, Zenon DEF HandlersOK
<1>11. BufferOK(doc', open', buffering', buf', fresh')
  BY <1>3, Zenon DEF BufferOK
<1>12. \A k \in NamedDone(doc, open) : SameEntry(doc', doc, k)
  <2>1. ASequence(doc)
    BY <1>1, Zenon DEF Nested
  <2>2. NamedDone(doc, open) \subseteq Opened(doc)
    BY <2>1, DoneOpened
  <2>3. QED
    BY <1>5, <2>2
<1>13. ASSUME LinkedDone(doc', open') = LinkedDone(doc, open)
       PROVE  LinksOK(doc', LinkedDone(doc', open'), hrefs)
              /\ GoodLinks(doc', LinkedDone(doc', open'))
  <2>1. LinksOK(doc', LinkedDone(doc', open'), hrefs)
    BY <1>4, <1>5, <1>13, LinksKept, Zenon
  <2>2. GoodLinks(doc', LinkedDone(doc', open'))
    BY <1>4, <1>5, <1>13, Zenon DEF GoodLinks
  <2>3. QED
    BY <2>1, <2>2
<1>14. ASSUME NamedDone(doc', open') = NamedDone(doc, open)
       PROVE  PropsOK(doc', NamedDone(doc', open'), props)
  BY <1>4, <1>12, <1>14, PropsKept, Zenon
<1>15. ASSUME OuterIs(open, {"prop"}), handlers' = "prop"
       PROVE  HandlersOK(open', handlers')
  BY <1>3, <1>15, Zenon DEF HandlersOK
<1>16. ASSUME ~ OuterIs(open, {"prop"}), handlers' = "parse"
       PROVE  HandlersOK(open', handlers')
  BY <1>3, <1>16, Zenon DEF HandlersOK
<1> DEFINE Same == /\ outcome' = "parsing"
                   /\ request' = request /\ props' = props /\ hrefs' = hrefs
<1>17. ASSUME Same, HandlersOK(open', handlers'),
              LinkedDone(doc', open') = LinkedDone(doc, open),
              NamedDone(doc', open') = NamedDone(doc, open)
       PROVE  outcome' = "parsing" /\ Understood'
  BY <1>3, <1>9, <1>11, <1>13, <1>14, <1>17, Zenon DEF Understood
<1>18. UNCHANGED <<parsed, outcome>> => Same
  BY DEF parsed
<1>19. Nothing => Same /\ handlers' = handlers
  BY DEF Nothing, parsed
<1> HIDE DEF Same
<1>20. "prop" \notin Properties /\ "href" \notin Properties /\ "prop" # "href"
  BY DEF Properties
<1>21. CASE x = "prop" \/ OuterIs(open, {"prop"})
  <2>1. handlers = "prop" /\ propclose(x)
    <3>1. handlers = "prop" /\ "prop" # "parse" /\ "prop" # "none"
      BY <1>10, <1>21
    <3>2. QED
      BY <3>1, Zenon
  <2>2. CASE x = "prop"
    <3>1. ~ OuterIs(open, {"prop"})
      BY <1>3, <1>6, <1>7, <2>2, Zenon DEF Fits
    <3>2. handlers' = "parse" /\ UNCHANGED <<parsed, outcome>>
      <4>1. handlers' = "parse" /\ UNCHANGED <<buffering, buf, fresh, parsed, outcome>>
        BY <2>1, <2>2, PropCloses, Zenon
      <4>2. QED
        BY <4>1
    <3>3. /\ LinkedDone(doc', open') = LinkedDone(doc, open)
          /\ NamedDone(doc', open') = NamedDone(doc, open)
      BY <1>5, <1>6, <1>7, <1>20, <2>2, <3>1, Zenon
    <3>4. QED
      BY <1>16, <1>17, <1>18, <3>1, <3>2, <3>3, Zenon
  <2>3. CASE x # "prop" /\ x \in Properties
    <3>1. OuterIs(open, {"prop"}) /\ Recording(open)
      BY <1>6, <1>21, <2>3, Zenon DEF Recording
    <3>2. propadd(x) /\ UNCHANGED <<handlers, buf, fresh>>
      BY <2>1, <2>3, PropCloses, Zenon
    <3>3. handlers' = "prop"
      BY <2>1, <3>2
    <3>4. Follows(NamedDone(doc', open'), NamedDone(doc, open), b)
      BY <1>5, <1>6, <2>3, <3>1, Zenon
    <3>5. /\ PropsOK(doc', NamedDone(doc', open'), props')
          /\ UNCHANGED <<request, hrefs, outcome>>
      BY <1>1, <1>2, <1>4, <1>5, <1>8, <1>9, <1>12, <2>3, <3>1, <3>2, <3>4, PropertyCloses
    <3>6. LinkedDone(doc', open') = LinkedDone(doc, open)
      BY <1>5, <3>1, Zenon
    <3>7. HandlersOK(open', handlers')
      BY <1>15, <3>1, <3>3
    <3>8. outcome' = "parsing" /\ request' = request /\ hrefs' = hrefs
      BY <3>5
    <3>9. QED
      BY <1>3, <1>9, <1>11, <1>13, <3>5, <3>6, <3>7, <3>8, Zenon DEF Understood
  <2>4. CASE x # "prop" /\ x \notin Properties
    <3>1. OuterIs(open, {"prop"})
      BY <1>21, <2>4
    <3>2. Nothing
      <4>1. x \notin Properties \cup {"prop"}
        BY <2>4
      <4>2. QED
        BY <2>1, <4>1, PropCloses, Zenon
    <3>3. /\ LinkedDone(doc', open') = LinkedDone(doc, open)
          /\ NamedDone(doc', open') = NamedDone(doc, open)
      BY <1>5, <1>6, <2>4, <3>1, Zenon
    <3>4. QED
      BY <1>15, <1>17, <1>19, <2>1, <3>1, <3>2, <3>3, Zenon
  <2>5. QED
    BY <2>2, <2>3, <2>4
<1>22. CASE x # "prop" /\ ~ OuterIs(open, {"prop"})
  <2>1. handlers = "parse"
    BY <1>10, <1>22, Zenon
  <2>2. parseclose(x)
    BY <2>1
  <2>3. NamedDone(doc', open') = NamedDone(doc, open)
    BY <1>5, <1>22, Zenon
  <2>4. CASE x \in Requests
    <3>1. x # "href"
      BY <2>4 DEF Requests
    <3>2. open' = <<>>
      <4>1. Len(open) \in Nat /\ Len(open) # 0
        BY <1>1, NestedLen
      <4>2. ~ (Len(open) > 1)
        BY <1>3, <1>6, <2>4, Zenon DEF Fits
      <4>3. Len(open) = 1
        <5>1. \A m \in Nat : m # 0 /\ ~ (m > 1) => m = 1
          OBVIOUS
        <5>2. QED
          BY <4>1, <4>2, <5>1, Zenon
      <4>4. QED
        BY <1>3, <4>3, Zenon
    <3>3. HandlersOK(open', handlers')
      BY <3>2, Zenon DEF HandlersOK
    <3>4. UNCHANGED <<parsed, outcome>>
      <4>1. /\ handlers' = "none" /\ buffering' = FALSE
            /\ UNCHANGED <<buf, fresh, parsed, outcome>>
        BY <2>2, <2>4, ParseCloses, Zenon
      <4>2. QED
        BY <4>1
    <3>5. LinkedDone(doc', open') = LinkedDone(doc, open)
      BY <1>5, <1>6, <1>7, <3>1, Zenon
    <3>6. QED
      BY <1>17, <1>18, <2>3, <3>3, <3>4, <3>5, Zenon
  <2>5. CASE x = "href"
    <3>1. close_href
      BY <2>2, <2>5, ParseCloses, Zenon
    <3>2. Recording(open) /\ InnerIs(open, {"href"})
      BY <1>6, <1>7, <1>22, <2>5, Zenon DEF Recording
    <3>3. CASE OwnText(doc, b) = <<>>
      <4>1. fresh = TRUE
        BY <1>2, <1>4, <3>2, <3>3, Zenon DEF BufferOK
      <4>2. Nothing
        BY <3>1, <4>1, Zenon DEF close_href
      <4>3. LinkedDone(doc', open') = LinkedDone(doc, open)
        BY <1>5, <3>3, Zenon
      <4>4. QED
        BY <1>16, <1>17, <1>19, <1>22, <2>1, <2>3, <4>2, <4>3, Zenon
    <3>4. CASE OwnText(doc, b) # <<>>
      <4>1. Follows(LinkedDone(doc', open'), LinkedDone(doc, open), b)
        BY <1>5, <1>22, <3>2, <3>4, Zenon
      <4>2. /\ LinksOK(doc', LinkedDone(doc', open'), hrefs')
            /\ UNCHANGED <<handlers, request, props>>
            /\ \/ outcome' = "parsing" /\ GoodLinks(doc', LinkedDone(doc', open'))
               \/ /\ outcome' = "error"
                  /\ \E k \in LinkedDone(doc', open') :
                       BadEncoding \in Range(Decoded(OwnText(doc', k)))
        BY <1>1, <1>2, <1>4, <1>5, <1>9, <3>1, <3>2, <3>4, <4>1, HrefCloses
      <4>3. request' = request /\ props' = props /\ handlers' = "parse"
        BY <2>1, <4>2
      <4>4. CASE outcome' = "parsing" /\ GoodLinks(doc', LinkedDone(doc', open'))
        BY <1>3, <1>9, <1>11, <1>14, <1>16, <1>22, <2>3, <4>2, <4>3, <4>4, Zenon
           DEF Understood
      <4>5. CASE /\ outcome' = "error"
                 /\ \E k \in LinkedDone(doc', open') :
                      BadEncoding \in Range(Decoded(OwnText(doc', k)))
        <5>1. LinkedDone(doc', open') = Linked(doc')
          BY <1>3, DoneIs
        <5>2. /\ Len(hrefs') = Cardinality(Linked(doc'))
              /\ \A k \in Linked(doc') :
                   hrefs'[Place(Linked(doc'), k)] = Decoded(OwnText(doc', k))
          BY <4>2, <5>1, Zenon DEF LinksOK
        <5>3. request' = doc'[1][2]
          BY <1>9, <4>3, Zenon
        <5>4. RequestAsWritten'
          BY <4>5, <5>1, <5>2, <5>3, Zenon DEF RequestAsWritten
        <5>5. QED
          BY <4>5, <5>4
      <4>6. QED
        BY <4>2, <4>4, <4>5
    <3>5. QED
      BY <3>3, <3>4
  <2>6. CASE x \notin Requests /\ x # "href"
    <3>1. Nothing
      <4>1. x \notin Requests \cup {"href"}
        BY <2>6
      <4>2. QED
        BY <2>2, <4>1, ParseCloses, Zenon
    <3>2. LinkedDone(doc', open') = LinkedDone(doc, open)
      BY <1>5, <1>6, <1>7, <2>6, Zenon
    <3>3. QED
      BY <1>16, <1>17, <1>19, <1>22, <2>1, <2>3, <3>1, <3>2, Zenon
  <2>7. QED
    BY <2>4, <2>5, <2>6
<1>23. QED
  BY <1>21, <1>22

LEMMA CloseKeeps ==
  ASSUME XmlInv, CloseElement
  PROVE  XmlInv'
<1> DEFINE x == Last(open)
<1>1. /\ outcome = "parsing" /\ open # <<>> /\ Event("close", x) /\ open' = Front(open)
      /\ CASE handlers = "parse" -> parseclose(x)
           [] handlers = "prop"  -> propclose(x)
           [] handlers = "none"  -> Nothing
  BY Zenon DEF CloseElement, More
<1>2. Nested(doc, open) /\ ASequence(doc) /\ ASequence(open) /\ Texts(doc) /\ XmlType
  BY Zenon DEF XmlInv, XmlType, Nested
<1>3. Pops(open', open) /\ x = open[Len(open)]
  BY <1>1, <1>2, FrontPops
<1> HIDE DEF x
<1>4. Adds(doc', doc, "close", x) /\ grammar' = grammar
  BY <1>1, <1>2, Zenon DEF Event, Adds, Grows
<1>5. Nested(doc', open')
  <2>1. /\ ASequence(open') /\ Len(open) = Len(open') + 1
        /\ \A i \in 1 .. Len(open') : open'[i] = open[i]
    BY <1>3, Zenon DEF Pops
  <2>2. Len(open') \in Nat /\ Len(open') <= Len(open) /\ "close" # "open"
    BY <2>1, Length DEF ASequence
  <2>3. Depth(doc, Len(doc)) = Len(open)
    BY <1>2, Zenon DEF Nested
  <2>4. Depth(doc', Len(doc) + 1) = Len(open')
    BY <1>4, <2>1, <2>2, <2>3, DepthGrows
  <2>5. QED
    BY <1>1, <1>2, <1>4, <2>1, <2>2, <2>4, NestedKept
<1>6. XmlType'
  <2>1. handlers \in {"parse", "prop", "none"}
    BY <1>2, Zenon DEF XmlType
  <2>2. parseclose(x) \/ propclose(x) \/ Nothing
    BY <1>1, <2>1
  <2>3. "close" # "text"
    OBVIOUS
  <2>4. QED
    BY <1>2, <1>4, <1>5, <2>2, <2>3, DocType
<1>7. ASSUME Proper(doc')
      PROVE  \/ outcome' = "parsing" /\ Understood'
             \/ outcome' = "error" /\ RequestAsWritten'
  BY <1>1, <1>3, <1>4, <1>7, CloseUnderstood
<1>8. "parsing" \notin {"done", "error", "crash"} /\ "error" # "parsing"
  OBVIOUS
<1>9. RequestAsWritten'
  BY <1>7, <1>8, Zenon DEF RequestAsWritten
<1>10. outcome' = "parsing" /\ Proper(doc') => Understood'
  BY <1>7, <1>8, Zenon
<1>11. QED
  BY <1>6, <1>9, <1>10, Zenon DEF XmlInv

(* When the document ends, no element is being read.                       *)
LEMMA XmlEndKeeps ==
  ASSUME XmlInv, XML_Parse
  PROVE  XmlInv'
<1>1. /\ outcome = "parsing"
      /\ outcome' = IF open = <<>> /\ doc # <<>> THEN "done" ELSE "malformed"
      /\ UNCHANGED <<grammar, doc, open, handlers, buffering, buf, fresh, parsed>>
  BY Zenon DEF XML_Parse
<1>2. /\ doc' = doc /\ open' = open /\ grammar' = grammar /\ handlers' = handlers
      /\ request' = request /\ props' = props /\ hrefs' = hrefs /\ outcome' # "parsing"
  BY <1>1 DEF parsed
<1>3. XmlType'
  BY <1>2, Zenon DEF XmlInv, XmlType
<1>4. RequestAsWritten'
  <2>1. "malformed" \notin {"done", "error", "crash"}
    OBVIOUS
  <2>2. SUFFICES ASSUME open = <<>>, outcome' = "done", Proper(doc)
                 PROVE  RequestAsWritten'
    BY <1>1, <1>2, <2>1, Zenon DEF RequestAsWritten
  <2>3. /\ request = doc[1][2]
        /\ LinksOK(doc, LinkedDone(doc, open), hrefs)
        /\ GoodLinks(doc, LinkedDone(doc, open))
        /\ PropsOK(doc, NamedDone(doc, open), props)
    BY <1>1, <2>2, Zenon DEF XmlInv, Understood
  <2>4. LinkedDone(doc, open) = Linked(doc) /\ NamedDone(doc, open) = Named(doc)
    BY <2>2, Zenon DEF LinkedDone, NamedDone, Current
  <2>5. /\ Len(hrefs) = Cardinality(Linked(doc)) /\ Len(props) = Cardinality(Named(doc))
        /\ \A k \in Linked(doc) : hrefs[Place(Linked(doc), k)] = Decoded(OwnText(doc, k))
        /\ \A k \in Named(doc) : AsNamed(doc, k, props[Place(Named(doc), k)])
        /\ \A k \in Linked(doc) : BadEncoding \notin Range(Decoded(OwnText(doc, k)))
    BY <2>3, <2>4, Zenon DEF LinksOK, PropsOK, GoodLinks
  <2>6. QED
    BY <1>2, <2>2, <2>3, <2>5, Zenon DEF RequestAsWritten
<1>5. QED
  BY <1>2, <1>3, <1>4, Zenon DEF XmlInv

LEMMA XmlStarts ==
  ASSUME XmlInit
  PROVE  XmlInv
<1>1. /\ grammar \in Grammars /\ doc = <<>> /\ open = <<>> /\ handlers = "parse"
      /\ request = Unset /\ props = <<>> /\ hrefs = <<>> /\ outcome = "parsing"
  BY DEF XmlInit
<1>2. ASequence(<<>>)
  <2>1. \A S : <<>> \in Seq(S)
    OBVIOUS
  <2>2. QED
    BY <2>1, Zenon DEF ASequence
<1>3. Len(<<>>) = 0 /\ (\A i : i \notin 1 .. 0 /\ i \notin 2 .. 0)
  OBVIOUS
<1>4. Depth(<<>>, 0) = 0
  <2>1. \A of : Count(<<>>, of, 0) = 0
    <3> TAKE of
    <3>1. {i \in 1 .. 0 : <<>>[i][1] = of} = {}
      BY <1>3
    <3>2. Cardinality({}) = 0
      BY FS_EmptySet
    <3>3. QED
      BY <3>1, <3>2, Zenon DEF Count
  <2>2. QED
    BY <2>1 DEF Depth
<1>5. Nested(<<>>, <<>>) /\ Texts(<<>>)
  BY <1>2, <1>3, <1>4, Zenon DEF Nested, Texts
<1>6. XmlType
  <2>1. "parse" \in {"parse", "prop", "none"}
    OBVIOUS
  <2>2. QED
    BY <1>1, <1>2, <1>5, <2>1, Zenon DEF XmlType
<1>7. ~ Proper(doc)
  <2>1. Opened(<<>>) = {}
    BY DEF Opened
  <2>2. QED
    BY <1>1, <2>1, Zenon DEF Proper
<1>8. RequestAsWritten
  BY <1>7, Zenon DEF RequestAsWritten
<1>9. QED
  BY <1>6, <1>7, <1>8, Zenon DEF XmlInv

LEMMA XmlStep ==
  ASSUME XmlInv, [XmlNext]_xmlvars
  PROVE  XmlInv'
<1>1. CASE UNCHANGED xmlvars
  <2>1. /\ grammar' = grammar /\ doc' = doc /\ open' = open /\ handlers' = handlers
        /\ buffering' = buffering /\ buf' = buf /\ fresh' = fresh
        /\ request' = request /\ props' = props /\ hrefs' = hrefs /\ outcome' = outcome
    BY <1>1 DEF xmlvars
  <2>2. XmlType'
    BY <2>1, Zenon DEF XmlInv, XmlType
  <2>3. RequestAsWritten'
    BY <2>1, Zenon DEF XmlInv, RequestAsWritten
  <2>4. outcome' = "parsing" /\ Proper(doc') => Understood'
    BY <2>1, Zenon DEF XmlInv, Understood
  <2>5. QED
    BY <2>2, <2>3, <2>4, Zenon DEF XmlInv
<1>2. QED
  BY <1>1, OpenKeeps, CloseKeeps, TextKeeps, XmlEndKeeps, Zenon DEF XmlNext

(* Whatever the document is made of, and however its text is cut: what the *)
(* parser has of a proper document that it is in the middle of is what the *)
(* document says up to there, but for the element being read, whose text   *)
(* is in the buffer (the handlers of caldav.c, caldav_parse).              *)
THEOREM XmlInvariant == XmlSpec => []XmlInv
<1>1. XmlInit => XmlInv
  BY XmlStarts
<1>2. XmlInv /\ [XmlNext]_xmlvars => XmlInv'
  BY XmlStep
<1>3. QED
  BY <1>1, <1>2, PTL DEF XmlSpec

(* caldav_parse returns of a proper document the request, the properties   *)
(* named in order, with their values if they are to be set, and the links, *)
(* decoded; and refuses one only for a badly escaped link.                 *)
THEOREM RequestAsWrittenHolds == XmlSpec => []RequestAsWritten
<1>1. XmlInv => RequestAsWritten
  BY Zenon DEF XmlInv
<1>2. QED
  BY <1>1, XmlInvariant, PTL
=============================================================================
