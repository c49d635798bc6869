----------------------------- MODULE PathsProofs -----------------------------
(***************************************************************************)
(* http_paths takes apart what propfind.c puts together: for any name of a *)
(* principal without a "/", any URL of a collection and any name of a      *)
(* resource without a "/" that http_decode leaves alone.                   *)
(***************************************************************************)
EXTENDS Paths, Integers, TLAPS

-----------------------------------------------------------------------------
(* Sequences.                                                              *)

(* Names for the ways of putting texts together, which the provers then do *)
(* not take apart.                                                         *)
Cat(s, t) == s \o t
One(x)    == <<x>>
Two(a, x) == <<a, x>>
Hd(s) == Head(s)
Tl(s) == Tail(s)
Sub(s, m, n) == SubSeq(s, m, n)
FirstAt(s, x)  == Min({i \in DOMAIN s : s[i] = x} \cup {Len(s) + 1})
LastAt(s, x)   == Max({i \in DOMAIN s : s[i] = x} \cup {0})

LEMMA Joined ==
  ASSUME NEW S, NEW s \in Seq(S), NEW t \in Seq(S)
  PROVE  /\ s \o t \in Seq(S) /\ Len(s \o t) = Len(s) + Len(t)
         /\ \A i \in 1 .. Len(s) : (s \o t)[i] = s[i]
         /\ \A i \in 1 .. Len(t) : (s \o t)[Len(s) + i] = t[i]
OBVIOUS

LEMMA SameSeq ==
  ASSUME NEW S, NEW s \in Seq(S), NEW t \in Seq(S), Len(s) = Len(t),
         \A i \in 1 .. Len(s) : s[i] = t[i]
  PROVE  s = t
OBVIOUS

LEMMA Parts ==
  ASSUME NEW S, NEW s \in Seq(S), NEW t \in Seq(S)
  PROVE  /\ SubSeq(s \o t, 1, Len(s)) = s
         /\ SubSeq(s \o t, Len(s) + 1, Len(s \o t)) = t
<1>1. SubSeq(s \o t, 1, Len(s)) = s
  <2> DEFINE p == SubSeq(s \o t, 1, Len(s))
  <2>1. p \in Seq(S) /\ Len(p) = Len(s)
    OBVIOUS
  <2>2. \A i \in 1 .. Len(s) : p[i] = s[i]
    OBVIOUS
  <2>3. QED
    BY <2>1, <2>2, SameSeq
<1>2. SubSeq(s \o t, Len(s) + 1, Len(s \o t)) = t
  <2> DEFINE p == SubSeq(s \o t, Len(s) + 1, Len(s \o t))
  <2>1. p \in Seq(S) /\ Len(p) = Len(t)
    OBVIOUS
  <2>2. \A i \in 1 .. Len(t) : p[i] = t[i]
    OBVIOUS
  <2>3. QED
    BY <2>1, <2>2, SameSeq
<1>3. QED
  BY <1>1, <1>2

LEMMA Led ==
  ASSUME NEW S, NEW x \in S, NEW s \in Seq(S)
  PROVE  /\ <<x>> \o s \in Seq(S) /\ Len(<<x>> \o s) = 1 + Len(s)
         /\ (<<x>> \o s)[1] = x
         /\ \A i \in 1 .. Len(s) : (<<x>> \o s)[1 + i] = s[i]
OBVIOUS

LEMMA Ended ==
  ASSUME NEW S, NEW x \in S, NEW s \in Seq(S)
  PROVE  s \o <<x>> \in Seq(S) /\ Len(s \o <<x>>) = Len(s) + 1
OBVIOUS

LEMMA Whole ==
  ASSUME NEW S, NEW s \in Seq(S), NEW b \in Seq(S), NEW t, t = s \o b
  PROVE  /\ t \in Seq(S) /\ Len(t) = Len(s) + Len(b)
         /\ \A i \in 1 .. Len(s) : t[i] = s[i]
         /\ \A i \in 1 .. Len(b) : t[Len(s) + i] = b[i]
OBVIOUS

LEMMA Associative ==
  ASSUME NEW S, NEW s \in Seq(S), NEW t \in Seq(S), NEW u \in Seq(S)
  PROVE  (s \o t) \o u = s \o (t \o u)
OBVIOUS

-----------------------------------------------------------------------------
(* http_paths takes apart what propfind.c has put together.                *)

LEMMA Least ==
  ASSUME NEW T \in SUBSET Int, NEW n \in T, \A i \in T : n <= i
  PROVE  Min(T) = n
<1>1. \E x \in T : \A y \in T : x <= y
  OBVIOUS
<1>2. Min(T) \in T /\ \A y \in T : Min(T) <= y
  BY <1>1 DEF Min
<1>3. Min(T) <= n /\ n <= Min(T)
  BY <1>2
<1> DEFINE m == Min(T)
<1>4. m \in Int /\ m <= n /\ n <= m
  BY <1>2, <1>3
<1> HIDE DEF m
<1>5. m = n
  BY <1>4
<1>6. QED
  BY <1>5 DEF m

LEMMA Greatest ==
  ASSUME NEW T \in SUBSET Int, NEW n \in T, \A i \in T : i <= n
  PROVE  Max(T) = n
<1>1. \E x \in T : \A y \in T : x >= y
  OBVIOUS
<1>2. Max(T) \in T /\ \A y \in T : Max(T) >= y
  BY <1>1 DEF Max
<1>3. Max(T) >= n /\ Max(T) <= n
  BY <1>2
<1> DEFINE m == Max(T)
<1>4. m \in Int /\ m >= n /\ m <= n
  BY <1>2, <1>3
<1> HIDE DEF m
<1>5. m = n
  BY <1>4
<1>6. QED
  BY <1>5 DEF m

LEMMA FirstSlash ==
  ASSUME NEW S, NEW x \in S, NEW name \in Seq(S), x \notin ToSet(name),
         NEW body \in Seq(S), NEW rest, rest = Cat(name, Cat(One(x), body))
  PROVE  /\ FirstAt(rest, x) = Len(name) + 1
         /\ Sub(rest, 1, Len(name)) = name
         /\ Sub(rest, Len(name) + 2, Len(rest)) = body
<1> USE DEF Cat, One, Sub, FirstAt
<1>1. <<x>> \in Seq(S) /\ name \in Seq(S) /\ body \in Seq(S)
  OBVIOUS
<1>2. /\ rest \in Seq(S) /\ Len(rest) = Len(name) + 1 + Len(body)
      /\ rest[Len(name) + 1] = x
      /\ \A i \in 1 .. Len(name) : rest[i] = name[i]
  <2> SUFFICES ASSUME NEW b, b = <<x>> \o body
               PROVE  /\ rest \in Seq(S) /\ Len(rest) = Len(name) + 1 + Len(body)
                      /\ rest[Len(name) + 1] = x
                      /\ \A i \in 1 .. Len(name) : rest[i] = name[i]
    OBVIOUS
  <2>1. b \in Seq(S) /\ Len(b) = 1 + Len(body) /\ b[1] = x
    BY <1>1, Led
  <2>2. rest = name \o b
    OBVIOUS
  <2>3. QED
    BY <1>1, <2>1, <2>2, Whole
<1>3. Min({i \in DOMAIN rest : rest[i] = x} \cup {Len(rest) + 1}) = Len(name) + 1
  <2> DEFINE T == {i \in DOMAIN rest : rest[i] = x} \cup {Len(rest) + 1}
  <2>1. Len(name) + 1 \in T
    BY <1>1, <1>2
  <2>2. \A i \in T : Len(name) + 1 <= i
    BY <1>1, <1>2 DEF ToSet
  <2>3. T \subseteq Int
    BY <1>1, <1>2
  <2> HIDE DEF T
  <2>4. Len(name) + 1 \in Int /\ Min(T) = Len(name) + 1
    BY <2>1, <2>2, <2>3, Least
  <2>5. QED
    BY <2>4 DEF T
<1>4. SubSeq(rest, 1, Len(name)) = name
  BY <1>1, Led, Parts
<1>5. SubSeq(rest, Len(name) + 2, Len(rest)) = body
  <2>1. (name \o <<x>>) \o body = rest /\ name \o <<x>> \in Seq(S)
    BY <1>1, Associative
  <2>2. Len(name \o <<x>>) = Len(name) + 1
    BY <1>1, Ended
  <2>3. SubSeq((name \o <<x>>) \o body, Len(name \o <<x>>) + 1,
               Len((name \o <<x>>) \o body)) = body
    BY <1>1, <2>1, Parts
  <2>4. QED
    BY <1>1, <2>1, <2>2, <2>3
<1>6. QED
  BY <1>3, <1>4, <1>5

LEMMA LastSlash ==
  ASSUME NEW S, NEW x \in S, NEW url \in Seq(S), NEW res \in Seq(S),
         x \notin ToSet(res), NEW after, after = Cat(url, Cat(One(x), res))
  PROVE  /\ LastAt(after, x) = Len(url) + 1
         /\ Sub(after, 1, Len(url)) = url
         /\ Sub(after, Len(url) + 2, Len(after)) = res
<1> USE DEF Cat, One, Sub, LastAt
<1>1. <<x>> \in Seq(S) /\ url \in Seq(S) /\ res \in Seq(S)
  OBVIOUS
<1>2. (url \o <<x>>) \o res = after /\ url \o <<x>> \in Seq(S)
  BY <1>1, Associative
<1>3. Len(url \o <<x>>) = Len(url) + 1
  BY <1>1, Ended
<1>4. /\ after \in Seq(S) /\ Len(after) = Len(url) + 1 + Len(res)
      /\ after[Len(url) + 1] = x
      /\ \A i \in 1 .. Len(res) : after[Len(url) + 1 + i] = res[i]
  <2> SUFFICES ASSUME NEW b, b = url \o <<x>>
               PROVE  /\ after \in Seq(S) /\ Len(after) = Len(url) + 1 + Len(res)
                      /\ after[Len(url) + 1] = x
                      /\ \A i \in 1 .. Len(res) : after[Len(url) + 1 + i] = res[i]
    OBVIOUS
  <2>1. b \in Seq(S) /\ Len(b) = Len(url) + 1 /\ b[Len(url) + 1] = x
    BY <1>1, Ended, Joined
  <2>2. after = b \o res
    BY <1>2
  <2>3. QED
    BY <1>1, <2>1, <2>2, Whole
<1>5. Max({i \in DOMAIN after : after[i] = x} \cup {0}) = Len(url) + 1
  <2> DEFINE T == {i \in DOMAIN after : after[i] = x} \cup {0}
  <2>1. Len(url) + 1 \in T
    BY <1>1, <1>4
  <2>2. \A i \in T : i <= Len(url) + 1
    <3> SUFFICES ASSUME NEW i \in 1 .. Len(after), after[i] = x, i > Len(url) + 1
                 PROVE  FALSE
      BY <1>1, <1>4
    <3> DEFINE j == i - (Len(url) + 1)
    <3>1. j \in 1 .. Len(res) /\ after[Len(url) + 1 + j] = x
      BY <1>1, <1>4
    <3>2. res[j] = x
      BY <1>4, <3>1
    <3>3. QED
      BY <1>1, <3>1, <3>2 DEF ToSet
  <2>3. T \subseteq Int
    BY <1>1, <1>4
  <2> HIDE DEF T
  <2>4. Max(T) = Len(url) + 1
    BY <2>1, <2>2, <2>3, Greatest
  <2>5. QED
    BY <2>4 DEF T
<1>6. SubSeq(after, 1, Len(url)) = url
  BY <1>1, Led, Parts
<1>7. SubSeq(after, Len(url) + 2, Len(after)) = res
  <2>1. SubSeq((url \o <<x>>) \o res, Len(url \o <<x>>) + 1,
               Len((url \o <<x>>) \o res)) = res
    BY <1>1, <1>2, Parts
  <2>2. QED
    BY <1>1, <1>2, <1>3, <2>1
<1>8. QED
  BY <1>5, <1>6, <1>7

LEMMA Behead ==
  ASSUME NEW S, NEW x \in S, NEW s \in Seq(S)
  PROVE  /\ Cat(One(x), s) # <<>> /\ Head(Cat(One(x), s)) = x
         /\ Tail(Cat(One(x), s)) = s
<1> USE DEF Cat, One
<1> DEFINE t == <<x>> \o s
<1>1. t \in Seq(S) /\ Len(t) = 1 + Len(s) /\ t[1] = x
  BY Led
<1>2. Tail(t) \in Seq(S) /\ Len(Tail(t)) = Len(s)
  OBVIOUS
<1>3. \A i \in 1 .. Len(s) : Tail(t)[i] = s[i]
  OBVIOUS
<1>4. Tail(t) = s
  BY <1>2, <1>3, SameSeq
<1>5. QED
  BY <1>1, <1>4

LEMMA Single ==
  ASSUME NEW S, NEW x \in S
  PROVE  SubSeq(<<x>>, 1, 1) = <<x>>
<1> DEFINE a == <<x>>
           b == SubSeq(<<x>>, 1, 1)
<1>1. a \in Seq(S) /\ Len(a) = 1 /\ a[1] = x
  OBVIOUS
<1>2. b \in Seq(S) /\ Len(b) = 1 /\ b[1] = x
  OBVIOUS
<1> HIDE DEF a, b
<1>3. a = b
  BY <1>1, <1>2
<1>4. QED
  BY <1>3, Zenon DEF a, b

LEMMA Begun ==
  ASSUME NEW S, NEW x \in S, NEW s \in Seq(S)
  PROVE  IsPrefix(One(x), Cat(One(x), s))
<1> USE DEF Cat, One
<1>1. <<x>> \in Seq(S) /\ Len(<<x>>) = 1 /\ 1 <= Len(<<x>> \o s)
  BY Led
<1>2. SubSeq(<<x>> \o s, 1, 1) = <<x>>
  BY <1>1, Parts
<1>3. SubSeq(<<x>>, 1, 1) = <<x>>
  BY Single
<1>4. SubSeq(<<x>>, 1, Len(<<x>>)) = SubSeq(<<x>> \o s, 1, Len(<<x>>))
  BY <1>1, <1>2, <1>3
<1>5. Len(<<x>>) <= Len(<<x>> \o s)
  BY <1>1
<1>6. QED
  BY <1>4, <1>5, Zenon DEF IsPrefix

LEMMA Nothing ==
  ASSUME NEW S, NEW s \in Seq(S)
  PROVE  s \o <<>> = s
OBVIOUS

LEMMA Grouping ==
  ASSUME NEW S
  PROVE  /\ \A s, t \in Seq(S) : Cat(s, t) \in Seq(S)
         /\ \A s, t, u \in Seq(S) : Cat(Cat(s, t), u) = Cat(s, Cat(t, u))
BY DEF Cat

LEMMA Ones ==
  ASSUME NEW S, NEW a \in S, NEW x \in S
  PROVE  One(a) \in Seq(S) /\ Two(a, x) = Cat(One(a), One(x))
<1>1. One(a) \in Seq(S)
  BY DEF One
<1>2. Two(a, x) = Cat(One(a), One(x))
  <2> DEFINE s == <<a>> \o <<x>>
             t == <<a, x>>
  <2>1. s \in Seq(S) /\ Len(s) = 2 /\ s[1] = a /\ s[2] = x
    OBVIOUS
  <2>2. t \in Seq(S) /\ Len(t) = 2 /\ t[1] = a /\ t[2] = x
    OBVIOUS
  <2> HIDE DEF s, t
  <2>3. t = s
    BY <2>1, <2>2
  <2>4. QED
    BY <2>3, Zenon DEF s, t, Cat, One, Two
<1>3. QED
  BY <1>1, <1>2

LEMMA Regrouped ==
  ASSUME NEW S, NEW g \in Seq(S), NEW e \in Seq(S), NEW p \in Seq(S), NEW u \in Seq(S),
         NEW r \in Seq(S)
  PROVE  Cat(Cat(Cat(Cat(Cat(Cat(g, e), p), e), u), e), r) =
           Cat(g, Cat(e, Cat(p, Cat(e, Cat(u, Cat(e, r))))))
<1> DEFINE a1 == Cat(g, e)
           a2 == Cat(a1, p)
           a3 == Cat(a2, e)
           a4 == Cat(a3, u)
           w1 == Cat(e, r)
           w2 == Cat(u, w1)
           w3 == Cat(e, w2)
           w4 == Cat(p, w3)
<1>1. a1 \in Seq(S) /\ w1 \in Seq(S) /\ a2 \in Seq(S) /\ w2 \in Seq(S)
  BY Grouping
<1>2. a3 \in Seq(S) /\ w3 \in Seq(S) /\ a4 \in Seq(S) /\ w4 \in Seq(S)
  BY <1>1, Grouping
<1>3. Cat(Cat(a4, e), r) = Cat(a4, w1)
  BY <1>2, Grouping
<1>4. Cat(a4, w1) = Cat(a3, w2)
  BY <1>1, <1>2, Grouping
<1>5. Cat(a3, w2) = Cat(a2, w3)
  BY <1>1, <1>2, Grouping
<1>6. Cat(a2, w3) = Cat(a1, w4)
  BY <1>1, <1>2, Grouping
<1>7. Cat(a1, w4) = Cat(g, Cat(e, w4))
  BY <1>1, <1>2, Grouping
<1>8. QED
  BY <1>3, <1>4, <1>5, <1>6, <1>7

(* A link to a resource, and what http_paths finds in it.                  *)
Link3(a, x, p, u, r, h, in, rest, after) ==
    /\ h = Cat(Cat(Cat(Cat(Cat(Two(a, x), p), One(x)), u), One(x)), r)
    /\ after = Cat(u, Cat(One(x), r))
    /\ rest = Cat(p, Cat(One(x), after))
    /\ in = Cat(One(x), rest)

Apart3(a, x, p, u, r, h, in, rest, after) ==
    /\ IsPrefix(One(a), h) /\ in = Tl(h)
    /\ in # <<>> /\ Hd(in) = x /\ rest = Tl(in)
    /\ FirstAt(rest, x) = Len(p) + 1
    /\ Sub(rest, 1, Len(p)) = p
    /\ after = Sub(rest, Len(p) + 2, Len(rest))
    /\ LastAt(after, x) = Len(u) + 1
    /\ Sub(after, 1, Len(u)) = u
    /\ Sub(after, Len(u) + 2, Len(after)) = r

LEMMA TakenApart ==
  ASSUME NEW S, NEW a \in S, NEW x \in S, NEW p \in Seq(S), NEW u \in Seq(S), NEW r \in Seq(S),
         x \notin ToSet(p), x \notin ToSet(r), NEW h, NEW in, NEW rest, NEW after,
         Link3(a, x, p, u, r, h, in, rest, after)
  PROVE  Apart3(a, x, p, u, r, h, in, rest, after)
<1> USE DEF Link3, Apart3
<1>1. h = Cat(One(a), in)
  <2>1. /\ One(a) \in Seq(S) /\ One(x) \in Seq(S)
        /\ Two(a, x) = Cat(One(a), One(x))
    BY Ones
  <2>2. Cat(Cat(Cat(Cat(Cat(Cat(One(a), One(x)), p), One(x)), u), One(x)), r) =
          Cat(One(a), Cat(One(x), Cat(p, Cat(One(x), Cat(u, Cat(One(x), r))))))
    <3> HIDE DEF Link3, Apart3
    <3>1. QED
      BY <2>1, Regrouped
  <2>3. QED
    BY <2>1, <2>2
<1>2. after \in Seq(S) /\ rest \in Seq(S) /\ in \in Seq(S)
  <2>1. One(x) \in Seq(S)
    BY Ones
  <2>2. after \in Seq(S)
    BY <2>1, Grouping
  <2>3. QED
    BY <2>1, <2>2, Grouping
<1>3. IsPrefix(One(a), h) /\ Tl(h) = in
  <2>1. \A T : \A y \in T, z \in Seq(T) : IsPrefix(One(y), Cat(One(y), z))
    BY Begun
  <2>2. \A T : \A y \in T, z \in Seq(T) : Tl(Cat(One(y), z)) = z
    BY Behead DEF Tl
  <2>3. in \in Seq(S)
    BY <1>2
  <2>4. IsPrefix(One(a), Cat(One(a), in)) /\ Tl(Cat(One(a), in)) = in
    BY <2>1, <2>2, <2>3, Zenon
  <2> HIDE DEF Link3, Apart3
  <2>5. QED
    BY <1>1, <2>4, Zenon
<1>4. in # <<>> /\ Hd(in) = x /\ Tl(in) = rest
  <2>1. \A T : \A y \in T, z \in Seq(T) :
            /\ Cat(One(y), z) # <<>> /\ Head(Cat(One(y), z)) = y
            /\ Tail(Cat(One(y), z)) = z
    BY Behead
  <2>2. QED
    BY <1>2, <2>1, Zenon DEF Hd, Tl
<1>5. /\ FirstAt(rest, x) = Len(p) + 1
      /\ Sub(rest, 1, Len(p)) = p
      /\ Sub(rest, Len(p) + 2, Len(rest)) = after
  BY <1>2, FirstSlash
<1>6. /\ LastAt(after, x) = Len(u) + 1
      /\ Sub(after, 1, Len(u)) = u
      /\ Sub(after, Len(u) + 2, Len(after)) = r
  BY LastSlash
<1>7. QED
  BY <1>2, <1>3, <1>4, <1>5, <1>6, Zenon

(* A link to a principal.                                                  *)
Link1(a, x, p, h, in, rest) ==
    /\ h = Cat(Cat(Two(a, x), p), One(x))
    /\ rest = Cat(p, Cat(One(x), <<>>))
    /\ in = Cat(One(x), rest)

Apart1(a, x, p, h, in, rest) ==
    /\ IsPrefix(One(a), h) /\ in = Tl(h)
    /\ in # <<>> /\ Hd(in) = x /\ rest = Tl(in)
    /\ FirstAt(rest, x) = Len(p) + 1
    /\ Sub(rest, 1, Len(p)) = p
    /\ Sub(rest, Len(p) + 2, Len(rest)) = <<>>

LEMMA HomeTakenApart ==
  ASSUME NEW S, NEW a \in S, NEW x \in S, NEW p \in Seq(S), x \notin ToSet(p),
         NEW h, NEW in, NEW rest, Link1(a, x, p, h, in, rest)
  PROVE  Apart1(a, x, p, h, in, rest)
<1> USE DEF Link1, Apart1
<1>1. \A s \in Seq(S) : Cat(s, <<>>) = s
  BY Nothing DEF Cat
<1>2. One(x) \in Seq(S) /\ One(a) \in Seq(S) /\ Two(a, x) = Cat(One(a), One(x))
  BY Ones
<1>3. Cat(One(x), <<>>) = One(x)
  BY <1>1, <1>2
<1>4. Cat(p, One(x)) \in Seq(S) /\ in \in Seq(S) /\ rest \in Seq(S)
  BY <1>2, <1>3, Grouping
<1>5. h = Cat(One(a), in)
  <2>1. Cat(Cat(Cat(One(a), One(x)), p), One(x)) =
        Cat(Cat(One(a), One(x)), Cat(p, One(x)))
    BY <1>2, Grouping
  <2>2. QED
    BY <1>2, <1>3, <1>4, <2>1, Grouping
<1>6. IsPrefix(One(a), h) /\ Tl(h) = in
  <2>1. \A T : \A y \in T, z \in Seq(T) :
            IsPrefix(One(y), Cat(One(y), z)) /\ Tail(Cat(One(y), z)) = z
    BY Begun, Behead
  <2>2. QED
    BY <1>4, <1>5, <2>1, Zenon DEF Hd, Tl
<1>7. in # <<>> /\ Hd(in) = x /\ Tl(in) = rest
  <2>1. \A T : \A y \in T, z \in Seq(T) :
            /\ Cat(One(y), z) # <<>> /\ Head(Cat(One(y), z)) = y
            /\ Tail(Cat(One(y), z)) = z
    BY Behead
  <2>2. QED
    BY <1>4, <2>1, Zenon DEF Hd, Tl
<1>8. <<>> \in Seq(S)
  OBVIOUS
<1>9. /\ FirstAt(rest, x) = Len(p) + 1
      /\ Sub(rest, 1, Len(p)) = p
      /\ Sub(rest, Len(p) + 2, Len(rest)) = <<>>
  <2>1. \A body \in Seq(S) : rest = Cat(p, Cat(One(x), body)) =>
          /\ FirstAt(rest, x) = Len(p) + 1
          /\ Sub(rest, 1, Len(p)) = p
          /\ Sub(rest, Len(p) + 2, Len(rest)) = body
    BY FirstSlash
  <2>2. QED
    BY <1>8, <2>1, Zenon
<1>10. QED
  BY <1>6, <1>7, <1>9, Zenon

LEMMA NoSlashes ==
  ASSUME NEW x
  PROVE  LastAt(<<>>, x) = 0 /\ Sub(<<>>, 1, 0 - 1) = <<>> /\ Sub(<<>>, 0 + 1, Len(<<>>)) = <<>>
<1>1. {i \in DOMAIN <<>> : <<>>[i] = x} \cup {0} = {0}
  OBVIOUS
<1>2. 0 \in {0} /\ {0} \in SUBSET Int /\ \A i \in {0} : i <= 0
  OBVIOUS
<1>3. Max({0}) = 0
  BY <1>2, Greatest
<1>4. LastAt(<<>>, x) = 0
  BY <1>1, <1>3, Zenon DEF LastAt
<1>5. Sub(<<>>, 1, 0 - 1) = <<>>
  BY DEF Sub
<1>6. Sub(<<>>, 0 + 1, Len(<<>>)) = <<>>
  BY DEF Sub
<1>7. QED
  BY <1>4, <1>5, <1>6

LEMMA DecodedNothing == http_decode(<<>>) = <<>>
<1>1. \A F : [i \in DOMAIN <<>> |-> F[i]] = <<>>
  OBVIOUS
<1>2. QED
  BY <1>1 DEF http_decode

(* Texts, as sequences over a set in which the provers see these strings.  *)
Pieces == STRING \cup {"/", pname, "calendar-proxy-read", "calendar-proxy-write"}

LEMMA Script ==
  /\ "/" \in Pieces /\ pname \in Pieces
  /\ \A s \in Seq(STRING) : s \in Seq(Pieces)
<1>1. "/" \in Pieces /\ pname \in Pieces
  BY Zenon DEF Pieces
<1>2. STRING \subseteq Pieces
  BY Zenon DEF Pieces
<1>3. \A A, B : A \subseteq B => Seq(A) \subseteq Seq(B)
  OBVIOUS
<1>4. QED
  BY <1>1, <1>2, <1>3, Zenon

(* A name that http_paths leaves as it is.                                 *)
Plain(r) == "/" \notin ToSet(r) /\ http_decode(r) = r

LEMMA LinkToResource ==
  ASSUME NEW p \in Seq(Pieces), "/" \notin ToSet(p), NEW u \in Seq(Pieces), NEW r \in Seq(Pieces),
         Plain(r),
         NEW h, h = <<pname, "/">> \o p \o <<"/">> \o u \o <<"/">> \o r
  PROVE  /\ IsPrefix(<<pname>>, h)
         /\ http_paths(Tail(h)) = [principal |-> p, collection |-> u, resource |-> r]
<1>1. \A T : \A a, x \in T, q, v, w \in Seq(T) : x \notin ToSet(q) /\ x \notin ToSet(w) =>
         \A l, n, m, f : Link3(a, x, q, v, w, l, n, m, f) => Apart3(a, x, q, v, w, l, n, m, f)
  BY TakenApart
<1>2. h = Cat(Cat(Cat(Cat(Cat(Two(pname, "/"), p), One("/")), u), One("/")), r)
  BY Zenon DEF Cat, One, Two
<1> SUFFICES ASSUME NEW after, after = Cat(u, Cat(One("/"), r)),
                    NEW rest, rest = Cat(p, Cat(One("/"), after)),
                    NEW in, in = Cat(One("/"), rest)
             PROVE  /\ IsPrefix(<<pname>>, h)
                    /\ http_paths(Tail(h)) = [principal |-> p, collection |-> u, resource |-> r]
  BY Zenon
<1>3. Apart3(pname, "/", p, u, r, h, in, rest, after)
  <2>1. /\ "/" \in Pieces /\ pname \in Pieces
        /\ p \in Seq(Pieces) /\ u \in Seq(Pieces) /\ r \in Seq(Pieces)
    BY Script, Zenon
  <2>2. Link3(pname, "/", p, u, r, h, in, rest, after)
    BY <1>2, Zenon DEF Link3
  <2>3. QED
    BY <1>1, <2>1, <2>2, Zenon DEF Plain
<1> USE DEF Apart3
<1>4. /\ (Len(p) + 1) - 1 = Len(p) /\ (Len(p) + 1) + 1 = Len(p) + 2
      /\ (Len(u) + 1) - 1 = Len(u) /\ (Len(u) + 1) + 1 = Len(u) + 2
  <2>1. Len(p) \in Nat /\ Len(u) \in Nat
    OBVIOUS
  <2>2. QED
    BY <2>1
<1>5. http_paths(in) = [principal |-> p, collection |-> u, resource |-> r]
  <2>1. Min(Slashes(Tail(in)) \cup {Len(Tail(in)) + 1}) = Len(p) + 1
    BY <1>3, Zenon DEF FirstAt, Slashes, Tl
  <2>2. /\ SubSeq(Tail(in), 1, (Len(p) + 1) - 1) = p
        /\ SubSeq(Tail(in), (Len(p) + 1) + 1, Len(Tail(in))) = after
    BY <1>3, <1>4, Zenon DEF Sub, Tl
  <2>3. Max(Slashes(after) \cup {0}) = Len(u) + 1
    BY <1>3, Zenon DEF LastAt, Slashes
  <2>4. /\ SubSeq(after, 1, (Len(u) + 1) - 1) = u
        /\ http_decode(SubSeq(after, (Len(u) + 1) + 1, Len(after))) = r
    BY <1>3, <1>4, Zenon DEF Sub, Plain
  <2>5. QED
    BY <1>3, <2>1, <2>2, <2>3, <2>4, Zenon DEF http_paths, Hd, Tl
<1>6. QED
  BY <1>3, <1>5, Zenon DEF One, Tl

LEMMA LinkToPrincipal ==
  ASSUME NEW p \in Seq(Pieces), "/" \notin ToSet(p), NEW h, h = <<pname, "/">> \o p \o <<"/">>
  PROVE  /\ IsPrefix(<<pname>>, h)
         /\ http_paths(Tail(h)) = [principal |-> p, collection |-> <<>>, resource |-> <<>>]
<1>1. \A T : \A a, x \in T, q \in Seq(T) : x \notin ToSet(q) =>
         \A l, n, m : Link1(a, x, q, l, n, m) => Apart1(a, x, q, l, n, m)
  BY HomeTakenApart
<1>2. h = Cat(Cat(Two(pname, "/"), p), One("/"))
  BY Zenon DEF Cat, One, Two
<1> SUFFICES ASSUME NEW rest, rest = Cat(p, Cat(One("/"), <<>>)),
                    NEW in, in = Cat(One("/"), rest)
             PROVE  /\ IsPrefix(<<pname>>, h)
                    /\ http_paths(Tail(h)) = [principal |-> p, collection |-> <<>>, resource |-> <<>>]
  BY Zenon
<1>3. Apart1(pname, "/", p, h, in, rest)
  <2>1. "/" \in Pieces /\ pname \in Pieces /\ p \in Seq(Pieces)
    BY Script, Zenon
  <2>2. Link1(pname, "/", p, h, in, rest)
    BY <1>2, Zenon DEF Link1
  <2>3. QED
    BY <1>1, <2>1, <2>2, Zenon
<1> USE DEF Apart1
<1>4. (Len(p) + 1) - 1 = Len(p) /\ (Len(p) + 1) + 1 = Len(p) + 2
  <2>1. Len(p) \in Nat
    OBVIOUS
  <2>2. QED
    BY <2>1
<1>5. http_paths(in) = [principal |-> p, collection |-> <<>>, resource |-> <<>>]
  <2>1. Min(Slashes(Tail(in)) \cup {Len(Tail(in)) + 1}) = Len(p) + 1
    BY <1>3, Zenon DEF FirstAt, Slashes, Tl
  <2>2. /\ SubSeq(Tail(in), 1, (Len(p) + 1) - 1) = p
        /\ SubSeq(Tail(in), (Len(p) + 1) + 1, Len(Tail(in))) = <<>>
    BY <1>3, <1>4, Zenon DEF Sub, Tl
  <2>3. Max(Slashes(<<>>) \cup {0}) = 0
    BY NoSlashes, Zenon DEF LastAt, Slashes
  <2>4. /\ SubSeq(<<>>, 1, 0 - 1) = <<>>
        /\ http_decode(SubSeq(<<>>, 0 + 1, Len(<<>>))) = <<>>
    BY NoSlashes, DecodedNothing, Zenon DEF Sub
  <2>5. QED
    BY <1>3, <2>1, <2>2, <2>3, <2>4, Zenon DEF http_paths, Hd, Tl
<1>6. QED
  BY <1>3, <1>5, Zenon DEF One, Tl

LEMMA LinkToCollection ==
  ASSUME NEW p \in Seq(Pieces), "/" \notin ToSet(p), NEW u \in Seq(Pieces),
         NEW h, h = <<pname, "/">> \o p \o <<"/">> \o u \o <<"/">>
  PROVE  /\ IsPrefix(<<pname>>, h)
         /\ http_paths(Tail(h)) = [principal |-> p, collection |-> u, resource |-> <<>>]
<1>1. <<>> \in Seq(Pieces) /\ "/" \notin ToSet(<<>>)
  BY DEF ToSet
<1>2. h \o <<>> = h
  <2>1. Cat(Cat(Cat(Cat(Cat(One(pname), One("/")), p), One("/")), u), One("/")) \in Seq(Pieces)
    <3>1. One(pname) \in Seq(Pieces) /\ One("/") \in Seq(Pieces)
      BY Script, Ones
    <3>2. p \in Seq(Pieces) /\ u \in Seq(Pieces)
      BY Script
    <3>3. QED
      BY <3>1, <3>2, Grouping
  <2>2. Two(pname, "/") = Cat(One(pname), One("/"))
    BY Script, Ones
  <2>3. h \in Seq(Pieces)
    BY <2>1, <2>2, Zenon DEF Two, Cat, One
  <2>4. QED
    BY <2>3, Nothing
<1>3. h = <<pname, "/">> \o p \o <<"/">> \o u \o <<"/">> \o <<>>
  BY <1>2, Zenon
<1>4. QED
  <2>1. Plain(<<>>)
    BY <1>1, DecodedNothing DEF Plain
  <2>2. QED
    BY <1>1, <1>3, <2>1, LinkToResource, Zenon

(* The three kinds of links, and where they lead.                          *)
ToPrincipal(p)      == <<pname, "/">> \o p \o <<"/">>
ToCollection(p, u)  == <<pname, "/">> \o p \o <<"/">> \o u \o <<"/">>
ToResource(p, u, r) == <<pname, "/">> \o p \o <<"/">> \o u \o <<"/">> \o r

LeadsTo(h, p, u, r) ==
    /\ IsPrefix(<<pname>>, h)
    /\ http_paths(Tail(h)) = [principal |-> p, collection |-> u, resource |-> r]

LEMMA PrincipalFound ==
  ASSUME NEW p \in Seq(Pieces), "/" \notin ToSet(p)
  PROVE  LeadsTo(ToPrincipal(p), p, <<>>, <<>>)
BY LinkToPrincipal, Zenon DEF LeadsTo, ToPrincipal

LEMMA CollectionFound ==
  ASSUME NEW p \in Seq(Pieces), "/" \notin ToSet(p), NEW u \in Seq(Pieces)
  PROVE  LeadsTo(ToCollection(p, u), p, u, <<>>)
BY LinkToCollection, Zenon DEF LeadsTo, ToCollection

LEMMA ResourceFound ==
  ASSUME NEW p \in Seq(Pieces), "/" \notin ToSet(p), NEW u \in Seq(Pieces),
         NEW r \in Seq(Pieces), Plain(r)
  PROVE  LeadsTo(ToResource(p, u, r), p, u, r)
<1> SUFFICES ASSUME NEW h, h = ToResource(p, u, r)
             PROVE  LeadsTo(h, p, u, r)
  OBVIOUS
<1>1. h = <<pname, "/">> \o p \o <<"/">> \o u \o <<"/">> \o r
  BY Zenon DEF ToResource
<1>2. /\ IsPrefix(<<pname>>, h)
      /\ http_paths(Tail(h)) = [principal |-> p, collection |-> u, resource |-> r]
  BY <1>1, LinkToResource
<1>3. QED
  BY <1>2, Zenon DEF LeadsTo

LEMMA LinksAreTexts ==
  ASSUME NEW p \in Seq(Pieces)
  PROVE  ToPrincipal(p) \in Seq(Pieces)
<1>1. Cat(Cat(Cat(One(pname), One("/")), p), One("/")) \in Seq(Pieces)
  BY Script, Ones, Grouping
<1>2. Two(pname, "/") = Cat(One(pname), One("/"))
  BY Script, Ones
<1>3. QED
  BY <1>1, <1>2, Zenon DEF ToPrincipal, Two, Cat, One
=============================================================================
