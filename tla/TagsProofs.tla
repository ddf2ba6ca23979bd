----------------------------- MODULE TagsProofs -----------------------------
(* The parser of lists of tags does what IsSplit says, for every list.     *)
EXTENDS Tags, TLAPS, WellFoundedInduction, NaturalsInduction

\* A set of natural numbers that is not empty has a least element.
LEMMA LeastNumber ==
  ASSUME NEW S \in SUBSET Nat, S # {}
  PROVE  \E m \in S : \A k \in S : m <= k
<1> DEFINE less == {ss \in Nat \X Nat : ss[1] < ss[2]}
<1>1. IsWellFoundedOn(less, Nat)
  BY NatLessThanWellFounded DEF OpToRel
<1> HIDE DEF less
<1>2. PICK m \in S : \A k \in S : ~(<<k, m>> \in less)
  BY <1>1, WFMin, Zenon
<1>3. \A k \in S : ~(k < m)
  <2> TAKE k \in S
  <2>1. k \in Nat /\ m \in Nat
    OBVIOUS
  <2>2. <<k, m>> \in Nat \X Nat
    BY <2>1
  <2> QED BY <1>2, <2>2 DEF less
<1> QED BY <1>3

\* The least of a set of indices is one of those asked for, and the first.
LEMMA FirstIndex ==
  ASSUME NEW n \in Nat, NEW S \in SUBSET (1..n), S # {}
  PROVE  Min(S) \in S /\ \A k \in S : Min(S) <= k
<1>1. \E m \in S : \A k \in S : m <= k
  BY LeastNumber
<1> QED BY <1>1, Zenon DEF Min

-----------------------------------------------------------------------------
(* Sequences                                                               *)

\* The elements of a sequence are of the set it is over.
LEMMA Elements ==
  ASSUME NEW V, NEW q \in Seq(V)
  PROVE  \A i \in DOMAIN q : q[i] \in V
OBVIOUS

\* A sequence of one element.
LEMMA Single ==
  ASSUME NEW V, NEW x \in V
  PROVE  /\ <<x>> \in Seq(V) /\ Len(<<x>>) = 1 /\ <<x>>[1] = x
         /\ <<x>> # <<>> /\ \A k \in 0 + 1 .. Len(<<x>>) : k = 1
OBVIOUS

\* A concatenation of three, taken apart again.
LEMMA Thirds ==
  ASSUME NEW V, NEW a \in Seq(V), NEW b \in Seq(V), NEW c \in Seq(V),
         NEW s, s = a \o b \o c
  PROVE  /\ Len(s) = Len(a) + Len(b) + Len(c)
         /\ SubSeq(s, 1, Len(a)) = a
         /\ SubSeq(s, Len(a) + 1, Len(a) + Len(b)) = b
         /\ SubSeq(s, Len(a) + Len(b) + 1, Len(s)) = c
<1>1. Len(s) = Len(a) + Len(b) + Len(c)
  OBVIOUS
<1>2. SubSeq(s, 1, Len(a)) = a
  OBVIOUS
<1>3. SubSeq(s, Len(a) + 1, Len(a) + Len(b)) = b
  OBVIOUS
<1>4. SubSeq(s, Len(a) + Len(b) + 1, Len(s)) = c
  OBVIOUS
<1> QED BY <1>1, <1>2, <1>3, <1>4

-----------------------------------------------------------------------------
(* recParseEscapedComma calls itself for shorter lists only, so there is   *)
(* such a function.                                                        *)

\* strings.Index finds the first comma after the offset, if there is one.
LEMMA FoundComma ==
  ASSUME NEW str \in Values, NEW offset \in Nat
  PROVE  LET i == NextComma(str, offset)
         IN \/ i = 0 /\ \A k \in offset + 1 .. Len(str) : str[k] # ","
            \/ /\ i \in offset + 1 .. Len(str) /\ str[i] = ","
               /\ \A k \in offset + 1 .. i - 1 : str[k] # ","
<1> DEFINE I == {k \in offset + 1 .. Len(str) : str[k] = ","}
<1>1. NextComma(str, offset) = IF I # {} THEN Min(I) ELSE 0
  BY DEF NextComma
<1>2. Len(str) \in Nat
  BY DEF Values
<1>3. \A k \in offset + 1 .. Len(str) : k \in 1..Len(str)
  BY <1>2
<1>4. I \in SUBSET (1..Len(str))
  BY <1>3
<1>5. CASE I # {}
  <2> DEFINE m == Min(I)
  <2>1. m \in I /\ \A k \in I : m <= k
    BY <1>2, <1>4, <1>5, FirstIndex, Zenon
  <2>2. m \in offset + 1 .. Len(str)
    BY <2>1, Zenon
  <2>3. str[m] = ","
    BY <2>1, Zenon
  <2> HIDE DEF m, I
  <2>4. m \in Int /\ m <= Len(str)
    BY <1>2, <2>2
  <2>5. \A k \in offset + 1 .. m - 1 : k \in offset + 1 .. Len(str) /\ ~(m <= k)
    BY <1>2, <2>4
  <2>6. \A k \in offset + 1 .. m - 1 : str[k] # ","
    BY <2>1, <2>5, Zenon DEF I
  <2> QED BY <1>1, <1>5, <2>2, <2>3, <2>6, Zenon DEF m
<1>6. CASE I = {}
  BY <1>1, <1>6, Zenon
<1> QED BY <1>5, <1>6

\* Every call that the parser makes is on a shorter list.
LEMMA Shorter ==
  ASSUME NEW str \in Values, NEW i \in 1..Len(str)
  PROVE  /\ Tail(str) \in Values /\ Len(Tail(str)) = Len(str) - 1
         /\ SubSeq(str, i + 1, Len(str)) \in Values
         /\ Len(SubSeq(str, i + 1, Len(str))) = Len(str) - i
         /\ i > 1 => /\ Without(str, i - 1) \in Values
                     /\ Len(Without(str, i - 1)) = Len(str) - 1
BY DEF Values, Without

\* So a call depends only on what the function returns for shorter lists.
LEMMA ParseLocal ==
  ASSUME NEW f, NEW g, NEW str \in Values, NEW offset \in Nat,
         \A s \in Values : Len(s) < Len(str) => f[s] = g[s]
  PROVE  ParseFrom(f, str, offset) = ParseFrom(g, str, offset)
<1> DEFINE i == NextComma(str, offset)
<1>1. CASE str = <<>>
  BY <1>1 DEF ParseFrom
<1>2. CASE str # <<>> /\ i = 0
  BY <1>2, Zenon DEF ParseFrom
<1>3. CASE str # <<>> /\ i # 0
  <2> HIDE DEF i
  <2>1. i \in 1..Len(str)
    <3>1. i \in offset + 1 .. Len(str)
      BY <1>3, FoundComma, Zenon DEF i
    <3> QED BY <3>1 DEF Values
  <2>2. /\ f[Tail(str)] = g[Tail(str)]
        /\ f[SubSeq(str, i + 1, Len(str))] = g[SubSeq(str, i + 1, Len(str))]
        /\ i # 1 => f[Without(str, i - 1)] = g[Without(str, i - 1)]
    <3>1. Len(str) \in Nat
      BY DEF Values
    <3>2. /\ Tail(str) \in Values /\ Len(Tail(str)) < Len(str)
          /\ SubSeq(str, i + 1, Len(str)) \in Values
          /\ Len(SubSeq(str, i + 1, Len(str))) < Len(str)
          /\ i # 1 => /\ Without(str, i - 1) \in Values
                      /\ Len(Without(str, i - 1)) < Len(str)
      <4>1. /\ Len(Tail(str)) = Len(str) - 1 /\ Tail(str) \in Values
            /\ Len(SubSeq(str, i + 1, Len(str))) = Len(str) - i
            /\ SubSeq(str, i + 1, Len(str)) \in Values
            /\ i > 1 => /\ Without(str, i - 1) \in Values
                        /\ Len(Without(str, i - 1)) = Len(str) - 1
        BY <2>1, Shorter, Zenon
      <4> QED BY <2>1, <3>1, <4>1
    <3> QED BY <3>2, Zenon
  <2> QED BY <1>3, <2>2, Zenon DEF ParseFrom, i
<1> QED BY <1>1, <1>2, <1>3

ParseAll(f, str) == [offset \in Nat |-> ParseFrom(f, str, offset)]

Short(n) == {s \in Values : Len(s) < n}

\* The function is right for short lists.
Parses(f, n) == \A s \in Short(n) : f[s] = ParseAll(f, s)

\* The same for all offsets.
LEMMA ParseAllLocal ==
  ASSUME NEW f, NEW g, NEW str \in Values,
         \A s \in Values : Len(s) < Len(str) => f[s] = g[s]
  PROVE  ParseAll(f, str) = ParseAll(g, str)
<1>1. \A offset \in Nat : ParseFrom(f, str, offset) = ParseFrom(g, str, offset)
  BY ParseLocal
<1> QED BY <1>1, Zenon DEF ParseAll

\* Two functions that are right for short lists agree on them.
LEMMA ParsersAgree ==
  ASSUME NEW n \in Nat, NEW f, NEW g, Parses(f, n), Parses(g, n)
  PROVE  \A s \in Short(n) : f[s] = g[s]
<1> DEFINE bad == {l \in Nat : \E s \in Short(n) : Len(s) = l /\ f[s] # g[s]}
<1>1. ASSUME bad # {} PROVE FALSE
  <2>1. PICK l \in bad : \A k \in bad : l <= k
    BY <1>1, LeastNumber, Zenon
  <2>2. PICK s \in Short(n) : Len(s) = l /\ f[s] # g[s]
    BY <2>1
  <2>3. ASSUME NEW t \in Values, Len(t) < Len(s)
        PROVE  f[t] = g[t]
    <3>1. Len(t) \in Nat /\ Len(s) \in Nat /\ Len(s) < n /\ t \in Short(n)
      BY <2>3 DEF Short, Values
    <3>2. Len(t) \notin bad
      BY <2>1, <2>2, <2>3, <3>1
    <3> QED BY <3>1, <3>2
  <2>4. s \in Values /\ f[s] = ParseAll(f, s) /\ g[s] = ParseAll(g, s)
    BY DEF Parses, Short
  <2> QED BY <2>2, <2>3, <2>4, ParseAllLocal
<1>2. \A s \in Short(n) : Len(s) \in Nat
  BY DEF Short, Values
<1> QED BY <1>1, <1>2

\* There is one for every length.
LEMMA ParserExists ==
  \A n \in Nat : \E f : Parses(f, n)
<1> DEFINE bad == {n \in Nat : ~\E f : Parses(f, n)}
<1>1. ASSUME bad # {} PROVE FALSE
  <2>1. PICK n \in bad : \A k \in bad : n <= k
    BY <1>1, LeastNumber, Zenon
  <2>2. CASE n = 0
    <3>1. Short(0) = {}
      BY DEF Short, Values
    <3>2. Parses(<<>>, 0)
      BY <3>1 DEF Parses
    <3> QED BY <2>2, <3>2
  <2>3. CASE n # 0
    <3>1. n - 1 \in Nat /\ n - 1 \notin bad /\ n \in Nat
      BY <2>1, <2>3
    <3>2. PICK f : Parses(f, n - 1)
      BY <3>1
    <3> DEFINE g == [s \in Short(n) |-> IF s \in Short(n - 1) THEN f[s]
                                        ELSE ParseAll(f, s)]
    <3>3. ASSUME NEW s \in Short(n)
          PROVE  g[s] = ParseAll(g, s)
      <4>1. g[s] = ParseAll(f, s)
        BY <3>2 DEF Parses
      <4>2. ASSUME NEW t \in Values, Len(t) < Len(s)
            PROVE  f[t] = g[t]
        <5>1. Len(t) \in Nat /\ Len(s) \in Nat /\ Len(s) < n
          BY DEF Short, Values
        <5>2. t \in Short(n - 1) /\ t \in Short(n)
          BY <3>1, <4>2, <5>1 DEF Short
        <5> QED BY <5>2
      <4>3. s \in Values
        BY DEF Short
      <4> HIDE DEF g
      <4> QED BY <4>1, <4>2, <4>3, ParseAllLocal
    <3>4. Parses(g, n)
      BY <3>3 DEF Parses
    <3> HIDE DEF g
    <3> QED BY <3>4
  <2> QED BY <2>2, <2>3
<1> QED BY <1>1

\* So the function that is defined by its recursion satisfies it.
LEMMA ParseEquation ==
  ASSUME NEW str \in Values, NEW offset \in Nat
  PROVE  recParseEscapedComma[str][offset] =
           ParseFrom(recParseEscapedComma, str, offset)
<1> DEFINE parser(n) == CHOOSE f : Parses(f, n)
           g == [s \in Values |-> parser(Len(s) + 1)[s]]
<1>1. \A n \in Nat : Parses(parser(n), n)
  BY ParserExists
<1> HIDE DEF parser
<1>2. ASSUME NEW s \in Values
      PROVE  g[s] = ParseAll(g, s)
  <2> DEFINE n == Len(s) + 1
  <2>1. n \in Nat /\ s \in Short(n)
    BY DEF Short, Values
  <2>2. g[s] = ParseAll(parser(n), s)
    BY <1>1, <2>1 DEF Parses
  <2>3. ASSUME NEW t \in Values, Len(t) < Len(s)
        PROVE  parser(n)[t] = g[t]
    <3> DEFINE m == Len(t) + 1
    <3>1. m \in Nat /\ t \in Short(m) /\ \A u \in Short(m) : u \in Short(n)
      BY <2>3 DEF Short, Values
    <3>2. Parses(parser(m), m) /\ Parses(parser(n), m)
      BY <1>1, <2>1, <3>1 DEF Parses
    <3>3. parser(n)[t] = parser(m)[t]
      BY <3>1, <3>2, ParsersAgree
    <3> QED BY <3>3
  <2> HIDE DEF g
  <2> QED BY <2>2, <2>3, ParseAllLocal
<1>3. g = [s \in Values |-> ParseAll(g, s)]
  BY <1>2
<1> HIDE DEF g
<1>4. recParseEscapedComma =
        [s \in Values |-> ParseAll(recParseEscapedComma, s)]
  BY <1>3 DEF recParseEscapedComma, ParseAll
<1>5. recParseEscapedComma[str] = ParseAll(recParseEscapedComma, str)
  BY <1>4
<1> QED BY <1>5 DEF ParseAll

-----------------------------------------------------------------------------
(* Within a tag                                                            *)

\* The backslash at k escapes a comma within the first a symbols.
Dropped(list, k, a) == list[k] = "\\" /\ k < a /\ list[k + 1] = ","

\* The first n symbols of str are the first a of the list, unescaped.
Unescapes(at, str, n, list, a) ==
  /\ at \in [1..n -> 1..a]
  /\ \A i, j \in 1..n : i < j => at[i] < at[j]
  /\ \A k \in 1..a : (\E i \in 1..n : at[i] = k) <=> ~Dropped(list, k, a)
  /\ \A i \in 1..n : str[i] = list[at[i]]

PrefixDone(str, n, list, a) == \E at : Unescapes(at, str, n, list, a)

\* A tag that is done is the unescaped form of its part of the list.
LEMMA PrefixIsUnescaped ==
  ASSUME NEW str \in Values, NEW n \in 0..Len(str),
         NEW list \in Values, NEW a \in 0..Len(list), PrefixDone(str, n, list, a)
  PROVE  IsUnescaped(SubSeq(str, 1, n), SubSeq(list, 1, a))
<1> DEFINE tag == SubSeq(str, 1, n)  part == SubSeq(list, 1, a)
<1>1. /\ Len(str) \in Nat /\ Len(list) \in Nat
      /\ DOMAIN tag = 1..n /\ DOMAIN part = 1..a /\ Len(part) = a
      /\ \A i \in 1..n : tag[i] = str[i]
      /\ \A k \in 1..a : part[k] = list[k]
  BY DEF Values
<1>2. PICK at : Unescapes(at, str, n, list, a)
  BY DEF PrefixDone
<1> HIDE DEF tag, part
<1>3. ASSUME NEW k \in 1..a
      PROVE  Dropped(list, k, a) <=>
               part[k] = "\\" /\ k < Len(part) /\ part[k + 1] = ","
  <2>1. k < a => k + 1 \in 1..a
    OBVIOUS
  <2>2. k < a => part[k + 1] = list[k + 1]
    BY <1>1, <2>1
  <2> QED BY <1>1, <2>2, Zenon DEF Dropped
<1>4. \A i \in 1..n : tag[i] = part[at[i]]
  BY <1>1, <1>2, Zenon DEF Unescapes
<1>5. IsUnescaped(tag, part)
  <2>1. at \in [DOMAIN tag -> DOMAIN part]
    BY <1>1, <1>2, Zenon DEF Unescapes
  <2>2. \A i, j \in DOMAIN tag : i < j => at[i] < at[j]
    BY <1>1, <1>2, Zenon DEF Unescapes
  <2>3. \A k \in DOMAIN part :
          (\E i \in DOMAIN tag : at[i] = k) <=>
            ~(part[k] = "\\" /\ k < Len(part) /\ part[k + 1] = ",")
    <3> TAKE k \in DOMAIN part
    <3>1. k \in 1..a
      BY <1>1
    <3>2. (\E i \in 1..n : at[i] = k) <=> ~Dropped(list, k, a)
      BY <1>2, <3>1 DEF Unescapes
    <3>3. (\E i \in DOMAIN tag : at[i] = k) <=> ~Dropped(list, k, a)
      BY <1>1, <3>2
    <3> QED BY <1>3, <3>1, <3>3
  <2>4. \A i \in DOMAIN tag : tag[i] = part[at[i]]
    BY <1>1, <1>4
  <2> QED BY <2>1, <2>2, <2>3, <2>4, Zenon DEF IsUnescaped
<1> QED BY <1>5 DEF tag, part

\* Symbols that are copied, and commas that have no backslash before them.
Copies(str, n, list, a, m) == \A j \in 1..m : str[n + j] = list[a + j]

Unmarked(list, a, b) ==
  \A k \in a + 1 .. b : list[k] = "," => k = 1 \/ list[k - 1] # "\\"

\* The indices up to n + m are those up to n and m more.
LEMMA Split ==
  ASSUME NEW n \in Nat, NEW m \in Nat
  PROVE  /\ \A i \in 1 .. n + m : i \in 1..n \/ i \in n + 1 .. n + m
         /\ \A i \in 1..n : i \in 1 .. n + m
         /\ \A i \in n + 1 .. n + m : i \in 1 .. n + m /\ i - n \in 1..m
OBVIOUS

\* What has no escaped comma in it is unescaped as it is.
LEMMA Copied ==
  ASSUME NEW str, NEW n \in Nat, NEW list, NEW a \in Nat, NEW m \in Nat,
         PrefixDone(str, n, list, a),
         Copies(str, n, list, a, m), Unmarked(list, a, a + m)
  PROVE  PrefixDone(str, n + m, list, a + m)
<1>1. PICK at : Unescapes(at, str, n, list, a)
  BY DEF PrefixDone
<1> DEFINE to == [i \in 1 .. n + m |-> IF i <= n THEN at[i] ELSE i - n + a]
<1>2. ASSUME NEW i \in 1..n
      PROVE  to[i] = at[i] /\ to[i] \in 1..a
  <2>1. i <= n /\ i \in 1 .. n + m
    OBVIOUS
  <2>2. at[i] \in 1..a
    BY <1>1 DEF Unescapes
  <2> QED BY <2>1, <2>2
<1>3. ASSUME NEW i \in n + 1 .. n + m
      PROVE  to[i] = i - n + a /\ to[i] \in a + 1 .. a + m
  <2>1. ~(i <= n) /\ i \in 1 .. n + m /\ i - n + a \in a + 1 .. a + m
    OBVIOUS
  <2> QED BY <2>1
<1>4. to \in [1 .. n + m -> 1 .. a + m]
  <2>1. \A i \in 1..n : to[i] \in 1 .. a + m
    <3>1. \A x \in 1..a : x \in 1 .. a + m
      OBVIOUS
    <3> QED BY <1>2, <3>1, Zenon
  <2>2. \A i \in n + 1 .. n + m : to[i] \in 1 .. a + m
    BY <1>3
  <2>3. \A i \in 1 .. n + m : to[i] \in 1 .. a + m
    BY <2>1, <2>2, Split, Zenon
  <2> QED BY <2>3
<1> HIDE DEF to
<1>5. \A i, j \in 1 .. n + m : i < j => to[i] < to[j]
  <2> SUFFICES ASSUME NEW i \in 1 .. n + m, NEW j \in 1 .. n + m, i < j
               PROVE  to[i] < to[j]
    OBVIOUS
  <2>1. CASE j \in 1..n
    <3>1. i \in 1..n
      BY <2>1
    <3> QED BY <1>1, <1>2, <2>1, <3>1 DEF Unescapes
  <2>2. CASE i \in 1..n /\ j \in n + 1 .. n + m
    BY <1>2, <1>3, <2>2
  <2>3. CASE i \in n + 1 .. n + m /\ j \in n + 1 .. n + m
    BY <1>3, <2>3
  <2> QED BY <2>1, <2>2, <2>3, Split
<1>6. ASSUME NEW k \in 1 .. a + m
      PROVE  (\E i \in 1 .. n + m : to[i] = k) <=> ~Dropped(list, k, a + m)
  <2>1. CASE k \in 1..a
    <3>1. Dropped(list, k, a + m) <=> Dropped(list, k, a)
      <4>1. CASE k < a
        <5>1. k < a + m
          BY <2>1, <4>1
        <5> QED BY <4>1, <5>1, Zenon DEF Dropped
      <4>2. CASE k = a /\ m = 0
        BY <4>2
      <4>3. CASE k = a /\ m # 0
        <5>1. k + 1 \in a + 1 .. a + m /\ k + 1 # 1 /\ (k + 1) - 1 = k /\ ~(k < a)
          BY <2>1, <4>3
        <5>2. list[k + 1] = "," => list[k] # "\\"
          BY <5>1, Zenon DEF Unmarked
        <5> QED BY <5>1, <5>2, Zenon DEF Dropped
      <4> QED BY <2>1, <4>1, <4>2, <4>3
    <3>2. ASSUME NEW i \in 1 .. n + m, to[i] = k
          PROVE  i \in 1..n /\ at[i] = k
      <4>1. i \notin n + 1 .. n + m
        BY <1>3, <2>1, <3>2
      <4> QED BY <1>2, <3>2, <4>1, Split
    <3>3. (\E i \in 1 .. n + m : to[i] = k) <=> (\E i \in 1..n : at[i] = k)
      BY <1>2, <3>2, Split
    <3> QED BY <1>1, <2>1, <3>1, <3>3 DEF Unescapes
  <2>2. CASE k \in a + 1 .. a + m
    <3>1. /\ k - a + n \in n + 1 .. n + m /\ k - a + n \in 1 .. n + m
          /\ (k - a + n) - n + a = k
      BY <2>2
    <3>2. to[k - a + n] = k
      BY <1>3, <3>1
    <3>3. ASSUME k < a + m, list[k + 1] = ","
          PROVE  list[k] # "\\"
      <4>1. k < a + m
        BY <3>3, Zenon
      <4>2. k + 1 \in a + 1 .. a + m /\ k + 1 # 1 /\ (k + 1) - 1 = k
        BY <2>2, <4>1
      <4> QED BY <3>3, <4>2, Zenon DEF Unmarked
    <3> QED BY <3>1, <3>2, <3>3, Zenon DEF Dropped
  <2> QED BY <2>1, <2>2, Split
<1>7. \A i \in 1 .. n + m : str[i] = list[to[i]]
  <2>1. \A i \in 1..n : str[i] = list[to[i]]
    BY <1>1, <1>2 DEF Unescapes
  <2>2. ASSUME NEW i \in n + 1 .. n + m
        PROVE  str[i] = list[to[i]]
    <3>1. i - n \in 1..m /\ n + (i - n) = i /\ a + (i - n) = i - n + a
      OBVIOUS
    <3>2. str[n + (i - n)] = list[a + (i - n)]
      BY <3>1, Zenon DEF Copies
    <3> QED BY <1>3, <3>1, <3>2
  <2> QED BY <2>1, <2>2, Split
<1> QED BY <1>4, <1>5, <1>6, <1>7, Zenon DEF Unescapes, PrefixDone

Agree(str, old, n) == \A i \in 1..n : str[i] = old[i]
Comma(str, i) == str[i] = ","
Mark(str, i) == str[i] = "\\"

\* An escaped comma is unescaped by leaving its backslash out.
LEMMA Skipped ==
  ASSUME NEW old, NEW str, NEW n \in Nat, NEW list, NEW a \in Nat,
         PrefixDone(old, n, list, a), Agree(str, old, n), Comma(str, n + 1),
         Mark(list, a + 1), Comma(list, a + 2)
  PROVE  PrefixDone(str, n + 1, list, a + 2)
<1>1. PICK at : Unescapes(at, old, n, list, a)
  BY DEF PrefixDone
<1> DEFINE to == [i \in 1 .. n + 1 |-> IF i <= n THEN at[i] ELSE a + 2]
<1>2. ASSUME NEW i \in 1..n
      PROVE  to[i] = at[i] /\ to[i] \in 1..a
  <2>1. i <= n /\ i \in 1 .. n + 1
    OBVIOUS
  <2>2. at[i] \in 1..a
    BY <1>1 DEF Unescapes
  <2> QED BY <2>1, <2>2
<1>3. to[n + 1] = a + 2
  OBVIOUS
<1>4. \A i \in 1 .. n + 1 : i \in 1..n \/ i = n + 1
  OBVIOUS
<1>5. to \in [1 .. n + 1 -> 1 .. a + 2]
  <2>1. a + 2 \in 1 .. a + 2 /\ \A x \in 1..a : x \in 1 .. a + 2
    OBVIOUS
  <2>2. \A i \in 1 .. n + 1 : to[i] \in 1 .. a + 2
    BY <1>2, <1>3, <1>4, <2>1, Zenon
  <2> QED BY <2>2
<1> HIDE DEF to
<1>6. \A i, j \in 1 .. n + 1 : i < j => to[i] < to[j]
  <2> SUFFICES ASSUME NEW i \in 1 .. n + 1, NEW j \in 1 .. n + 1, i < j
               PROVE  to[i] < to[j]
    OBVIOUS
  <2>1. i \in 1..n
    OBVIOUS
  <2>2. CASE j \in 1..n
    BY <1>1, <1>2, <2>1, <2>2 DEF Unescapes
  <2>3. CASE j = n + 1
    BY <1>2, <1>3, <2>1, <2>3
  <2> QED BY <1>4, <2>2, <2>3
<1>7. ASSUME NEW k \in 1 .. a + 2
      PROVE  (\E i \in 1 .. n + 1 : to[i] = k) <=> ~Dropped(list, k, a + 2)
  <2>1. CASE k \in 1..a
    <3>1. Dropped(list, k, a + 2) <=> Dropped(list, k, a)
      <4>1. CASE k < a
        <5>1. k < a + 2
          BY <4>1
        <5> QED BY <4>1, <5>1, Zenon DEF Dropped
      <4>2. CASE k = a
        <5>1. ~(k < a) /\ k + 1 = a + 1
          BY <4>2
        <5> QED BY <5>1, Zenon DEF Dropped, Mark
      <4> QED BY <2>1, <4>1, <4>2
    <3>2. ASSUME NEW i \in 1 .. n + 1, to[i] = k
          PROVE  i \in 1..n /\ at[i] = k
      BY <1>2, <1>3, <1>4, <2>1, <3>2
    <3>3. ASSUME NEW i \in 1..n, at[i] = k
          PROVE  i \in 1 .. n + 1 /\ to[i] = k
      BY <1>2, <3>3
    <3>4. (\E i \in 1 .. n + 1 : to[i] = k) <=> (\E i \in 1..n : at[i] = k)
      BY <3>2, <3>3, Zenon
    <3> QED BY <1>1, <2>1, <3>1, <3>4, Zenon DEF Unescapes
  <2>2. CASE k = a + 1
    <3>1. \A i \in 1 .. n + 1 : to[i] # k
      BY <1>2, <1>3, <1>4, <2>2
    <3>2. k < a + 2 /\ k + 1 = a + 2
      BY <2>2
    <3> QED BY <2>2, <3>1, <3>2, Zenon DEF Dropped, Mark, Comma
  <2>3. CASE k = a + 2
    <3>1. n + 1 \in 1 .. n + 1 /\ to[n + 1] = k
      BY <1>3, <2>3
    <3>2. ~(k < a + 2)
      BY <2>3
    <3>3. ~Dropped(list, k, a + 2)
      BY <3>2, Zenon DEF Dropped
    <3> QED BY <3>1, <3>3
  <2> QED BY <2>1, <2>2, <2>3
<1>8. \A i \in 1 .. n + 1 : str[i] = list[to[i]]
  <2>1. \A i \in 1..n : str[i] = list[to[i]]
    BY <1>1, <1>2 DEF Unescapes, Agree
  <2>2. str[n + 1] = list[to[n + 1]]
    BY <1>3, Zenon DEF Comma
  <2> QED BY <1>4, <2>1, <2>2
<1> QED BY <1>5, <1>6, <1>7, <1>8, Zenon DEF Unescapes, PrefixDone

\* At its start a tag is done as far as it goes.
LEMMA NothingDone ==
  ASSUME NEW str, NEW list
  PROVE  PrefixDone(str, 0, list, 0)
<1>1. Unescapes([i \in 1..0 |-> i], str, 0, list, 0)
  BY DEF Unescapes
<1> QED BY <1>1 DEF PrefixDone

-----------------------------------------------------------------------------
(* How far a call has got with the list that its tag starts.  It has taken *)
(* d backslashes out, and its offset is at the last comma it passed.       *)

NoComma(str, a, b) == \A k \in a + 1 .. b : ~Comma(str, k)
NoCut(list, b) == \A k \in 1..b : ~Cut(list, k)
Follows(list, str, offset, d) ==
  \A k \in offset + 1 .. Len(str) : str[k] = list[k + d]

Reached(list, str, offset, d) ==
  /\ list \in Values /\ str \in Values /\ d \in Nat /\ offset \in 0..Len(str)
  /\ Len(list) = Len(str) + d
  /\ offset = 0 => str = list
  /\ offset # 0 => Comma(str, offset) /\ Comma(list, offset + d)
  /\ NoCut(list, offset + d)
  /\ Follows(list, str, offset, d)
  /\ PrefixDone(str, offset, list, offset + d)

\* Up to the next comma nothing is rewritten, and there is no cut.
LEMMA Advanced ==
  ASSUME NEW list, NEW str, NEW offset, NEW d, Reached(list, str, offset, d),
         NEW e \in offset .. Len(str), NoComma(str, offset, e)
  PROVE  PrefixDone(str, e, list, e + d) /\ NoCut(list, e + d)
<1>1. /\ offset \in Nat /\ d \in Nat /\ Len(str) \in Nat /\ e \in Nat
      /\ e - offset \in Nat /\ offset + d \in Nat /\ e + d \in Nat
      /\ offset + (e - offset) = e /\ offset + d + (e - offset) = e + d
  BY DEF Reached, Values
<1> DEFINE m == e - offset  a == offset + d
<1> HIDE DEF m, a
<1>2. /\ m \in Nat /\ a \in Nat /\ offset + m = e /\ a + m = e + d
      /\ a = offset + d
  BY <1>1 DEF m, a
<1>3. ASSUME NEW j \in 1..m
      PROVE  str[offset + j] = list[a + j]
  <2>1. offset + j \in offset + 1 .. Len(str) /\ offset + j + d = a + j
    BY <1>1, <1>2
  <2>2. str[offset + j] = list[offset + j + d]
    BY <2>1, Zenon DEF Reached, Follows
  <2> QED BY <2>1, <2>2
<1>4. ASSUME NEW k \in a + 1 .. a + m
      PROVE  ~Comma(list, k)
  <2>1. /\ k - d \in offset + 1 .. Len(str) /\ (k - d) + d = k
        /\ k - d \in offset + 1 .. e
    BY <1>1, <1>2
  <2>2. str[k - d] = list[(k - d) + d] /\ ~Comma(str, k - d)
    BY <2>1, Zenon DEF Reached, Follows, NoComma
  <2> QED BY <2>1, <2>2, Zenon DEF Comma
<1>5. PrefixDone(str, offset + m, list, a + m)
  <2>1. Copies(str, offset, list, a, m)
    BY <1>3 DEF Copies
  <2>2. Unmarked(list, a, a + m)
    BY <1>4, Zenon DEF Unmarked, Comma
  <2>3. PrefixDone(str, offset, list, a)
    BY <1>2 DEF Reached
  <2> QED BY <1>1, <1>2, <2>1, <2>2, <2>3, Copied
<1>6. ASSUME NEW k \in 1 .. a + m
      PROVE  ~Cut(list, k)
  <2>1. k \in 1..a \/ k \in a + 1 .. a + m
    BY <1>2, Split
  <2>2. CASE k \in 1..a
    BY <1>2, <2>2 DEF Reached, NoCut
  <2>3. CASE k \in a + 1 .. a + m
    BY <1>4, <2>3, Zenon DEF Cut, Comma
  <2> QED BY <2>1, <2>2, <2>3
<1> QED BY <1>2, <1>5, <1>6 DEF NoCut

\* Cuts by the two symbols that make them.
LEMMA CutIs ==
  ASSUME NEW str, NEW k
  PROVE  Cut(str, k) <=> Comma(str, k) /\ (k = 1 \/ ~Mark(str, k - 1))
BY DEF Cut, Comma, Mark

\* A new call starts where its list does.
LEMMA Starts ==
  ASSUME NEW list \in Values
  PROVE  Reached(list, list, 0, 0)
<1>1. Len(list) \in Nat
  BY DEF Values
<1>2. Follows(list, list, 0, 0)
  BY <1>1 DEF Follows
<1>3. NoCut(list, 0)
  BY DEF NoCut
<1> QED BY <1>1, <1>2, <1>3, NothingDone DEF Reached

\* The call for a list whose comma is escaped goes on after that comma.
LEMMA PassesComma ==
  ASSUME NEW list, NEW str, NEW offset, NEW d, Reached(list, str, offset, d),
         NEW i \in offset + 1 .. Len(str), i # 1, Comma(str, i),
         NoComma(str, offset, i - 1), Mark(str, i - 1)
  PROVE  Reached(list, Without(str, i - 1), i - 1, d + 1)
<1> DEFINE rest == Without(str, i - 1)
<1>1. /\ offset \in Nat /\ d \in Nat /\ Len(str) \in Nat /\ i \in 2..Len(str)
      /\ Len(list) = Len(str) + d /\ str \in Values /\ list \in Values
  BY DEF Reached, Values
<1>2. /\ rest \in Values /\ Len(rest) = Len(str) - 1
      /\ \A k \in 1 .. i - 2 : rest[k] = str[k]
      /\ \A k \in i - 1 .. Len(rest) : rest[k] = str[k + 1]
  BY <1>1, SMTT(30) DEF Values, Without
<1> HIDE DEF rest
<1>3. i - 1 # offset
  <2>1. offset # 0 => ~Mark(str, offset)
    BY Zenon DEF Reached, Comma, Mark
  <2> QED BY <1>1, <2>1
<1>4. /\ i - 2 \in offset .. Len(str) /\ i - 2 \in Nat /\ i - 2 + d \in Nat
      /\ i - 2 + 1 = i - 1 /\ (i - 2 + d) + 1 = i - 1 + d
      /\ (i - 2 + d) + 2 = i + d /\ i - 1 + (d + 1) = i + d
      /\ i - 1 \in offset + 1 .. Len(str) /\ i - 1 \in i - 1 .. Len(rest)
      /\ i - 1 + 1 = i
  BY <1>1, <1>2, <1>3
<1>5. Mark(list, i - 1 + d) /\ Comma(list, i + d)
  <2>1. str[i - 1] = list[i - 1 + d] /\ str[i] = list[i + d]
    BY <1>4, Zenon DEF Reached, Follows
  <2> QED BY <2>1, Zenon DEF Mark, Comma
<1>6. PrefixDone(str, i - 2, list, i - 2 + d)
  <2>1. NoComma(str, offset, i - 2)
    <3>1. \A k \in offset + 1 .. i - 2 : k \in offset + 1 .. i - 1
      BY <1>1
    <3> QED BY <3>1, Zenon DEF NoComma
  <2> QED BY <1>4, <2>1, Advanced
<1>7. PrefixDone(rest, i - 1, list, i + d)
  <2>1. Comma(rest, i - 1) /\ Agree(rest, str, i - 2)
    BY <1>2, <1>4, Zenon DEF Comma, Agree
  <2>2. PrefixDone(rest, i - 2 + 1, list, i - 2 + d + 2)
    BY <1>4, <1>5, <1>6, <2>1, Skipped
  <2> QED BY <1>4, <2>2
<1>8. NoCut(list, i + d)
  <2>1. NoCut(list, i - 1 + d)
    <3>1. i - 1 \in offset .. Len(str)
      BY <1>4, <1>1
    <3> QED BY <3>1, Advanced
  <2>2. ~Cut(list, i + d)
    <3>1. i + d # 1 /\ i + d - 1 = i - 1 + d
      BY <1>1
    <3>2. Mark(list, i + d - 1)
      BY <1>5, <3>1
    <3>3. i \in Nat /\ d \in Nat /\ i + d # 1
      BY <1>1, <3>1
    <3> QED BY <3>2, <3>3, CutIs
  <2>3. \A k \in 1 .. i + d : k \in 1 .. i - 1 + d \/ k = i + d
    BY <1>1
  <2> QED BY <2>1, <2>2, <2>3, Zenon DEF NoCut
<1>9. Follows(list, rest, i - 1, d + 1)
  <2> SUFFICES ASSUME NEW k \in i - 1 + 1 .. Len(rest)
               PROVE  rest[k] = list[k + (d + 1)]
    BY DEF Follows
  <2>1. /\ k \in i - 1 .. Len(rest) /\ k + 1 \in offset + 1 .. Len(str)
        /\ k + 1 + d = k + (d + 1)
    BY <1>1, <1>2
  <2>2. rest[k] = str[k + 1] /\ str[k + 1] = list[k + 1 + d]
    BY <1>2, <2>1, Zenon DEF Reached, Follows
  <2> QED BY <2>1, <2>2
<1>10. /\ i - 1 \in 0..Len(rest) /\ d + 1 \in Nat /\ i - 1 # 0
       /\ Len(list) = Len(rest) + (d + 1)
  BY <1>1, <1>2
<1>11. Comma(rest, i - 1) /\ Comma(list, i - 1 + (d + 1))
  BY <1>2, <1>4, <1>5, Zenon DEF Comma
<1>12. Reached(list, rest, i - 1, d + 1)
  BY <1>1, <1>2, <1>4, <1>7, <1>8, <1>9, <1>10, <1>11 DEF Reached
<1> QED BY <1>12 DEF rest

-----------------------------------------------------------------------------
(* A list is split like what follows its first cut                         *)

\* What IsSplit says of tags, and that they come in the opposite order.
LastFirst(tags, str) ==
  \E first, last \in [DOMAIN tags -> DOMAIN str] :
    /\ \A n \in DOMAIN tags :
         /\ first[n] <= last[n]
         /\ IsUnescaped(tags[n], SubSeq(str, first[n], last[n]))
    /\ \A m, n \in DOMAIN tags :
         m < n => \E i \in last[n] + 1 .. first[m] - 1 : Cut(str, i)
    /\ \A i \in DOMAIN str :
         Cut(str, i) <=> \A n \in DOMAIN tags : i \notin first[n] .. last[n]

\* Tags in the opposite order are separated by cuts, as IsSplit says.
LEMMA LastFirstSplits ==
  ASSUME NEW tags \in Seq(Values), NEW list \in Values, LastFirst(tags, list)
  PROVE  IsSplit(tags, list)
<1>1. /\ DOMAIN tags = 1..Len(tags) /\ DOMAIN list = 1..Len(list)
      /\ Len(tags) \in Nat /\ Len(list) \in Nat
  BY DEF Values
<1>2. PICK first, last \in [DOMAIN tags -> DOMAIN list] :
        /\ \A n \in DOMAIN tags :
             /\ first[n] <= last[n]
             /\ IsUnescaped(tags[n], SubSeq(list, first[n], last[n]))
        /\ \A m, n \in DOMAIN tags :
             m < n => \E i \in last[n] + 1 .. first[m] - 1 : Cut(list, i)
        /\ \A i \in DOMAIN list :
             Cut(list, i) <=> \A n \in DOMAIN tags : i \notin first[n] .. last[n]
  BY Zenon DEF LastFirst
<1>3. ASSUME NEW m \in DOMAIN tags, NEW n \in DOMAIN tags, m < n
      PROVE  \E i \in DOMAIN list :
               Cut(list, i) /\ i < first[m] /\ ~(i < first[n])
  <2>1. PICK i \in last[n] + 1 .. first[m] - 1 : Cut(list, i)
    BY <1>2, <1>3, Zenon
  <2>2. /\ first[m] \in 1..Len(list) /\ first[n] \in 1..Len(list)
        /\ last[n] \in 1..Len(list) /\ first[n] <= last[n]
    BY <1>1, <1>2, Zenon
  <2>3. i \in 1..Len(list) /\ i < first[m] /\ ~(i < first[n])
    BY <1>1, <2>2
  <2> QED BY <1>1, <2>1, <2>3, Zenon
<1>4. ASSUME NEW m \in DOMAIN tags, NEW n \in DOMAIN tags, m # n
      PROVE  \E i \in DOMAIN list :
               Cut(list, i) /\ (i < first[m] <=> ~(i < first[n]))
  <2>1. m < n \/ n < m
    BY <1>1, <1>4
  <2> QED BY <1>3, <2>1, Zenon
<1> QED BY <1>2, <1>4, Zenon DEF IsSplit

\* Where the parts of what follows position c of a list are.
Parts(first, last, N, list, c) ==
  /\ first \in [1..N -> c + 1 .. Len(list)] /\ last \in [1..N -> c + 1 .. Len(list)]
  /\ \A n \in 1..N : first[n] <= last[n]
  /\ \A m, n \in 1..N :
       m < n => \E i \in last[n] + 1 .. first[m] - 1 : Cut(list, i)
  /\ \A i \in c + 1 .. Len(list) :
       Cut(list, i) <=> \A n \in 1..N : i \notin first[n] .. last[n]

Unescaped(first, last, tags, list) ==
  \A n \in 1..Len(tags) :
    IsUnescaped(tags[n], SubSeq(list, first[n], last[n]))

\* LastFirst in terms of where the parts are and what their tags are.
LEMMA SplitParts ==
  ASSUME NEW tags \in Seq(Values), NEW list \in Values
  PROVE  LastFirst(tags, list) <=>
           \E first, last : /\ Parts(first, last, Len(tags), list, 0)
                            /\ Unescaped(first, last, tags, list)
<1>1. DOMAIN tags = 1..Len(tags) /\ DOMAIN list = 0 + 1 .. Len(list)
  BY DEF Values
<1> QED BY <1>1, Zenon DEF LastFirst, Parts, Unescaped

After(list, c) == SubSeq(list, c + 1, Len(list))

\* What follows the comma at c: its length and its symbols.
LEMMA AfterIs ==
  ASSUME NEW list \in Values, NEW c \in 1..Len(list)
  PROVE  /\ After(list, c) \in Values /\ Len(After(list, c)) = Len(list) - c
         /\ DOMAIN After(list, c) = 1 .. Len(list) - c
         /\ \A k \in 1 .. Len(list) - c : After(list, c)[k] = list[k + c]
BY DEF Values, After

\* The cuts after a comma are those of the whole list.
LEMMA AfterCut ==
  ASSUME NEW list \in Values, NEW c \in 1..Len(list), Comma(list, c),
         NEW k \in 1 .. Len(list) - c
  PROVE  Cut(After(list, c), k) <=> Cut(list, k + c)
<1>1. Len(list) \in Nat /\ c \in Nat
  BY DEF Values
<1>2. After(list, c)[k] = list[k + c]
  BY AfterIs
<1>5. Comma(After(list, c), k) <=> Comma(list, k + c)
  BY <1>2, Zenon DEF Comma
<1>6. Cut(list, k + c) <=>
        Comma(list, k + c) /\ (k + c = 1 \/ ~Mark(list, k + c - 1))
  BY CutIs
<1>3. CASE k = 1
  <2>1. k + c - 1 = c /\ k + c # 1
    BY <1>1, <1>3
  <2>2. ~Mark(list, k + c - 1)
    BY <2>1, Zenon DEF Comma, Mark
  <2> QED BY <1>5, <1>6, <1>3, <2>1, <2>2, CutIs
<1>4. CASE k # 1
  <2>1. k - 1 \in 1 .. Len(list) - c /\ k - 1 + c = k + c - 1 /\ k + c # 1
    BY <1>1, <1>4
  <2>2. After(list, c)[k - 1] = list[k - 1 + c]
    BY <2>1, AfterIs
  <2>3. Mark(After(list, c), k - 1) <=> Mark(list, k + c - 1)
    BY <2>1, <2>2 DEF Mark
  <2> QED BY <1>5, <1>6, <1>4, <2>1, <2>3, CutIs
<1> QED BY <1>3, <1>4

\* The parts after a comma are parts of the whole list.
LEMMA AfterSub ==
  ASSUME NEW list \in Values, NEW c \in 1..Len(list),
         NEW f \in 1 .. Len(list) - c, NEW l \in 1 .. Len(list) - c
  PROVE  SubSeq(After(list, c), f, l) = SubSeq(list, f + c, l + c)
BY DEF Values, After

\* A number between two others stays there when all are moved.
LEMMA Between ==
  ASSUME NEW x \in Int, NEW y \in Int, NEW i \in x + 1 .. y - 1, NEW c \in Nat
  PROVE  i + c \in x + c + 1 .. y + c - 1
OBVIOUS

\* Where the parts after a comma are in the whole list ...
LEMMA Shift ==
  ASSUME NEW list \in Values, NEW c \in 1..Len(list), Comma(list, c),
         NEW first, NEW last, NEW N \in Nat,
         Parts(first, last, N, After(list, c), 0)
  PROVE  Parts([n \in 1..N |-> first[n] + c], [n \in 1..N |-> last[n] + c],
               N, list, c)
<1> DEFINE f == [n \in 1..N |-> first[n] + c]  l == [n \in 1..N |-> last[n] + c]
           L == Len(list) - c
<1>1. Len(list) \in Nat /\ L \in Nat /\ Len(After(list, c)) = L /\ c \in Nat
  BY AfterIs DEF Values
<1>2. \A k \in 1..L : Cut(After(list, c), k) <=> Cut(list, k + c)
  BY AfterCut
<1>3. /\ \A n \in 1..N : first[n] \in 1..L /\ last[n] \in 1..L
      /\ \A n \in 1..N : first[n] <= last[n]
  BY <1>1 DEF Parts
<1>4. \A k \in 1..L : Cut(list, k + c) <=>
                        \A n \in 1..N : k \notin first[n] .. last[n]
  <2>1. 0 + 1 .. Len(After(list, c)) = 1..L
    BY <1>1
  <2>2. \A k \in 1..L : Cut(After(list, c), k) <=>
                          \A n \in 1..N : k \notin first[n] .. last[n]
    BY <2>1, Zenon DEF Parts
  <2> QED BY <1>2, <2>2, Zenon
<1>5. \A m, n \in 1..N :
        m < n => \E i \in last[n] + 1 .. first[m] - 1 :
                   i \in 1..L /\ Cut(list, i + c)
  <2> SUFFICES ASSUME NEW m \in 1..N, NEW n \in 1..N, m < n
               PROVE  \E i \in last[n] + 1 .. first[m] - 1 :
                        i \in 1..L /\ Cut(list, i + c)
    OBVIOUS
  <2>1. PICK i \in last[n] + 1 .. first[m] - 1 : Cut(After(list, c), i)
    BY Zenon DEF Parts
  <2>2. i \in 1..L
    BY <1>1, <1>3, SMTT(30)
  <2> QED BY <1>2, <2>1, <2>2
<1>6. \A n \in 1..N : f[n] = first[n] + c /\ l[n] = last[n] + c
  OBVIOUS
<1>7. \A k \in 1..L : k + c \in c + 1 .. Len(list)
  BY <1>1
<1>8. f \in [1..N -> c + 1 .. Len(list)] /\ l \in [1..N -> c + 1 .. Len(list)]
  BY <1>3, <1>7, SMTT(30)
<1> HIDE DEF f, l, L
<1>9. \A n \in 1..N : f[n] <= l[n]
  BY <1>1, <1>3, <1>6, SMTT(30)
<1>10. ASSUME NEW m \in 1..N, NEW n \in 1..N, m < n
       PROVE  \E i \in l[n] + 1 .. f[m] - 1 : Cut(list, i)
  <2>1. PICK i \in last[n] + 1 .. first[m] - 1 : i \in 1..L /\ Cut(list, i + c)
    BY <1>5, <1>10
  <2>2. /\ first[m] \in Int /\ last[n] \in Int /\ i \in Int
        /\ f[m] = first[m] + c /\ l[n] = last[n] + c
    BY <1>1, <1>3, <1>6, <2>1, SMTT(30)
  <2>3. i + c \in last[n] + c + 1 .. first[m] + c - 1
    BY <1>1, <2>2, Between, Zenon
  <2>4. i + c \in l[n] + 1 .. f[m] - 1
    BY <2>2, <2>3
  <2> QED BY <2>1, <2>4
<1>11. ASSUME NEW i \in c + 1 .. Len(list)
       PROVE  Cut(list, i) <=> \A n \in 1..N : i \notin f[n] .. l[n]
  <2>1. i - c \in 1..L /\ (i - c) + c = i
    BY <1>1 DEF L
  <2>2. Cut(list, i) <=> \A n \in 1..N : i - c \notin first[n] .. last[n]
    BY <1>4, <2>1
  <2>3. ASSUME NEW n \in 1..N
        PROVE  i - c \in first[n] .. last[n] <=> i \in f[n] .. l[n]
    <3>1. /\ first[n] \in Int /\ last[n] \in Int
          /\ f[n] = first[n] + c /\ l[n] = last[n] + c
      BY <1>1, <1>3, <1>6
    <3> QED BY <1>1, <3>1, SMTT(30)
  <2> QED BY <2>2, <2>3
<1>12. Parts(f, l, N, list, c)
  BY <1>8, <1>9, <1>10, <1>11, Zenon DEF Parts
<1> QED BY <1>12 DEF f, l

\* ... and that their tags are the same there.
LEMMA ShiftUnescaped ==
  ASSUME NEW list \in Values, NEW c \in 1..Len(list), NEW tags \in Seq(Values),
         NEW first, NEW last,
         Parts(first, last, Len(tags), After(list, c), 0),
         Unescaped(first, last, tags, After(list, c))
  PROVE  Unescaped([n \in 1..Len(tags) |-> first[n] + c],
                   [n \in 1..Len(tags) |-> last[n] + c], tags, list)
<1> SUFFICES ASSUME NEW n \in 1..Len(tags)
             PROVE  IsUnescaped(tags[n],
                                SubSeq(list, first[n] + c, last[n] + c))
  BY DEF Unescaped
<1>1. 0 + 1 .. Len(After(list, c)) = 1 .. Len(list) - c
  BY AfterIs
<1>2. first[n] \in 1 .. Len(list) - c /\ last[n] \in 1 .. Len(list) - c
  BY <1>1, Zenon DEF Parts
<1>3. SubSeq(After(list, c), first[n], last[n]) =
        SubSeq(list, first[n] + c, last[n] + c)
  BY <1>2, AfterSub, Zenon
<1>4. IsUnescaped(tags[n], SubSeq(After(list, c), first[n], last[n]))
  BY DEF Unescaped
<1> QED BY <1>3, <1>4

\* A list that starts with a comma has the tags of what follows it.
LEMMA JoinEmpty ==
  ASSUME NEW list \in Values, 1 \in 1..Len(list), Comma(list, 1),
         NEW first, NEW last, NEW N \in Nat, Parts(first, last, N, list, 1)
  PROVE  Parts(first, last, N, list, 0)
<1>1. Len(list) \in Nat
  BY DEF Values
<1>2. /\ \A k \in 1 + 1 .. Len(list) : k \in 0 + 1 .. Len(list)
      /\ \A k \in 0 + 1 .. Len(list) : k \in 1 + 1 .. Len(list) \/ k = 1
  BY <1>1
<1>3. /\ first \in [1..N -> 0 + 1 .. Len(list)]
      /\ last \in [1..N -> 0 + 1 .. Len(list)]
  BY <1>2 DEF Parts
<1>4. Cut(list, 1)
  BY CutIs
<1>5. \A n \in 1..N : 1 \notin first[n] .. last[n]
  <2> TAKE n \in 1..N
  <2>1. first[n] \in 1 + 1 .. Len(list)
    BY DEF Parts
  <2> QED BY <1>1, <2>1
<1>6. \A i \in 0 + 1 .. Len(list) :
        Cut(list, i) <=> \A n \in 1..N : i \notin first[n] .. last[n]
  BY <1>2, <1>4, <1>5, Zenon DEF Parts
<1> QED BY <1>3, <1>6, Zenon DEF Parts

\* What precedes the first cut of a list is its last tag.
LEMMA Join ==
  ASSUME NEW list \in Values, NEW c \in 2..Len(list), Cut(list, c),
         NoCut(list, c - 1),
         NEW first, NEW last, NEW N \in Nat, Parts(first, last, N, list, c)
  PROVE  Parts([n \in 1 .. N + 1 |-> IF n = N + 1 THEN 1 ELSE first[n]],
               [n \in 1 .. N + 1 |-> IF n = N + 1 THEN c - 1 ELSE last[n]],
               N + 1, list, 0)
<1> DEFINE f == [n \in 1 .. N + 1 |-> IF n = N + 1 THEN 1 ELSE first[n]]
           l == [n \in 1 .. N + 1 |-> IF n = N + 1 THEN c - 1 ELSE last[n]]
           P == 0 + 1 .. Len(list)
<1>1. /\ Len(list) \in Nat /\ c \in Nat /\ 1 \in P /\ c - 1 \in P
      /\ \A k \in c + 1 .. Len(list) : k \in P
      /\ \A k \in P : k \in 1 .. c - 1 \/ k = c \/ k \in c + 1 .. Len(list)
  BY DEF Values
<1>2. /\ \A n \in 1 .. N + 1 : n \in 1..N \/ n = N + 1
      /\ \A n \in 1..N : n \in 1 .. N + 1 /\ n # N + 1
      /\ N + 1 \in 1 .. N + 1
  OBVIOUS
<1>3. f[N + 1] = 1 /\ l[N + 1] = c - 1
  BY <1>2
<1>4. \A n \in 1..N : f[n] = first[n] /\ l[n] = last[n]
  BY <1>2
<1>5. \A n \in 1..N : first[n] \in c + 1 .. Len(list) /\ last[n] \in c + 1 .. Len(list)
  BY DEF Parts
<1>6. f \in [1 .. N + 1 -> P] /\ l \in [1 .. N + 1 -> P]
  <2>1. \A n \in 1 .. N + 1 : f[n] \in P /\ l[n] \in P
    BY <1>1, <1>2, <1>3, <1>4, <1>5, Zenon
  <2> HIDE DEF P
  <2> QED BY <2>1
<1> HIDE DEF f, l, P
<1>7. \A n \in 1 .. N + 1 : f[n] <= l[n]
  <2>1. \A n \in 1..N : f[n] <= l[n]
    BY <1>4 DEF Parts
  <2>2. f[N + 1] <= l[N + 1]
    BY <1>3
  <2> QED BY <1>2, <2>1, <2>2, Zenon
<1>8. ASSUME NEW m \in 1 .. N + 1, NEW n \in 1 .. N + 1, m < n
      PROVE  \E i \in l[n] + 1 .. f[m] - 1 : Cut(list, i)
  <2>1. m \in 1..N
    BY <1>8
  <2>2. CASE n \in 1..N
    <3>1. \E i \in last[n] + 1 .. first[m] - 1 : Cut(list, i)
      BY <1>8, <2>1, <2>2, Zenon DEF Parts
    <3> QED BY <1>4, <2>1, <2>2, <3>1, Zenon
  <2>3. CASE n = N + 1
    <3>1. l[n] = c - 1 /\ f[m] = first[m] /\ first[m] \in c + 1 .. Len(list)
      BY <1>3, <1>4, <1>5, <2>1, <2>3
    <3>2. c \in l[n] + 1 .. f[m] - 1
      BY <1>1, <3>1
    <3> QED BY <3>2
  <2> QED BY <1>2, <2>2, <2>3
<1>9. ASSUME NEW i \in P
      PROVE  Cut(list, i) <=> \A n \in 1 .. N + 1 : i \notin f[n] .. l[n]
  <2>1. CASE i \in 1 .. c - 1
    <3>1. ~Cut(list, i)
      BY <2>1, Zenon DEF NoCut
    <3>2. i \in f[N + 1] .. l[N + 1]
      BY <1>3, <2>1
    <3> QED BY <1>2, <3>1, <3>2, Zenon
  <2>2. CASE i = c
    <3>1. i \notin f[N + 1] .. l[N + 1]
      BY <1>3, <2>2
    <3>2. ASSUME NEW n \in 1..N PROVE i \notin f[n] .. l[n]
      <4>1. f[n] \in c + 1 .. Len(list) /\ l[n] \in c + 1 .. Len(list)
        BY <1>4, <1>5
      <4> QED BY <1>1, <2>2, <4>1
    <3> QED BY <1>2, <2>2, <3>1, <3>2, Zenon
  <2>3. CASE i \in c + 1 .. Len(list)
    <3>1. i \notin f[N + 1] .. l[N + 1]
      BY <1>3, <2>3
    <3>2. Cut(list, i) <=> \A n \in 1..N : i \notin first[n] .. last[n]
      BY <2>3, Zenon DEF Parts
    <3>3. Cut(list, i) <=> \A n \in 1..N : i \notin f[n] .. l[n]
      BY <1>4, <3>2, Zenon
    <3> QED BY <1>2, <3>1, <3>3, Zenon
  <2> QED BY <1>1, <2>1, <2>2, <2>3
<1>10. Parts(f, l, N + 1, list, 0)
  BY <1>6, <1>7, <1>8, <1>9, Zenon DEF Parts, P
<1> QED BY <1>10 DEF f, l

\* The parser may skip a comma that a list starts with.
LEMMA SplitAfterComma ==
  ASSUME NEW list \in Values, 1 \in 1..Len(list), Comma(list, 1),
         NEW tags \in Seq(Values), LastFirst(tags, After(list, 1))
  PROVE  LastFirst(tags, list)
<1>1. After(list, 1) \in Values /\ Len(tags) \in Nat
  BY AfterIs
<1>2. PICK first, last : /\ Parts(first, last, Len(tags), After(list, 1), 0)
                         /\ Unescaped(first, last, tags, After(list, 1))
  BY <1>1, SplitParts
<1> DEFINE f == [n \in 1..Len(tags) |-> first[n] + 1]
           l == [n \in 1..Len(tags) |-> last[n] + 1]
<1>3. Unescaped(f, l, tags, list)
  BY <1>2, ShiftUnescaped
<1>4. Parts(f, l, Len(tags), list, 1)
  BY <1>1, <1>2, Shift
<1> HIDE DEF f, l
<1>5. Parts(f, l, Len(tags), list, 0)
  BY <1>1, <1>4, JoinEmpty
<1> QED BY <1>3, <1>5, SplitParts

\* The parser may append what precedes the first cut to the tags of the rest.
LEMMA SplitAtCut ==
  ASSUME NEW list \in Values, NEW c \in 2..Len(list), Cut(list, c),
         NoCut(list, c - 1),
         NEW tags \in Seq(Values), LastFirst(tags, After(list, c)),
         NEW tag \in Values, IsUnescaped(tag, SubSeq(list, 1, c - 1))
  PROVE  LastFirst(Append(tags, tag), list)
<1> DEFINE N == Len(tags)  all == Append(tags, tag)
<1>1. c \in 1..Len(list) /\ N \in Nat /\ Comma(list, c)
  BY CutIs DEF Values
<1>2. After(list, c) \in Values
  BY <1>1, AfterIs
<1>3. /\ all \in Seq(Values) /\ Len(all) = N + 1 /\ all[N + 1] = tag
      /\ \A n \in 1..N : all[n] = tags[n]
  OBVIOUS
<1>4. PICK first, last : /\ Parts(first, last, N, After(list, c), 0)
                         /\ Unescaped(first, last, tags, After(list, c))
  BY <1>2, SplitParts
<1> DEFINE f == [n \in 1..N |-> first[n] + c]
           l == [n \in 1..N |-> last[n] + c]
<1>5. Unescaped(f, l, tags, list)
  BY <1>1, <1>4, ShiftUnescaped
<1>6. Parts(f, l, N, list, c)
  BY <1>1, <1>4, Shift
<1> HIDE DEF f, l, all
<1> DEFINE F == [n \in 1 .. N + 1 |-> IF n = N + 1 THEN 1 ELSE f[n]]
           G == [n \in 1 .. N + 1 |-> IF n = N + 1 THEN c - 1 ELSE l[n]]
<1>7. Parts(F, G, N + 1, list, 0)
  BY <1>1, <1>6, Join
<1>8. Unescaped(F, G, all, list)
  <2>1. /\ \A n \in 1 .. N + 1 : n \in 1..N \/ n = N + 1
        /\ \A n \in 1..N : n \in 1 .. N + 1 /\ n # N + 1
        /\ N + 1 \in 1 .. N + 1
    BY <1>1
  <2>2. F[N + 1] = 1 /\ G[N + 1] = c - 1
    BY <2>1
  <2>3. \A n \in 1..N : F[n] = f[n] /\ G[n] = l[n]
    BY <2>1
  <2> HIDE DEF F, G
  <2>4. \A n \in 1..N : IsUnescaped(all[n], SubSeq(list, F[n], G[n]))
    BY <1>3, <1>5, <2>3, Zenon DEF Unescaped
  <2>5. IsUnescaped(all[N + 1], SubSeq(list, F[N + 1], G[N + 1]))
    BY <1>3, <2>2, Zenon
  <2> QED BY <1>3, <2>1, <2>4, <2>5, Zenon DEF Unescaped
<1> HIDE DEF F, G, N
<1> QED BY <1>3, <1>7, <1>8, SplitParts, Zenon DEF all

\* A list without a cut is one tag.
LEMMA SplitWhole ==
  ASSUME NEW list \in Values, list # <<>>, NoCut(list, Len(list)),
         NEW tag \in Values, IsUnescaped(tag, SubSeq(list, 1, Len(list)))
  PROVE  LastFirst(<<tag>>, list)
<1>1. Len(list) \in Nat /\ 1 \in 1..Len(list) /\ Len(list) \in 1..Len(list)
  BY DEF Values
<1>2. <<tag>> \in Seq(Values) /\ Len(<<tag>>) = 1 /\ <<tag>>[1] = tag
  OBVIOUS
<1> DEFINE f == [n \in 1..1 |-> 1]  l == [n \in 1..1 |-> Len(list)]
<1>3. /\ f \in [1..1 -> 0 + 1 .. Len(list)] /\ l \in [1..1 -> 0 + 1 .. Len(list)]
      /\ f[1] = 1 /\ l[1] = Len(list)
  BY <1>1
<1> HIDE DEF f, l
<1>4. /\ \A n \in 1..1 : n = 1
      /\ 1 \in 1..1
      /\ \A i \in 0 + 1 .. Len(list) : i \in 1..Len(list)
      /\ 1 <= Len(list)
      /\ ~(1 < 1)
  BY <1>1
<1>5. Parts(f, l, 1, list, 0)
  BY <1>3, <1>4, Zenon DEF Parts, NoCut
<1>6. Unescaped(f, l, <<tag>>, list)
  BY <1>2, <1>3, <1>4, Zenon DEF Unescaped
<1> QED BY <1>2, <1>5, <1>6, SplitParts

\* A list without symbols has no tags.
LEMMA SplitNothing == LastFirst(<<>>, <<>>)
<1> DEFINE f == [n \in 1..0 |-> 1]
<1>1. <<>> \in Seq(Values) /\ <<>> \in Values /\ Len(<<>>) = 0
  BY DEF Values
<1>2. f \in [1..0 -> 0 + 1 .. 0]
  OBVIOUS
<1>3. Parts(f, f, 0, <<>>, 0)
  BY <1>2 DEF Parts
<1>4. Unescaped(f, f, <<>>, <<>>)
  BY DEF Unescaped
<1> HIDE DEF f
<1> QED BY <1>1, <1>3, <1>4, SplitParts, Zenon

-----------------------------------------------------------------------------
Parsed(list, str, offset) ==
  /\ recParseEscapedComma[str][offset] \in Seq(Values)
  /\ LastFirst(recParseEscapedComma[str][offset], list)

\* One call, given what the calls it makes return.
LEMMA CallParses ==
  ASSUME NEW list, NEW str, NEW offset, NEW d, Reached(list, str, offset, d),
         \A li, st, o, e : Reached(li, st, o, e) /\ Len(st) < Len(str) =>
                             Parsed(li, st, o)
  PROVE  Parsed(list, str, offset)
<1> DEFINE rec == recParseEscapedComma  i == NextComma(str, offset)
<1>1. /\ str \in Values /\ list \in Values /\ Len(str) \in Nat /\ d \in Nat
      /\ offset \in Nat /\ offset <= Len(str) /\ Len(list) = Len(str) + d
      /\ Len(list) \in Nat
  BY DEF Reached, Values
<1>2. rec[str][offset] = ParseFrom(rec, str, offset)
  BY <1>1, ParseEquation
<1>3. CASE str = <<>>
  <2>1. offset = 0 /\ list = <<>>
    BY <1>1, <1>3 DEF Reached
  <2>2. rec[str][offset] = <<>>
    BY <1>2, <1>3 DEF ParseFrom
  <2> QED BY <2>1, <2>2, SplitNothing DEF Parsed
<1>4. CASE str # <<>> /\ i = 0
  <2>1. rec[str][offset] = <<str>>
    BY <1>2, <1>4, Zenon DEF ParseFrom
  <2>2. NoComma(str, offset, Len(str))
    <3>1. i \notin offset + 1 .. Len(str)
      BY <1>1, <1>4
    <3> HIDE DEF i
    <3> QED BY <1>1, <3>1, FoundComma, Zenon DEF NoComma, Comma, i
  <2>3. Len(str) \in offset .. Len(str) /\ Len(str) + d = Len(list)
    BY <1>1
  <2>4. PrefixDone(str, Len(str), list, Len(list)) /\ NoCut(list, Len(list))
    BY <2>2, <2>3, Advanced
  <2>5. SubSeq(str, 1, Len(str)) = str
    BY <1>1 DEF Values
  <2>6. Len(str) \in 0..Len(str) /\ Len(list) \in 0..Len(list)
    BY <1>1
  <2>7. IsUnescaped(str, SubSeq(list, 1, Len(list)))
    BY <1>1, <2>4, <2>5, <2>6, PrefixIsUnescaped, Zenon
  <2>8. list # <<>>
    <3>1. Len(str) # 0
      BY <1>1, <1>4 DEF Values
    <3> QED BY <1>1, <3>1
  <2>9. LastFirst(<<str>>, list)
    BY <1>1, <2>4, <2>7, <2>8, SplitWhole
  <2> QED BY <1>1, <2>1, <2>9 DEF Parsed
<1>5. CASE str # <<>> /\ i # 0
  <2> HIDE DEF i
  <2>1. /\ i \in offset + 1 .. Len(str) /\ Comma(str, i)
        /\ NoComma(str, offset, i - 1)
    BY <1>1, <1>5, FoundComma, Zenon DEF i, NoComma, Comma
  <2>2. i \in 1..Len(str)
    BY <1>1, <2>1
  <2>3. CASE i = 1
    <3>1. offset = 0 /\ d = 0 /\ str = list
      <4>1. offset = 0
        BY <1>1, <2>1, <2>3
      <4> QED BY <1>1, <4>1 DEF Reached
    <3>2. rec[str][offset] = rec[Tail(str)][0]
      BY <1>2, <1>5, <2>3, Zenon DEF ParseFrom, i
    <3>3. Tail(str) = After(list, 1) /\ Len(Tail(str)) < Len(str)
      BY <1>1, <2>2, <3>1 DEF After, Values
    <3>4. 1 \in 1..Len(list) /\ Comma(list, 1)
      BY <2>1, <2>2, <2>3, <3>1
    <3>5. After(list, 1) \in Values
      BY <1>1, <3>4, AfterIs
    <3>6. Parsed(After(list, 1), After(list, 1), 0)
      BY <3>3, <3>5, Starts
    <3> QED BY <1>1, <3>2, <3>3, <3>4, <3>6, SplitAfterComma, Zenon DEF Parsed
  <2>4. CASE i # 1 /\ Escaped(str, i)
    <3>1. rec[str][offset] = rec[Without(str, i - 1)][i - 1]
      BY <1>2, <1>5, <2>4, Zenon DEF ParseFrom, i
    <3>2. Reached(list, Without(str, i - 1), i - 1, d + 1)
      BY <2>1, <2>4, PassesComma DEF Escaped, Mark
    <3>3. Len(Without(str, i - 1)) < Len(str)
      <4>1. i > 1
        BY <2>2, <2>4
      <4>2. Len(Without(str, i - 1)) = Len(str) - 1
        BY <1>1, <2>2, <4>1, Shorter
      <4> QED BY <1>1, <4>2
    <3>4. Parsed(list, Without(str, i - 1), i - 1)
      BY <3>2, <3>3
    <3> QED BY <3>1, <3>4 DEF Parsed
  <2>5. CASE i # 1 /\ ~Escaped(str, i)
    <3> DEFINE c == i + d  rest == SubSeq(str, i + 1, Len(str))
               tag == SubSeq(str, 1, i - 1)
    <3>1. rec[str][offset] = Append(rec[rest][0], tag)
      BY <1>2, <1>5, <2>5, Zenon DEF ParseFrom, i
    <3>2. /\ i \in 2..Len(str) /\ c \in 2..Len(list) /\ c - 1 = i - 1 + d
          /\ i - 1 \in offset .. Len(str) /\ i - 1 \in 0..Len(str)
          /\ c - 1 \in 0..Len(list) /\ c \in 1..Len(list)
      BY <1>1, <2>1, <2>2, <2>5
    <3>3. PrefixDone(str, i - 1, list, c - 1) /\ NoCut(list, c - 1)
      BY <2>1, <3>2, Advanced
    <3>4. str[i] = list[c]
      BY <2>1, Zenon DEF Reached, Follows
    <3>5. ~Mark(list, c - 1)
      <4>1. CASE i - 1 = offset
        <5>1. offset # 0 /\ offset + d = c - 1
          BY <1>1, <3>2, <4>1
        <5> QED BY <5>1, Zenon DEF Reached, Comma, Mark
      <4>2. CASE i - 1 # offset
        <5>1. i - 1 \in offset + 1 .. Len(str)
          BY <1>1, <3>2, <4>2
        <5>2. str[i - 1] = list[i - 1 + d]
          BY <5>1, Zenon DEF Reached, Follows
        <5>3. list[c - 1] = str[i - 1]
          BY <3>2, <5>2, Zenon
        <5> QED BY <2>5, <5>3 DEF Escaped, Mark
      <4> QED BY <4>1, <4>2
    <3>6. Cut(list, c)
      <4>1. Comma(list, c)
        BY <2>1, <3>4, Zenon DEF Comma
      <4> HIDE DEF c
      <4> QED BY <3>5, <4>1, CutIs
    <3>7. IsUnescaped(tag, SubSeq(list, 1, c - 1)) /\ tag \in Values
      <4>1. tag \in Values
        BY <1>1, <3>2 DEF Values
      <4> HIDE DEF c
      <4> QED BY <1>1, <3>2, <3>3, <4>1, PrefixIsUnescaped
    <3>8. rest = After(list, c) /\ rest \in Values /\ Len(rest) < Len(str)
      <4>1. rest \in Values /\ Len(rest) = Len(str) - i
        BY <1>1, <2>2, Shorter
      <4>2. /\ After(list, c) \in Values /\ Len(After(list, c)) = Len(str) - i
            /\ \A k \in 1 .. Len(str) - i : After(list, c)[k] = list[k + c]
        <5>1. Len(list) - c = Len(str) - i
          BY <1>1, <2>2
        <5> HIDE DEF c
        <5> QED BY <1>1, <3>2, <5>1, AfterIs, Zenon
      <4>3. ASSUME NEW k \in 1 .. Len(str) - i
            PROVE  rest[k] = list[k + c]
        <5>1. /\ k + i \in offset + 1 .. Len(str) /\ k + i + d = k + c
          BY <1>1, <2>1, <2>2
        <5>2. str[k + i] = list[k + i + d]
          BY <5>1, Zenon DEF Reached, Follows
        <5>3. rest[k] = str[k + i]
          BY <1>1, <2>2 DEF Values
        <5> QED BY <5>1, <5>2, <5>3, Zenon
      <4> HIDE DEF c, rest
      <4>4. rest = After(list, c)
        BY <4>1, <4>2, <4>3 DEF Values
      <4> QED BY <1>1, <2>2, <4>1, <4>4
    <3> HIDE DEF c, rest, tag
    <3>9. Parsed(rest, rest, 0)
      BY <3>8, Starts
    <3>10. rec[rest][0] \in Seq(Values) /\ LastFirst(rec[rest][0], After(list, c))
      BY <3>8, <3>9 DEF Parsed
    <3>11. LastFirst(Append(rec[rest][0], tag), list)
      BY <1>1, <3>2, <3>3, <3>6, <3>7, <3>10, SplitAtCut, SMTT(30)
    <3> QED BY <3>1, <3>7, <3>10, <3>11 DEF Parsed
  <2> QED BY <2>3, <2>4, <2>5
<1> QED BY <1>3, <1>4, <1>5

\* recParseEscapedComma cuts every list at the commas that have no backslash
\* before them, and unescapes the others, although it looks for them in what
\* it has rewritten; the tags come in the opposite order.
THEOREM ParserSplits ==
  ASSUME NEW list \in Values
  PROVE  Parsed(list, list, 0)
<1> DEFINE bad == {n \in Nat : \E li, st, o, e : /\ Reached(li, st, o, e)
                                                 /\ Len(st) = n
                                                 /\ ~Parsed(li, st, o)}
<1>1. ASSUME bad # {} PROVE FALSE
  <2>1. PICK n \in bad : \A k \in bad : n <= k
    BY <1>1, LeastNumber, Zenon
  <2>2. PICK li, st, o, e : /\ Reached(li, st, o, e) /\ Len(st) = n
                            /\ ~Parsed(li, st, o)
    BY <2>1
  <2>3. ASSUME NEW lj, NEW su, NEW p, NEW q, Reached(lj, su, p, q),
               Len(su) < Len(st)
        PROVE  Parsed(lj, su, p)
    <3>1. Len(su) \in Nat /\ n \in Nat
      BY <2>1, <2>3 DEF Reached, Values
    <3>2. Len(su) \notin bad
      BY <2>1, <2>2, <2>3, <3>1
    <3> QED BY <2>3, <3>1, <3>2
  <2> HIDE DEF bad
  <2> QED BY <2>2, <2>3, CallParses
<1>2. Reached(list, list, 0, 0) /\ Len(list) \in Nat
  BY Starts DEF Values
<1> QED BY <1>1, <1>2

\* A list without commas is one tag, and one without symbols none.
LEMMA ParsedWhole ==
  ASSUME NEW list \in Values, NoComma(list, 0, Len(list))
  PROVE  recParseEscapedComma[list][0] = IF list = <<>> THEN <<>> ELSE <<list>>
<1>1. NextComma(list, 0) = 0
  <2>1. {i \in 0 + 1 .. Len(list) : list[i] = ","} = {}
    BY Zenon DEF NoComma, Comma
  <2> QED BY <2>1, Zenon DEF NextComma
<1>2. recParseEscapedComma[list][0] = ParseFrom(recParseEscapedComma, list, 0)
  BY ParseEquation
<1> QED BY <1>1, <1>2, Zenon DEF ParseFrom

\* The empty string, for a container or -tags that give no list.
LEMMA ParsedNothing ==
  <<>> \in Values /\ recParseEscapedComma[<<>>][0] = <<>>
<1>1. <<>> \in Values /\ NoComma(<<>>, 0, Len(<<>>))
  BY DEF Values, NoComma
<1> QED BY <1>1, ParsedWhole, Zenon

\* One symbol that is no comma, such as the transport, is one tag.
LEMMA ParsedSymbol ==
  ASSUME NEW x \in Symbols, x # ","
  PROVE  <<x>> \in Values /\ recParseEscapedComma[<<x>>][0] = <<<<x>>>>
<1>1. /\ <<x>> \in Values /\ <<x>> # <<>> /\ <<x>>[1] = x
      /\ \A k \in 0 + 1 .. Len(<<x>>) : k = 1
  BY Single, Zenon DEF Values
<1>2. NoComma(<<x>>, 0, Len(<<x>>))
  BY <1>1, Zenon DEF NoComma, Comma
<1> QED BY <1>1, <1>2, ParsedWhole, Zenon

=============================================================================
