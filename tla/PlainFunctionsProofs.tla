------------------------- MODULE PlainFunctionsProofs -------------------------
(***************************************************************************)
(* Proofs about PlainFunctions: what the tail of a log, the bound on a     *)
(* cluster's events and the rules of the configuration promise, for logs   *)
(* and lists of any length, any limits and any settings.                   *)
(***************************************************************************)
EXTENDS PlainFunctions, FiniteSetTheorems, SequenceTheorems, WellFoundedInduction, TLAPS

-----------------------------------------------------------------------------
(***************************************************************************)
(* Ranks.  A strict total order of a finite set numbers its elements: the  *)
(* rank of one is the number of those below it, ranks grow with the order, *)
(* and every number below the size of the set is a rank.                   *)
(***************************************************************************)
StrictOrder(R, S) ==
  /\ \A x \in S : <<x, x>> \notin R
  /\ \A x, y, z \in S : <<x, y>> \in R /\ <<y, z>> \in R => <<x, z>> \in R
  /\ \A x, y \in S : x # y => <<x, y>> \in R \/ <<y, x>> \in R

Below(R, S, x) == {y \in S : <<y, x>> \in R}

LEMMA RankGrows ==
  ASSUME NEW R, NEW S, IsFiniteSet(S), StrictOrder(R, S),
         NEW x \in S, NEW y \in S, <<x, y>> \in R
  PROVE Cardinality(Below(R, S, x)) < Cardinality(Below(R, S, y))
<1>1. Below(R, S, y) \in SUBSET S /\ IsFiniteSet(Below(R, S, y))
  BY FS_Subset DEF Below
<1>2. Below(R, S, x) \in SUBSET Below(R, S, y)
  BY DEF Below, StrictOrder
<1>3. Below(R, S, x) # Below(R, S, y)
  BY DEF Below, StrictOrder
<1>4. IsFiniteSet(Below(R, S, x))
  BY <1>1, <1>2, FS_Subset
<1>5. Cardinality(Below(R, S, x)) \in Nat /\ Cardinality(Below(R, S, y)) \in Nat
  BY <1>1, <1>4, FS_CardinalityType
<1> QED BY <1>1, <1>2, <1>3, <1>5, FS_Subset

LEMMA RankType ==
  ASSUME NEW R, NEW S, IsFiniteSet(S), StrictOrder(R, S), NEW x \in S
  PROVE Cardinality(Below(R, S, x)) \in 0 .. Cardinality(S) - 1
<1>1. Below(R, S, x) \in SUBSET S /\ Below(R, S, x) # S
  BY DEF Below, StrictOrder
<1>2. IsFiniteSet(Below(R, S, x)) /\ Cardinality(Below(R, S, x)) <= Cardinality(S)
      /\ Cardinality(Below(R, S, x)) # Cardinality(S)
  BY <1>1, FS_Subset
<1>3. Cardinality(Below(R, S, x)) \in Nat /\ Cardinality(S) \in Nat
  BY <1>2, FS_CardinalityType
<1> QED BY <1>2, <1>3

LEMMA EveryRank ==
  ASSUME NEW R, NEW S, IsFiniteSet(S), StrictOrder(R, S), NEW n \in 0 .. Cardinality(S) - 1
  PROVE \E x \in S : Cardinality(Below(R, S, x)) = n
<1> DEFINE T    == 0 .. Cardinality(S) - 1
           rank == [x \in S |-> Cardinality(Below(R, S, x))]
<1>1. Cardinality(S) \in Nat
  BY FS_CardinalityType
<1>2. IsFiniteSet(T) /\ Cardinality(T) = Cardinality(S)
  BY <1>1, FS_Interval
<1>3. rank \in [S -> T]
  BY RankType
<1>4. \A x, y \in S : rank[x] = rank[y] => x = y
  <2> SUFFICES ASSUME NEW x \in S, NEW y \in S, x # y PROVE rank[x] # rank[y]
    OBVIOUS
  <2>1. CASE <<x, y>> \in R
    BY <2>1, <1>1, <1>3, RankGrows
  <2>2. CASE <<y, x>> \in R
    BY <2>2, <1>1, <1>3, RankGrows
  <2> QED BY <2>1, <2>2 DEF StrictOrder
<1> HIDE DEF rank, T
<1>5. rank \in Injection(S, T)
  BY <1>3, <1>4 DEF Injection, IsInjective
<1>6. rank \in Surjection(S, T)
  BY <1>2, <1>5, FS_Injection
<1>7. \E x \in S : rank[x] = n
  BY <1>6 DEF Surjection, T
<1> QED BY <1>7 DEF rank

(***************************************************************************)
(* Orderings.  A finite set that is strictly ordered can be listed in that *)
(* order, and in such a listing every element stands at its rank.          *)
(***************************************************************************)
InOrder(R, place) == \A p, q \in DOMAIN place : p < q => <<place[p], place[q]>> \in R

LEMMA SomeListing ==
  ASSUME NEW R, NEW S, IsFiniteSet(S), StrictOrder(R, S)
  PROVE \E place \in [1 .. Cardinality(S) -> S] : InOrder(R, place)
<1> DEFINE c     == Cardinality(S)
           rank(x) == Cardinality(Below(R, S, x))
           place == [p \in 1 .. c |-> CHOOSE x \in S : rank(x) = p - 1]
<1>1. c \in Nat
  BY FS_CardinalityType
<1>2. ASSUME NEW p \in 1 .. c PROVE place[p] \in S /\ rank(place[p]) = p - 1
  <2>1. p - 1 \in 0 .. c - 1
    BY <1>1
  <2>2. \E x \in S : rank(x) = p - 1
    BY <2>1, EveryRank
  <2> QED BY <2>2
<1>3. place \in [1 .. c -> S]
  BY <1>2
<1> HIDE DEF place, c, rank
<1>4. ASSUME NEW p \in 1 .. c, NEW q \in 1 .. c, p < q
      PROVE <<place[p], place[q]>> \in R
  <2>1. /\ place[p] \in S /\ rank(place[p]) = p - 1
        /\ place[q] \in S /\ rank(place[q]) = q - 1
    BY <1>2, <1>4
  <2>2. place[p] # place[q]
    BY <1>1, <1>4, <2>1
  <2>3. CASE <<place[q], place[p]>> \in R
    <3>1. rank(place[q]) < rank(place[p])
      BY <2>1, <2>3, RankGrows DEF rank
    <3> QED BY <1>1, <1>4, <2>1, <3>1
  <2> QED BY <2>1, <2>2, <2>3 DEF StrictOrder
<1>5. InOrder(R, place)
  BY <1>3, <1>4 DEF InOrder
<1> QED BY <1>3, <1>5 DEF c

LEMMA PlaceIsRank ==
  ASSUME NEW R, NEW S, IsFiniteSet(S), StrictOrder(R, S),
         NEW place \in [1 .. Cardinality(S) -> S], InOrder(R, place),
         NEW p \in 1 .. Cardinality(S)
  PROVE Cardinality(Below(R, S, place[p])) = p - 1
<1> DEFINE P == 1 .. Cardinality(S)
           B == Below(R, S, place[p])
           f == [q \in 1 .. p - 1 |-> place[q]]
<1>1. Cardinality(S) \in Nat /\ IsFiniteSet(P) /\ Cardinality(P) = Cardinality(S)
  BY FS_CardinalityType, FS_Interval
<1>2. \A q, r \in P : q < r => <<place[q], place[r]>> \in R
  BY DEF InOrder
<1>3. ASSUME NEW q \in P, NEW r \in P, q # r PROVE place[q] # place[r]
  <2>1. (q < r \/ r < q) /\ place[q] \in S /\ place[r] \in S
    BY <1>1, <1>3
  <2> QED BY <1>2, <2>1 DEF StrictOrder
<1>4. place \in Injection(P, S)
  BY <1>3 DEF Injection, IsInjective
<1>5. place \in Surjection(P, S)
  BY <1>1, <1>4, FS_Injection
<1>6. \A q \in 1 .. p - 1 : q \in P /\ place[q] \in B
  BY <1>1, <1>2 DEF Below
<1>7. ASSUME NEW x \in B PROVE \E q \in 1 .. p - 1 : place[q] = x
  <2>1. x \in S /\ <<x, place[p]>> \in R
    BY DEF Below
  <2>2. PICK q \in P : place[q] = x
    BY <1>5, <2>1 DEF Surjection
  <2>3. q # p
    BY <2>1, <2>2 DEF StrictOrder
  <2>4. ~(p < q)
    BY <1>2, <2>1, <2>2 DEF StrictOrder
  <2> QED BY <1>1, <2>2, <2>3, <2>4
<1> HIDE DEF B
<1>8. f \in [1 .. p - 1 -> B]
  BY <1>6
<1>9. f \in Injection(1 .. p - 1, B) /\ f \in Surjection(1 .. p - 1, B)
  BY <1>3, <1>6, <1>7, <1>8 DEF Injection, IsInjective, Surjection
<1>10. ExistsBijection(1 .. p - 1, B)
  BY <1>9 DEF ExistsBijection, Bijection
<1>11. IsFiniteSet(1 .. p - 1) /\ Cardinality(1 .. p - 1) = p - 1
  <2>1. 1 \in Int /\ p - 1 \in Int /\ p >= 1
    BY <1>1
  <2>2. Cardinality(1 .. p - 1) = IF 1 > p - 1 THEN 0 ELSE (p - 1) - 1 + 1
    BY <2>1, FS_Interval
  <2> QED BY <2>1, <2>2, FS_Interval
<1> QED BY <1>10, <1>11, FS_Bijection DEF B
-----------------------------------------------------------------------------
(***************************************************************************)
(* The inputs: a log is made of whole characters, so a later byte follows  *)
(* another byte of its character; events and settings are those that the   *)
(* constants give.                                                         *)
(***************************************************************************)
WholeRunes(s) ==
  \A i \in 1 .. Len(s) : s[i] = "later" => i > 1 /\ s[i - 1] \in {"lead", "later"}

PlainInv ==
  /\ log \in Seq(Byte) /\ WholeRunes(log)
  /\ events \in Seq(Happening)
  /\ settings \in Setting \union {Unset}

LEMMA RuneIsWhole ==
  ASSUME NEW rune \in Rune
  PROVE rune \in Seq(Byte) /\ WholeRunes(rune) /\ Len(rune) > 0 /\ rune[1] # "later"
<1>1. CASE rune = <<"newline">>
  BY <1>1 DEF WholeRunes, Byte
<1>2. CASE rune = <<"char">>
  BY <1>2 DEF WholeRunes, Byte
<1>3. CASE rune = <<"lead", "later">>
  BY <1>3 DEF WholeRunes, Byte
<1>4. CASE rune = <<"lead", "later", "later">>
  BY <1>4 DEF WholeRunes, Byte
<1> QED BY <1>1, <1>2, <1>3, <1>4 DEF Rune

LEMMA WriteKeepsRunes ==
  ASSUME NEW s \in Seq(Byte), WholeRunes(s), NEW rune \in Rune
  PROVE s \o rune \in Seq(Byte) /\ WholeRunes(s \o rune)
<1> DEFINE t == s \o rune
<1>1. /\ rune \in Seq(Byte) /\ WholeRunes(rune) /\ rune[1] # "later"
      /\ t \in Seq(Byte) /\ Len(t) = Len(s) + Len(rune)
  BY RuneIsWhole
<1>2. \A i \in 1 .. Len(s) : t[i] = s[i]
  BY <1>1
<1>3. \A i \in Len(s) + 1 .. Len(t) : t[i] = rune[i - Len(s)] /\ i - Len(s) \in 1 .. Len(rune)
  BY <1>1
<1> HIDE DEF t
<1>4. SUFFICES ASSUME NEW i \in 1 .. Len(t), t[i] = "later"
               PROVE i > 1 /\ t[i - 1] \in {"lead", "later"}
  BY <1>1 DEF WholeRunes, t
<1>5. CASE i <= Len(s)
  <2>1. s[i] = "later" /\ i \in 1 .. Len(s)
    BY <1>2, <1>4, <1>5
  <2>2. i > 1 /\ s[i - 1] \in {"lead", "later"} /\ i - 1 \in 1 .. Len(s)
    BY <2>1 DEF WholeRunes
  <2> QED BY <1>2, <2>2
<1>6. CASE i > Len(s)
  <2> DEFINE k == i - Len(s)
  <2>1. rune[k] = "later" /\ k \in 1 .. Len(rune)
    BY <1>1, <1>3, <1>4, <1>6
  <2>2. k > 1 /\ rune[k - 1] \in {"lead", "later"}
    BY <1>1, <2>1 DEF WholeRunes
  <2>3. i - 1 \in Len(s) + 1 .. Len(t) /\ (i - 1) - Len(s) = k - 1 /\ i > 1
    BY <1>1, <2>1, <2>2
  <2>4. t[i - 1] = rune[k - 1]
    BY <1>3, <2>3
  <2> QED BY <2>2, <2>3, <2>4
<1> QED BY <1>1, <1>4, <1>5, <1>6

LEMMA PlainInvInit == PlainInit => PlainInv
BY DEF PlainInit, PlainInv, WholeRunes

LEMMA PlainInvStep == PlainInv /\ [PlainNext]_plainVars => PlainInv'
<1> SUFFICES ASSUME PlainInv, [PlainNext]_plainVars PROVE PlainInv'
  OBVIOUS
<1>1. CASE Write
  <2>1. PICK rune \in Rune : log' = log \o rune
    BY <1>1 DEF Write
  <2> QED BY <1>1, <2>1, WriteKeepsRunes DEF Write, PlainInv
<1>2. CASE Happen
  BY <1>2 DEF Happen, PlainInv, WholeRunes
<1>3. CASE Start
  BY <1>3 DEF Start, PlainInv, WholeRunes
<1>4. CASE UNCHANGED plainVars
  BY <1>4 DEF plainVars, PlainInv, WholeRunes
<1> QED BY <1>1, <1>2, <1>3, <1>4 DEF PlainNext

LEMMA PlainInvariance == PlainSpec => []PlainInv
BY PlainInvInit, PlainInvStep, PTL DEF PlainSpec
-----------------------------------------------------------------------------
LEMMA RuleIsOne ==
  ASSUME NEW c, c.authMode \in {"static", "tokenreview"}, IsLoopback(c.httpAddr) \/ HasToken(c)
  PROVE /\ Handler(c) = "refused" <=> c.authMode = "tokenreview"
        /\ Handler(c) = "open" => IsLoopback(c.httpAddr)
        /\ c.authToken # Blank => Handler(c) # "open"
<1>1. TransportIsLoopback(c.httpAddr) <=> IsLoopback(c.httpAddr)
  BY DEF TransportIsLoopback, IsLoopback
<1>2. CASE c.authMode = "tokenreview"
  BY <1>2 DEF Handler
<1>3. CASE c.authMode = "static" /\ c.authToken # Blank
  BY <1>3 DEF Handler
<1>4. CASE c.authMode = "static" /\ c.authToken = Blank
  BY <1>1, <1>4 DEF Handler, HasToken
<1> QED BY <1>2, <1>3, <1>4

(***************************************************************************)
(* The two copies of the bind rule agree on everything the configuration   *)
(* accepts, whatever the flags and the environment say.                    *)
(***************************************************************************)
THEOREM AcceptedConfigurationsAreServed == PlainSpec => []AcceptedIsServed
<1>1. AcceptedIsServed
  BY RuleIsOne DEF AcceptedIsServed, Accepted
<1> QED BY <1>1, PTL

(* What decides a setting: the flag, or else the environment, or else the default. *)
LEMMA FlagThenEnvironment ==
  ASSUME NEW given, NEW default
  PROVE \/ given.flag # Unset /\ Resolve(given, default) = given.flag
        \/ given.env # Unset /\ Resolve(given, default) = given.env
        \/ Resolve(given, default) = default
BY DEF Resolve

LEMMA DefaultIsGiven ==
  ASSUME NEW s \in Settings(STRING, STRING, STRING)
  PROVE /\ ResolveNamespace(s) \in STRING \union {LastResort}
        /\ ResolveNamespace(s) = Blank => Blank \in {s.namespace.flag, s.namespace.env}
<1> DEFINE default == IF s.saFile \notin {Unset, Blank} THEN s.saFile ELSE LastResort
<1>1. s.namespace \in Given(STRING) /\ s.saFile \in STRING \union {Unset}
  BY DEF Settings
<1>2. s.namespace.flag \in STRING \union {Unset} /\ s.namespace.env \in STRING \union {Unset}
  BY <1>1 DEF Given
<1>3. default \in STRING \union {LastResort} /\ default # Blank
  BY <1>1 DEF Blank, LastResort
<1> HIDE DEF default
<1>4. ResolveNamespace(s) = Resolve(s.namespace, default)
  BY DEF ResolveNamespace, default
<1> QED BY <1>2, <1>3, <1>4, FlagThenEnvironment

(***************************************************************************)
(* No flags, environment and service account but those that give an empty  *)
(* namespace make a list that asks for one namespace read all of them.     *)
(***************************************************************************)
THEOREM ListsStayInTheirNamespace == PlainSpec => []OneNamespaceUnlessTold
<1>1. PlainInv => OneNamespaceUnlessTold
  <2> SUFFICES ASSUME PlainInv, settings # Unset, NEW namespace \in {Blank, "asked"}
               PROVE LET scope == Scope(Config(settings), namespace, FALSE)
                     IN \/ namespace # Blank /\ scope = {namespace}
                        \/ namespace = Blank /\ All \notin scope /\ Blank \notin scope
                        \/ namespace = Blank /\ Blank \in {settings.namespace.flag, settings.namespace.env}
    BY DEF OneNamespaceUnlessTold
  <2>1. settings \in Settings(STRING, STRING, STRING)
    BY SettingAssumption DEF PlainInv
  <2>2. Config(settings).defaultNamespace = ResolveNamespace(settings)
    BY DEF Config
  <2>3. CASE namespace # Blank
    BY <2>3 DEF Scope
  <2>4. CASE namespace = Blank
    BY <2>1, <2>2, <2>4, DefaultIsGiven, NoneAssumption DEF Scope
  <2> QED BY <2>3, <2>4
<1> QED BY <1>1, PlainInvariance, PTL
-----------------------------------------------------------------------------
(***************************************************************************)
(* The events.  The ladder of times finds the latest one; "ahead" orders   *)
(* the positions of a list strictly, so sorting is listing in that order.  *)
(***************************************************************************)
LEMMA SeenIsLatest ==
  ASSUME NEW e \in Happening PROVE EventLastSeen(e) = Latest(e) /\ EventLastSeen(e) \in Nat
<1>1. e \in Event
  BY HappeningAssumption
<1>2. e.last \in Nat /\ e.observed \in Nat /\ e.time \in Nat /\ e.first \in Nat
  BY <1>1 DEF Event
<1> DEFINE S    == {e.last, e.observed, e.time, e.first}
           seen == EventLastSeen(e)
<1>3. seen \in S /\ seen \in Nat
  BY <1>2 DEF EventLastSeen
<1>4. seen >= e.last /\ seen >= e.observed /\ seen >= e.time /\ seen >= e.first
  BY <1>2, HappeningAssumption DEF EventLastSeen
<1> HIDE DEF seen
<1>5. Max(S) \in S /\ \A y \in S : Max(S) >= y
  BY <1>3, <1>4 DEF Max
<1>6. Max(S) >= seen /\ seen >= Max(S)
  BY <1>3, <1>4, <1>5
<1>7. Max(S) = seen
  BY <1>2, <1>3, <1>5, <1>6
<1> QED BY <1>3, <1>7 DEF Latest, seen

AheadIn(list, S) == {ij \in S \X S : Ahead(list, ij[1], ij[2])}

LEMMA AheadIsStrict ==
  ASSUME NEW list \in Seq(Happening), NEW S \in SUBSET DOMAIN list
  PROVE StrictOrder(AheadIn(list, S), S)
<1> DEFINE seen == [i \in S |-> EventLastSeen(list[i])]
           warning == [i \in S |-> list[i].warning]
<1>1. \A i \in S : i \in Int /\ list[i] \in Happening
  OBVIOUS
<1>2. \A i \in S : warning[i] \in BOOLEAN /\ seen[i] \in Nat
  <2> SUFFICES ASSUME NEW i \in S PROVE list[i].warning \in BOOLEAN /\ EventLastSeen(list[i]) \in Nat
    OBVIOUS
  <2>1. list[i] \in Event
    BY <1>1, HappeningAssumption
  <2> QED BY <1>1, <2>1, SeenIsLatest DEF Event
<1>3. \A i, j \in S : <<i, j>> \in AheadIn(list, S) <=> Ahead(list, i, j)
  BY DEF AheadIn
<1>4. \A i, j \in S : Ahead(list, i, j) <=>
        \/ warning[i] /\ ~warning[j]
        \/ (warning[i] <=> warning[j]) /\ (seen[i] > seen[j] \/ (seen[i] = seen[j] /\ i < j))
  BY <1>1, <1>2 DEF Ahead, Precedes
<1> HIDE DEF seen, warning
<1> QED BY <1>1, <1>2, <1>3, <1>4 DEF StrictOrder

LEMMA SortedByRank ==
  ASSUME NEW list \in Seq(Happening), NEW S \in SUBSET DOMAIN list
  PROVE /\ IsFiniteSet(S)
        /\ Sorted(list, S) \in [1 .. Cardinality(S) -> S]
        /\ \A i \in S : LET n == Cardinality(Below(AheadIn(list, S), S, i)) + 1
                        IN n \in 1 .. Cardinality(S) /\ Sorted(list, S)[n] = i
<1> DEFINE R == AheadIn(list, S)
           c == Cardinality(S)
           place == Sorted(list, S)
<1>1. IsFiniteSet(S) /\ c \in Nat
  <2>1. Len(list) \in Nat /\ DOMAIN list = 1 .. Len(list)
    BY LenProperties
  <2>2. IsFiniteSet(1 .. Len(list))
    BY <2>1, FS_Interval
  <2> QED BY <2>1, <2>2, FS_Subset, FS_CardinalityType
<1>2. StrictOrder(R, S)
  BY AheadIsStrict
<1>3. \A w \in [1 .. c -> S] :
        InOrder(R, w) <=> \A p, q \in DOMAIN w : p < q => Ahead(list, w[p], w[q])
  BY DEF InOrder, AheadIn
<1>4. \E w \in [1 .. c -> S] : \A p, q \in DOMAIN w : p < q => Ahead(list, w[p], w[q])
  BY <1>1, <1>2, <1>3, SomeListing
<1>5. place \in [1 .. c -> S] /\ InOrder(R, place)
  BY <1>3, <1>4 DEF Sorted
<1> HIDE DEF place, R
<1>6. ASSUME NEW i \in S
      PROVE LET n == Cardinality(Below(R, S, i)) + 1 IN n \in 1 .. c /\ place[n] = i
  <2> DEFINE n == Cardinality(Below(R, S, i)) + 1
  <2>1. n \in 1 .. c
    BY <1>1, <1>2, RankType
  <2>2. place[n] \in S /\ Cardinality(Below(R, S, place[n])) = n - 1
    BY <1>1, <1>2, <1>5, <2>1, PlaceIsRank
  <2>3. Cardinality(Below(R, S, i)) = Cardinality(Below(R, S, place[n]))
        /\ Cardinality(Below(R, S, i)) \in Int
    BY <1>1, <1>2, <2>1, <2>2, RankType
  <2>4. ~(<<i, place[n]>> \in R) /\ ~(<<place[n], i>> \in R)
    BY <1>1, <1>2, <2>2, <2>3, RankGrows
  <2> QED BY <1>2, <2>1, <2>2, <2>4 DEF StrictOrder
<1> QED BY <1>1, <1>5, <1>6 DEF place, R

LEMMA FirstOfListing ==
  ASSUME NEW T, NEW list \in Seq(T), NEW n \in Nat
  PROVE /\ DOMAIN First(list, n) = 1 .. (IF Len(list) > n THEN n ELSE Len(list))
        /\ \A p \in DOMAIN First(list, n) : First(list, n)[p] = list[p]
<1>1. CASE Len(list) > n
  <2>1. First(list, n) = SubSeq(list, 1, n)
    BY <1>1 DEF First
  <2>2. \A p \in 1 .. n : list[p] \in T
    BY <1>1
  <2>3. /\ SubSeq(list, 1, n) \in Seq(T) /\ Len(SubSeq(list, 1, n)) = n
        /\ \A p \in 1 .. n : SubSeq(list, 1, n)[p] = list[p]
    BY <2>2, SubSeqProperties
  <2> QED BY <1>1, <2>1, <2>3
<1>2. CASE ~(Len(list) > n)
  BY <1>2 DEF First
<1> QED BY <1>1, <1>2

(* What the page of a namespace holds of a cluster. *)
Listed(list, targets) ==
  {i \in DOMAIN list : i <= EventListCap /\ list[i].about \in targets}

LEMMA PageIsListed ==
  ASSUME NEW list \in Seq(Happening), NEW targets
  PROVE {i \in DOMAIN First(list, EventListCap) : list[i].about \in targets} = Listed(list, targets)
<1>1. Len(list) \in Nat /\ DOMAIN list = 1 .. Len(list) /\ EventListCap \in Nat
  BY EventAssumption
<1>2. DOMAIN First(list, EventListCap) = 1 .. (IF Len(list) > EventListCap THEN EventListCap ELSE Len(list))
  BY <1>1, FirstOfListing
<1>3. \A i : i \in DOMAIN First(list, EventListCap) <=> i \in DOMAIN list /\ i <= EventListCap
  BY <1>1, <1>2
<1> QED BY <1>3 DEF Listed

LEMMA EventsInPlace ==
  ASSUME NEW list \in Seq(Happening), NEW targets, NEW limit \in Int
  PROVE LET S == Listed(list, targets)
            n == IF limit <= 0 THEN DefaultEventLimit ELSE limit
            c == Cardinality(S)
            shown == Events(list, targets, limit)
        IN /\ c \in Nat /\ n \in Nat
           /\ DOMAIN shown = 1 .. (IF c > n THEN n ELSE c)
           /\ Len(shown) = IF c > n THEN n ELSE c
           /\ \A i \in S : LET p == Cardinality(Below(AheadIn(list, S), S, i)) + 1
                           IN p \in Nat /\ (p <= Len(shown) => shown[p] = list[i])
<1> DEFINE S == Listed(list, targets)
           n == IF limit <= 0 THEN DefaultEventLimit ELSE limit
           c == Cardinality(S)
           place == Sorted(list, S)
           cut == First(place, n)
           shown == Events(list, targets, limit)
           k == IF c > n THEN n ELSE c
<1>1. S \in SUBSET DOMAIN list
  BY DEF Listed
<1>2. c \in Nat /\ n \in Nat /\ k \in Nat
  BY <1>1, SortedByRank, FS_CardinalityType, EventAssumption
<1>3. /\ place \in [1 .. c -> S]
      /\ \A i \in S : LET p == Cardinality(Below(AheadIn(list, S), S, i)) + 1
                      IN p \in 1 .. c /\ place[p] = i
  BY <1>1, SortedByRank
<1>4. shown = [p \in DOMAIN cut |-> list[cut[p]]]
  BY PageIsListed DEF Events, BoundEvents
<1> HIDE DEF place, S, n
<1>5. DOMAIN cut = 1 .. k /\ \A p \in DOMAIN cut : cut[p] = place[p]
  <2>1. place \in Seq(S) /\ Len(place) = c
    BY <1>2, <1>3, IsASeq
  <2> HIDE DEF c
  <2> QED BY <1>2, <2>1, FirstOfListing
<1> HIDE DEF cut, shown
<1>6. DOMAIN shown = 1 .. k /\ \A p \in 1 .. k : shown[p] = list[place[p]]
  BY <1>4, <1>5
<1>7. Len(shown) = k
  BY <1>2, <1>4, <1>5
<1>8. ASSUME NEW i \in S
      PROVE LET p == Cardinality(Below(AheadIn(list, S), S, i)) + 1
            IN p \in Nat /\ (p <= Len(shown) => shown[p] = list[i])
  <2> DEFINE p == Cardinality(Below(AheadIn(list, S), S, i)) + 1
  <2>1. p \in 1 .. c /\ place[p] = i
    BY <1>3
  <2> HIDE DEF p
  <2>2. p <= Len(shown) => shown[p] = list[i]
    BY <1>2, <1>6, <1>7, <2>1
  <2> QED BY <1>2, <2>1, <2>2 DEF p
<1> QED BY <1>2, <1>6, <1>7, <1>8 DEF S, n, shown

(***************************************************************************)
(* Every event about the cluster stands at the place that its kind and its *)
(* latest time give it, and those are cut from the end: Warnings are left  *)
(* out only for Warnings, however many events there are.                   *)
(***************************************************************************)
THEOREM WarningsOutliveChatter == PlainSpec => []WarningsSurvive
<1>1. PlainInv => WarningsSurvive
  <2> SUFFICES ASSUME PlainInv, NEW limit \in Limit
               PROVE LET shown  == Events(events, Target, limit)
                         listed == {i \in DOMAIN events : i <= EventListCap /\ events[i].about \in Target}
                         Above(i) == {j \in listed : \/ events[j].warning /\ ~events[i].warning
                                                     \/ /\ events[j].warning = events[i].warning
                                                        /\ \/ Latest(events[j]) > Latest(events[i])
                                                           \/ Latest(events[j]) = Latest(events[i]) /\ j < i}
                     IN /\ Len(shown) = Min({Cardinality(listed), IF limit <= 0 THEN DefaultEventLimit ELSE limit})
                        /\ \A i \in listed :
                             LET place == Cardinality(Above(i)) + 1
                             IN place <= Len(shown) => shown[place] = events[i]
    BY DEF WarningsSurvive
  <2> DEFINE S == Listed(events, Target)
             n == IF limit <= 0 THEN DefaultEventLimit ELSE limit
             shown == Events(events, Target, limit)
             Above(i) == {j \in S : \/ events[j].warning /\ ~events[i].warning
                                    \/ /\ events[j].warning = events[i].warning
                                       /\ \/ Latest(events[j]) > Latest(events[i])
                                          \/ Latest(events[j]) = Latest(events[i]) /\ j < i}
  <2>1. events \in Seq(Happening) /\ limit \in Int
    BY LimitAssumption DEF PlainInv
  <2>2. /\ Cardinality(S) \in Nat /\ n \in Nat
        /\ Len(shown) = IF Cardinality(S) > n THEN n ELSE Cardinality(S)
        /\ \A i \in S : LET p == Cardinality(Below(AheadIn(events, S), S, i)) + 1
                        IN p \in Nat /\ (p <= Len(shown) => shown[p] = events[i])
    BY <2>1, EventsInPlace
  <2>3. ASSUME NEW i \in S PROVE Above(i) = Below(AheadIn(events, S), S, i)
    <3>1. S \in SUBSET DOMAIN events
      BY DEF Listed
    <3>2. \A j \in S : /\ j \in Int /\ events[j] \in Happening
                       /\ EventLastSeen(events[j]) = Latest(events[j]) /\ Latest(events[j]) \in Nat
      BY <2>1, <3>1, SeenIsLatest
    <3>3. \A j \in S : events[j].warning \in BOOLEAN
      BY <3>2, HappeningAssumption DEF Event
    <3> HIDE DEF S
    <3>4. ASSUME NEW j \in S PROVE j \in Above(i) <=> Ahead(events, j, i)
      BY <3>2, <3>3 DEF Ahead, Precedes
    <3>5. \A j : j \in Below(AheadIn(events, S), S, i) <=> j \in S /\ Ahead(events, j, i)
      BY DEF Below, AheadIn
    <3>6. Above(i) \subseteq S
      OBVIOUS
    <3> QED BY <3>4, <3>5, <3>6
  <2>4. Min({Cardinality(S), n}) = IF Cardinality(S) > n THEN n ELSE Cardinality(S)
    BY <2>2 DEF Min
  <2>5. \A i \in S : LET place == Cardinality(Above(i)) + 1
                     IN place <= Len(shown) => shown[place] = events[i]
    BY <2>2, <2>3
  <2>6. Len(shown) = Min({Cardinality(S), n})
    BY <2>2, <2>4
  <2>7. S = {i \in DOMAIN events : i <= EventListCap /\ events[i].about \in Target}
    BY DEF Listed
  <2> QED BY <2>5, <2>6, <2>7
<1> QED BY <1>1, PlainInvariance, PTL
-----------------------------------------------------------------------------
(***************************************************************************)
(* The log.  What is asked of an end of it, the number of its lines and of *)
(* its bytes, is said in terms of the place where it starts.               *)
(***************************************************************************)
LEMMA FromPlace ==
  ASSUME NEW s \in Seq(Byte), NEW i \in 1 .. Len(s) + 1
  PROVE /\ From(s, i) \in Seq(Byte) /\ Len(From(s, i)) = Len(s) - i + 1
        /\ \A k \in 1 .. Len(s) - i + 1 : From(s, i)[k] = s[i + k - 1]
<1>1. \A k \in i .. Len(s) : s[k] \in Byte
  OBVIOUS
<1>2. /\ SubSeq(s, i, Len(s)) \in Seq(Byte)
      /\ Len(SubSeq(s, i, Len(s))) = IF i <= Len(s) THEN Len(s) - i + 1 ELSE 0
      /\ \A k \in 1 .. Len(s) - i + 1 : SubSeq(s, i, Len(s))[k] = s[i + k - 1]
  BY <1>1, SubSeqProperties
<1> QED BY <1>2 DEF From

LEMMA FromFrom ==
  ASSUME NEW s \in Seq(Byte), NEW i \in 1 .. Len(s), NEW k \in 1 .. Len(s) - i + 1
  PROVE From(From(s, i), k) = From(s, i + k - 1)
<1> DEFINE r == From(s, i)
           t == From(r, k)
           n == i + k - 1
           u == From(s, n)
<1>1. /\ r \in Seq(Byte) /\ Len(r) = Len(s) - i + 1
      /\ \A l \in 1 .. Len(s) - i + 1 : r[l] = s[i + l - 1]
  BY FromPlace
<1>2. n \in 1 .. Len(s) + 1 /\ k \in 1 .. Len(r) + 1
  BY <1>1
<1> HIDE DEF r, n
<1>3. /\ t \in Seq(Byte) /\ Len(t) = Len(r) - k + 1
      /\ \A l \in 1 .. Len(r) - k + 1 : t[l] = r[k + l - 1]
  BY <1>1, <1>2, FromPlace
<1>4. /\ u \in Seq(Byte) /\ Len(u) = Len(s) - n + 1
      /\ \A l \in 1 .. Len(s) - n + 1 : u[l] = s[n + l - 1]
  BY <1>2, FromPlace
<1> HIDE DEF t, u
<1>5. Len(t) = Len(u)
  BY <1>1, <1>3, <1>4 DEF n
<1>6. ASSUME NEW l \in 1 .. Len(t) PROVE t[l] = u[l]
  <2>1. t[l] = r[k + l - 1] /\ k + l - 1 \in 1 .. Len(r)
    BY <1>1, <1>3
  <2>2. r[k + l - 1] = s[i + (k + l - 1) - 1]
    BY <1>1, <2>1
  <2>3. u[l] = s[n + l - 1] /\ n + l - 1 = i + (k + l - 1) - 1
    BY <1>1, <1>3, <1>4, <1>5 DEF n
  <2> QED BY <2>1, <2>2, <2>3
<1>7. t = u
  BY <1>3, <1>4, <1>5, <1>6, SeqEqual
<1> QED BY <1>7 DEF t, u, r, n

LEMMA TrimPlace ==
  ASSUME NEW s \in Seq(Byte)
  PROVE LET m == IF s # <<>> /\ s[Len(s)] = "newline" THEN Len(s) - 1 ELSE Len(s)
        IN m \in Nat /\ Newlines(TrimSuffix(s)) = {j \in 1 .. m : s[j] = "newline"}
<1>1. CASE s # <<>> /\ s[Len(s)] = "newline"
  <2>1. Len(s) \in Nat \ {0} /\ \A k \in 1 .. Len(s) - 1 : s[k] \in Byte
    BY <1>1
  <2> DEFINE t == SubSeq(s, 1, Len(s) - 1)
  <2>2. /\ t \in Seq(Byte) /\ Len(t) = IF 1 <= Len(s) - 1 THEN Len(s) - 1 - 1 + 1 ELSE 0
        /\ \A k \in 1 .. Len(s) - 1 - 1 + 1 : t[k] = s[1 + k - 1]
    BY <2>1, SubSeqProperties
  <2>3. TrimSuffix(s) = t
    BY <1>1 DEF TrimSuffix
  <2> HIDE DEF t
  <2>4. DOMAIN t = 1 .. Len(s) - 1 /\ \A k \in DOMAIN t : t[k] = s[k]
    BY <2>1, <2>2
  <2>5. Newlines(t) = {j \in 1 .. Len(s) - 1 : s[j] = "newline"}
    BY <2>4 DEF Newlines
  <2> QED BY <1>1, <2>1, <2>3, <2>5
<1>2. CASE ~(s # <<>> /\ s[Len(s)] = "newline")
  <2>1. TrimSuffix(s) = s /\ DOMAIN s = 1 .. Len(s)
    BY <1>2 DEF TrimSuffix
  <2>2. Newlines(s) = {j \in 1 .. Len(s) : s[j] = "newline"}
    BY <2>1 DEF Newlines
  <2> QED BY <1>2, <2>1, <2>2
<1> QED BY <1>1, <1>2

(* The places where a line ends and another one starts. *)
LineEnds(s) == Newlines(TrimSuffix(s))

LEMMA LineEndsType ==
  ASSUME NEW s \in Seq(Byte)
  PROVE /\ IsFiniteSet(LineEnds(s))
        /\ \A j \in LineEnds(s) : j \in 1 .. Len(s) /\ j < Len(s) /\ s[j] = "newline"
<1> DEFINE m == IF s # <<>> /\ s[Len(s)] = "newline" THEN Len(s) - 1 ELSE Len(s)
<1>1. m \in Nat /\ LineEnds(s) = {j \in 1 .. m : s[j] = "newline"}
  BY TrimPlace DEF LineEnds
<1>2. IsFiniteSet(LineEnds(s))
  <2>1. IsFiniteSet(1 .. m)
    BY <1>1, FS_Interval
  <2> QED BY <1>1, <2>1, FS_Subset
<1>3. \A j \in LineEnds(s) : j \in 1 .. Len(s) /\ j < Len(s) /\ s[j] = "newline"
  BY <1>1
<1> QED BY <1>2, <1>3

(* The elements of a set of numbers from one on. *)
AtLeast(S, i) == {j \in S : j >= i}

LEMMA LinesFromPlace ==
  ASSUME NEW s \in Seq(Byte), NEW i \in 1 .. Len(s)
  PROVE LineCount(From(s, i)) = Cardinality(AtLeast(LineEnds(s), i)) + 1
<1> DEFINE t == From(s, i)
           m == IF s # <<>> /\ s[Len(s)] = "newline" THEN Len(s) - 1 ELSE Len(s)
           l == IF t # <<>> /\ t[Len(t)] = "newline" THEN Len(t) - 1 ELSE Len(t)
           A == {k \in 1 .. l : t[k] = "newline"}
           B == AtLeast(LineEnds(s), i)
           f == [k \in A |-> i + k - 1]
<1>1. /\ t \in Seq(Byte) /\ Len(t) = Len(s) - i + 1
      /\ \A k \in 1 .. Len(s) - i + 1 : t[k] = s[i + k - 1]
  <2>1. i \in 1 .. Len(s) + 1
    OBVIOUS
  <2> QED BY <2>1, FromPlace
<1> HIDE DEF t
<1>2. t # <<>> /\ s # <<>> /\ t[Len(t)] = s[Len(s)]
  BY <1>1
<1>3. l = m - i + 1 /\ m \in Nat /\ l \in Nat
  BY <1>1, <1>2
<1>4. LineCount(t) = Cardinality(A) + 1
  BY <1>1, <1>2, TrimPlace DEF LineCount
<1>5. LineEnds(s) = {j \in 1 .. m : s[j] = "newline"}
  BY TrimPlace DEF LineEnds
<1>6. m <= Len(s) /\ i \in Int
  OBVIOUS
<1> HIDE DEF m, l
<1>7. \A j : j \in B <=> j \in 1 .. m /\ s[j] = "newline" /\ j >= i
  BY <1>5 DEF AtLeast
<1>8. ASSUME NEW k \in A PROVE k \in Int /\ i + k - 1 \in B
  <2>1. k \in 1 .. l /\ t[k] = "newline"
    OBVIOUS
  <2>2. i + k - 1 \in 1 .. m /\ k \in 1 .. Len(s) - i + 1 /\ i + k - 1 >= i
    BY <1>3, <1>6, <2>1
  <2>3. s[i + k - 1] = "newline"
    BY <1>1, <2>1, <2>2
  <2> QED BY <1>7, <2>2, <2>3
<1>9. ASSUME NEW j \in B PROVE j - i + 1 \in A /\ i + (j - i + 1) - 1 = j
  <2>1. j \in 1 .. m /\ s[j] = "newline" /\ j >= i
    BY <1>7
  <2>2. j - i + 1 \in 1 .. l /\ j - i + 1 \in 1 .. Len(s) - i + 1 /\ i + (j - i + 1) - 1 = j
    BY <1>3, <1>6, <2>1
  <2> QED BY <1>1, <2>1, <2>2
<1>10. IsFiniteSet(A)
  <2>1. IsFiniteSet(1 .. l)
    BY <1>3, FS_Interval
  <2> QED BY <2>1, FS_Subset
<1> HIDE DEF A, B
<1>11. f \in [A -> B]
  BY <1>8
<1>12. f \in Injection(A, B)
  BY <1>6, <1>8, <1>11 DEF Injection, IsInjective
<1>13. f \in Surjection(A, B)
  BY <1>9, <1>11 DEF Surjection
<1>14. Cardinality(A) = Cardinality(B)
  BY <1>10, <1>12, <1>13, FS_Bijection DEF ExistsBijection, Bijection
<1> QED BY <1>4, <1>14 DEF t, B

(* The line ends from a place on, as a rank from the last one back. *)
LaterFirst(S) == {ij \in S \X S : ij[1] > ij[2]}

LEMMA LaterIsStrict ==
  ASSUME NEW S \in SUBSET Int
  PROVE StrictOrder(LaterFirst(S), S)
<1>1. \A x, y \in S : <<x, y>> \in LaterFirst(S) <=> x > y
  BY DEF LaterFirst
<1> QED BY <1>1 DEF StrictOrder

LEMMA AtLeastShrinks ==
  ASSUME NEW S \in SUBSET Int, IsFiniteSet(S), NEW i \in Int, NEW k \in Int, i <= k
  PROVE /\ Cardinality(AtLeast(S, k)) \in Nat /\ Cardinality(AtLeast(S, i)) \in Nat
        /\ Cardinality(AtLeast(S, k)) <= Cardinality(AtLeast(S, i))
        /\ Cardinality(AtLeast(S, i)) <= Cardinality(S)
<1>1. AtLeast(S, i) \in SUBSET S /\ AtLeast(S, k) \in SUBSET AtLeast(S, i)
  <2>1. \A j \in S : j >= k => j >= i
    OBVIOUS
  <2> QED BY <2>1 DEF AtLeast
<1>2. IsFiniteSet(AtLeast(S, i)) /\ Cardinality(AtLeast(S, i)) <= Cardinality(S)
  BY <1>1, FS_Subset
<1>3. IsFiniteSet(AtLeast(S, k)) /\ Cardinality(AtLeast(S, k)) <= Cardinality(AtLeast(S, i))
  BY <1>1, <1>2, FS_Subset
<1> QED BY <1>2, <1>3, FS_CardinalityType

LEMMA AtLeastRank ==
  ASSUME NEW S \in SUBSET Int, IsFiniteSet(S), NEW y \in S
  PROVE /\ Cardinality(AtLeast(S, y)) = Cardinality(Below(LaterFirst(S), S, y)) + 1
        /\ Cardinality(AtLeast(S, y + 1)) = Cardinality(Below(LaterFirst(S), S, y))
<1> DEFINE B == Below(LaterFirst(S), S, y)
<1>1. \A j : j \in B <=> j \in S /\ j > y
  BY DEF Below, LaterFirst
<1>2. \A j : j \in AtLeast(S, y) <=> j \in S /\ j >= y
  BY DEF AtLeast
<1>3. \A j : j \in AtLeast(S, y + 1) <=> j \in S /\ j >= y + 1
  BY DEF AtLeast
<1> HIDE DEF B
<1>4. AtLeast(S, y + 1) = B
  <2>1. \A j \in S : j > y <=> j >= y + 1
    OBVIOUS
  <2> QED BY <1>1, <1>3, <2>1
<1>5. AtLeast(S, y) = B \union {y} /\ y \notin B
  <2>1. \A j \in S : j >= y <=> j > y \/ j = y
    OBVIOUS
  <2>2. ~(y > y)
    OBVIOUS
  <2>3. \A j : j \in AtLeast(S, y) <=> j \in B \/ j = y
    BY <1>1, <1>2, <2>1
  <2> QED BY <1>1, <2>2, <2>3
<1>6. IsFiniteSet(B)
  <2>1. B \in SUBSET S
    BY <1>1
  <2> QED BY <2>1, FS_Subset
<1>7. Cardinality(AtLeast(S, y)) = Cardinality(B) + 1
  BY <1>5, <1>6, FS_AddElement
<1> QED BY <1>4, <1>7 DEF B

(* The last lines start where there are so many, and no later place has more. *)
LEMMA LastLinesPlace ==
  ASSUME NEW s \in Seq(Byte), NEW n \in Nat \ {0}
  PROVE \E a \in 1 .. Len(s) + 1 :
          /\ LastLines(s, n) = From(s, a)
          /\ a = 1 \/ (a <= Len(s) /\ s[a - 1] = "newline")
          /\ \A i \in 1 .. Len(s) :
               Cardinality(AtLeast(LineEnds(s), i)) + 1 <= n <=> i >= a
<1> DEFINE E == LineEnds(s)
           tail(i) == AtLeast(E, i)
<1>1. IsFiniteSet(E) /\ Cardinality(E) \in Nat /\ \A j \in E : j \in 1 .. Len(s) /\ j < Len(s) /\ s[j] = "newline"
  BY LineEndsType, FS_CardinalityType
<1>2. LastLines(s, n) = IF Cardinality(E) + 1 <= n THEN s
                        ELSE From(s, 1 + CHOOSE i \in E : Cardinality(tail(i)) = n)
  BY DEF LastLines, LineEnds, AtLeast
<1> HIDE DEF E
<1>3. E \in SUBSET Int
  BY <1>1
<1>4. CASE Cardinality(E) + 1 <= n
  <2>1. LastLines(s, n) = s /\ From(s, 1) = s
    BY <1>2, <1>4, SubSeqFull DEF From
  <2>2. ASSUME NEW i \in 1 .. Len(s) PROVE Cardinality(tail(i)) + 1 <= n /\ i >= 1
    BY <1>1, <1>3, <1>4, AtLeastShrinks
  <2>3. 1 \in 1 .. Len(s) + 1
    OBVIOUS
  <2> QED BY <2>1, <2>2, <2>3 DEF E
<1>5. CASE Cardinality(E) + 1 > n
  <2> DEFINE e == CHOOSE i \in E : Cardinality(tail(i)) = n
  <2>1. \E x \in E : Cardinality(tail(x)) = n
    <3>1. n - 1 \in 0 .. Cardinality(E) - 1
      BY <1>1, <1>5
    <3>2. \E x \in E : Cardinality(Below(LaterFirst(E), E, x)) = n - 1
      <4>1. StrictOrder(LaterFirst(E), E)
        BY <1>3, LaterIsStrict
      <4> QED BY <1>1, <3>1, <4>1, EveryRank
    <3> QED BY <1>1, <1>3, <3>2, AtLeastRank
  <2>2. e \in E /\ Cardinality(tail(e)) = n
    BY <2>1
  <2>3. LastLines(s, n) = From(s, 1 + e)
    BY <1>1, <1>2, <1>5
  <2> HIDE DEF e
  <2> DEFINE a == 1 + e
  <2>4. a \in 1 .. Len(s) /\ a - 1 = e /\ s[a - 1] = "newline"
    BY <1>1, <2>2
  <2>5. Cardinality(tail(a)) + 1 = n
    <3>1. a = e + 1 /\ Cardinality(tail(e)) = Cardinality(tail(e + 1)) + 1
      BY <1>1, <1>3, <2>2, AtLeastRank
    <3> QED BY <2>2, <3>1
  <2>6. ASSUME NEW i \in 1 .. Len(s) PROVE Cardinality(tail(i)) + 1 <= n <=> i >= a
    <3>1. CASE i >= a
      BY <1>1, <1>3, <2>4, <2>5, <3>1, AtLeastShrinks
    <3>2. CASE i < a
      <4>1. i <= e /\ e \in Int
        BY <1>1, <2>2, <3>2
      <4>2. Cardinality(tail(i)) \in Nat /\ Cardinality(tail(e)) <= Cardinality(tail(i))
        BY <1>1, <1>3, <4>1, AtLeastShrinks
      <4> QED BY <2>2, <2>4, <3>2, <4>2
    <3> QED BY <2>4, <3>1, <3>2
  <2> QED BY <2>3, <2>4, <2>6 DEF E
<1> QED BY <1>1, <1>4, <1>5

LEMMA Least ==
  ASSUME NEW S \in SUBSET Nat, S # {} PROVE \E x \in S : \A y \in S : x <= y
<1>1. \A x, y \in Nat : y < x => <<y, x>> \in OpToRel(<, Nat)
  BY DEF OpToRel
<1>2. PICK x \in S : \A y \in S : ~ (<<y, x>> \in OpToRel(<, Nat))
  BY NatLessThanWellFounded, WFMin
<1>3. \A y \in S : ~(y < x)
  BY <1>1, <1>2
<1>4. x \in Nat /\ \A y \in S : y \in Nat
  OBVIOUS
<1> QED BY <1>3, <1>4

(* The last bytes start at the first character that begins among them. *)
LEMMA LastBytesPlace ==
  ASSUME NEW t \in Seq(Byte), NEW m \in Nat \ {0}, t # <<>> => RuneStart(t[1])
  PROVE \E b \in 1 .. Len(t) + 1 :
          /\ LastBytes(t, m) = From(t, b)
          /\ Len(t) - b + 1 <= m
          /\ b <= Len(t) => RuneStart(t[b])
          /\ \A i \in 1 .. Len(t) : RuneStart(t[i]) /\ Len(t) - i + 1 <= m => i >= b
<1> DEFINE starts == {i \in Len(t) - m + 1 .. Len(t) : RuneStart(t[i])}
           first  == CHOOSE i \in starts : \A j \in starts : i <= j
<1>1. CASE Len(t) <= m
  <2>1. LastBytes(t, m) = t /\ From(t, 1) = t
    BY <1>1, SubSeqFull DEF LastBytes, From
  <2> QED BY <1>1, <2>1
<1>2. CASE Len(t) > m /\ starts = {}
  <2>1. LastBytes(t, m) = <<>>
    BY <1>2 DEF LastBytes
  <2>2. From(t, Len(t) + 1) = <<>>
    BY SubSeqEmpty DEF From
  <2>3. \A i \in 1 .. Len(t) : ~(RuneStart(t[i]) /\ Len(t) - i + 1 <= m)
    <3> SUFFICES ASSUME NEW i \in 1 .. Len(t), RuneStart(t[i]), Len(t) - i + 1 <= m PROVE i \in starts
      BY <1>2
    <3> QED OBVIOUS
  <2> QED BY <2>1, <2>2, <2>3
<1>3. CASE Len(t) > m /\ starts # {}
  <2>1. LastBytes(t, m) = From(t, first)
    BY <1>3 DEF LastBytes
  <2>2. starts \in SUBSET Nat
    BY <1>3
  <2>3. first \in starts /\ \A j \in starts : first <= j
    <3>1. \E x \in starts : \A j \in starts : x <= j
      BY <1>3, <2>2, Least
    <3> QED BY <3>1
  <2> HIDE DEF first
  <2>4. first \in 1 .. Len(t) /\ Len(t) - first + 1 <= m /\ RuneStart(t[first])
    BY <1>3, <2>3
  <2>5. ASSUME NEW i \in 1 .. Len(t), RuneStart(t[i]), Len(t) - i + 1 <= m PROVE i >= first
    <3>1. i \in starts
      BY <2>5
    <3> QED BY <2>3, <2>4, <3>1
  <2> QED BY <2>1, <2>4, <2>5
<1> QED BY <1>1, <1>2, <1>3

LEMMA TailPlace ==
  ASSUME NEW s \in Seq(Byte), WholeRunes(s), NEW n \in Nat \ {0}, NEW m \in Nat \ {0}
  PROVE \E b \in 1 .. Len(s) + 1 :
          /\ LastBytes(LastLines(s, n), m) = From(s, b)
          /\ Len(s) - b + 1 <= m
          /\ b <= Len(s) => RuneStart(s[b]) /\ Cardinality(AtLeast(LineEnds(s), b)) + 1 <= n
          /\ \A i \in 1 .. Len(s) :
               /\ RuneStart(s[i]) /\ Len(s) - i + 1 <= m
               /\ Cardinality(AtLeast(LineEnds(s), i)) + 1 <= n
               => i >= b
<1> DEFINE lines(i) == Cardinality(AtLeast(LineEnds(s), i)) + 1 <= n
<1>1. PICK a \in 1 .. Len(s) + 1 :
        /\ LastLines(s, n) = From(s, a)
        /\ a = 1 \/ (a <= Len(s) /\ s[a - 1] = "newline")
        /\ \A i \in 1 .. Len(s) : lines(i) <=> i >= a
  BY LastLinesPlace
<1> HIDE DEF lines
<1> DEFINE t == From(s, a)
<1>2. CASE s = <<>>
  <2>1. Len(s) = 0 /\ a = 1
    BY <1>1, <1>2
  <2>2. From(s, 1) = <<>>
    BY <2>1, SubSeqEmpty DEF From
  <2>3. LastBytes(<<>>, m) = <<>>
    BY DEF LastBytes
  <2>4. LastBytes(LastLines(s, n), m) = From(s, 1)
    BY <1>1, <2>1, <2>2, <2>3
  <2> QED BY <2>1, <2>4
<1>3. CASE s # <<>>
  <2>1. a \in 1 .. Len(s) /\ RuneStart(s[a])
    BY <1>1, <1>3 DEF WholeRunes, RuneStart
  <2>2. /\ t \in Seq(Byte) /\ Len(t) = Len(s) - a + 1
        /\ \A k \in 1 .. Len(s) - a + 1 : t[k] = s[a + k - 1]
    BY <1>1, FromPlace
  <2>3. RuneStart(t[1])
    BY <2>1, <2>2
  <2> HIDE DEF t
  <2>4. PICK k \in 1 .. Len(t) + 1 :
          /\ LastBytes(t, m) = From(t, k)
          /\ Len(t) - k + 1 <= m
          /\ k <= Len(t) => RuneStart(t[k])
          /\ \A i \in 1 .. Len(t) : RuneStart(t[i]) /\ Len(t) - i + 1 <= m => i >= k
    BY <2>2, <2>3, LastBytesPlace
  <2> DEFINE b == a + k - 1
  <2>5. b \in 1 .. Len(s) + 1 /\ b >= a /\ Len(s) - b + 1 = Len(t) - k + 1
    BY <2>1, <2>2
  <2>6. From(t, k) = From(s, b)
    <3>1. CASE k <= Len(t)
      BY <2>1, <2>2, <3>1, FromFrom DEF t
    <3>2. CASE k = Len(t) + 1
      <4>1. b = Len(s) + 1
        BY <2>1, <2>2, <3>2
      <4>2. From(t, k) = <<>> /\ From(s, b) = <<>>
        BY <2>2, <3>2, <4>1, SubSeqEmpty DEF From
      <4> QED BY <4>2
    <3>3. Len(t) \in Nat /\ k \in 1 .. Len(t) + 1
      BY <2>2
    <3> QED BY <3>1, <3>2, <3>3
  <2>7. b <= Len(s) => RuneStart(s[b]) /\ lines(b)
    <3> SUFFICES ASSUME b <= Len(s) PROVE RuneStart(s[b]) /\ lines(b)
      OBVIOUS
    <3>1. k \in 1 .. Len(s) - a + 1
      BY <2>1, <2>2
    <3>2. RuneStart(s[b])
      BY <2>2, <2>4, <3>1
    <3> QED BY <1>1, <2>5, <3>2
  <2>8. ASSUME NEW i \in 1 .. Len(s), RuneStart(s[i]), Len(s) - i + 1 <= m, lines(i) PROVE i >= b
    <3>1. i >= a
      BY <1>1, <2>8
    <3>2. i - a + 1 \in 1 .. Len(t) /\ t[i - a + 1] = s[i] /\ Len(t) - (i - a + 1) + 1 <= m
      BY <2>1, <2>2, <2>8, <3>1
    <3>3. i - a + 1 >= k
      BY <2>4, <2>8, <3>2
    <3> QED BY <2>1, <3>3
  <2> HIDE DEF b
  <2> QED BY <1>1, <2>4, <2>5, <2>6, <2>7, <2>8 DEF lines, t
<1> QED BY <1>2, <1>3

(***************************************************************************)
(* Of the ends of a log that split no character and fit the limits, the    *)
(* tail is the longest: nothing is cut that need not be, for every log and *)
(* all limits, also those of zero and below.                               *)
(***************************************************************************)
THEOREM TailsAreLongest == PlainSpec => []TailIsLongest
<1>1. PlainInv => TailIsLongest
  <2> SUFFICES ASSUME PlainInv, NEW lines \in Limit, NEW bytes \in Limit
               PROVE LET tail == BoundLogs(log, lines, bytes)
                     IN /\ tail.text \in Ends(log) /\ Fits(tail.text, lines, bytes)
                        /\ \A s \in Ends(log) : Fits(s, lines, bytes) => Len(s) <= Len(tail.text)
                        /\ tail.omitted = Len(log) - Len(tail.text)
    BY DEF TailIsLongest
  <2> DEFINE n == IF lines <= 0 THEN DefaultTailLines ELSE lines
             m == IF bytes <= 0 THEN DefaultMaxBytes ELSE bytes
             text == LastBytes(LastLines(log, n), m)
             tail == BoundLogs(log, lines, bytes)
  <2>1. log \in Seq(Byte) /\ WholeRunes(log)
    BY DEF PlainInv
  <2>2. n \in Nat \ {0} /\ m \in Nat \ {0}
    BY LimitAssumption, DefaultAssumption
  <2>3. tail.text = text /\ tail.omitted = Len(log) - Len(text)
    BY DEF BoundLogs
  <2>4. \A s : Fits(s, lines, bytes) <=> (s # <<>> => RuneStart(s[1])) /\ LineCount(s) <= n /\ Len(s) <= m
    BY DEF Fits
  <2> HIDE DEF n, m, text, tail
  <2>5. PICK b \in 1 .. Len(log) + 1 :
          /\ text = From(log, b)
          /\ Len(log) - b + 1 <= m
          /\ b <= Len(log) => RuneStart(log[b]) /\ Cardinality(AtLeast(LineEnds(log), b)) + 1 <= n
          /\ \A i \in 1 .. Len(log) :
               /\ RuneStart(log[i]) /\ Len(log) - i + 1 <= m
               /\ Cardinality(AtLeast(LineEnds(log), i)) + 1 <= n
               => i >= b
    BY <2>1, <2>2, TailPlace DEF text
  <2>6. ASSUME NEW i \in 1 .. Len(log) + 1
        PROVE /\ Len(From(log, i)) = Len(log) - i + 1
              /\ i <= Len(log) => From(log, i) # <<>> /\ From(log, i)[1] = log[i]
                                  /\ LineCount(From(log, i)) = Cardinality(AtLeast(LineEnds(log), i)) + 1
              /\ i = Len(log) + 1 => From(log, i) = <<>> /\ LineCount(From(log, i)) = 0
    <3>1. /\ From(log, i) \in Seq(Byte) /\ Len(From(log, i)) = Len(log) - i + 1
          /\ \A k \in 1 .. Len(log) - i + 1 : From(log, i)[k] = log[i + k - 1]
      BY <2>1, FromPlace
    <3>2. CASE i <= Len(log)
      <4>1. i \in 1 .. Len(log)
        BY <3>2
      <4>2. From(log, i) # <<>> /\ From(log, i)[1] = log[i]
        BY <2>1, <3>1, <4>1
      <4>3. LineCount(From(log, i)) = Cardinality(AtLeast(LineEnds(log), i)) + 1
        BY <2>1, <4>1, LinesFromPlace
      <4> QED BY <2>1, <3>1, <3>2, <4>2, <4>3
    <3>3. CASE i = Len(log) + 1
      <4>1. From(log, i) = <<>>
        BY <2>1, <3>1, <3>3
      <4>2. LineCount(<<>>) = 0
        <5>1. Newlines(TrimSuffix(<<>>)) = {}
          BY DEF Newlines, TrimSuffix
        <5> QED BY <5>1, FS_EmptySet DEF LineCount
      <4> QED BY <2>1, <3>1, <3>3, <4>1, <4>2
    <3> QED BY <2>1, <3>2, <3>3
  <2>7. text \in Ends(log)
    BY <2>5 DEF Ends
  <2>8. Fits(text, lines, bytes)
    <3>1. CASE b <= Len(log)
      BY <2>1, <2>4, <2>5, <2>6, <3>1
    <3>2. CASE b = Len(log) + 1
      <4>1. text = <<>> /\ LineCount(text) = 0
        BY <2>5, <2>6, <3>2
      <4> QED BY <2>2, <2>4, <4>1
    <3> QED BY <2>1, <2>5, <3>1, <3>2
  <2>9. ASSUME NEW s \in Ends(log), Fits(s, lines, bytes) PROVE Len(s) <= Len(text)
    <3>1. PICK i \in 1 .. Len(log) + 1 : s = From(log, i)
      BY DEF Ends
    <3>2. Len(s) = Len(log) - i + 1 /\ Len(text) = Len(log) - b + 1
      BY <2>5, <2>6, <3>1
    <3>3. CASE i <= Len(log)
      <4>1. /\ RuneStart(log[i]) /\ Len(log) - i + 1 <= m
            /\ Cardinality(AtLeast(LineEnds(log), i)) + 1 <= n
        BY <2>4, <2>6, <2>9, <3>1, <3>2, <3>3
      <4>2. i >= b
        BY <2>1, <2>5, <3>3, <4>1
      <4> QED BY <2>1, <3>2, <4>2
    <3>4. CASE i = Len(log) + 1
      BY <2>1, <2>5, <3>2, <3>4
    <3> QED BY <2>1, <3>3, <3>4
  <2> QED BY <2>3, <2>7, <2>8, <2>9 DEF tail
<1> QED BY <1>1, PlainInvariance, PTL
=============================================================================
