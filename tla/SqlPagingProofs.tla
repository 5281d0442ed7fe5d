--------------------------- MODULE SqlPagingProofs ---------------------------
(***************************************************************************)
(* Theorems about SqlPaging, for any rows, page sizes and bounds.          *)
(***************************************************************************)
EXTENDS SqlPaging, SequenceTheorems, FiniteSetTheorems, TLAPS

\* The rows of S up to r in a statement's order: r's place is their number.
UpTo(S, clauses, r) == {q \in S : q = r \/ Before(clauses, q, r)}

\* Where the client's next page begins.
NextOffset ==
    IF query.follows = "page" THEN (next.page - 1) * query.size
    ELSE IF next.token = << >> THEN 0 ELSE next.token[1].offset

Unique(s) == \A i, j \in DOMAIN s : s[i] = s[j] => i = j

\* A token holds the order the client asked for, in so many words: one that
\* holds any is refused, so that no other is ever made from it.
TokenInv ==
    /\ next.page \in Nat
    /\ \/ next.token = << >>
       \/ /\ next.token = <<next.token[1]>>
          /\ next.token[1] \in [offset : Nat, orderBy : {query.orderBy}]

\* As long as the client walks, every page so far was a full one.
WalkInv ==
    status = "walking" =>
        /\ next.page >= 1 /\ NextOffset \in Nat
        /\ pages <= NextOffset /\ NextOffset <= Cardinality(Rows)

\* Over a table nobody changes, the client has been given the rows before the
\* next page, and no others.
QuietInv ==
    changes.inserted = 0 /\ changes.deleted = 0 =>
        /\ status = "walking" =>
              /\ NextOffset <= Cardinality(table)
              /\ delivered = SubSeq(Expected, 1, NextOffset)
        /\ IsPrefix(delivered, Expected)
        /\ status = "ended" => delivered = Expected

\* Inserts move the rows that were there all along towards the end: those that
\* are before the next page now have been delivered.
InsertInv ==
    changes.deleted = 0 =>
        /\ status = "walking" =>
              \A r \in constant : Place(table, AskedOrder, r) <= NextOffset =>
                  r \in ToSet(delivered)
        /\ status = "ended" => constant \subseteq ToSet(delivered)

\* Deletes move the rows towards the beginning: what has been delivered and is
\* still there is before the next page.
DeleteInv ==
    changes.inserted = 0 =>
        /\ Unique(delivered)
        /\ status = "walking" =>
              \A r \in ToSet(delivered) \cap table :
                  Place(table, AskedOrder, r) <= NextOffset

IInv ==
    /\ TypeOK /\ TokenInv /\ WalkInv /\ QuietInv /\ InsertInv /\ DeleteInv
    /\ WalkIsShort /\ OnlyTwoOrdersFail
----------------------------------------------------------------------------
\* The place of a row among its table's rows is a number between 1 and theirs.
LEMMA PlaceType ==
    ASSUME NEW S \in SUBSET Nat, IsFiniteSet(S), NEW cl, NEW r \in S
    PROVE  /\ UpTo(S, cl, r) \subseteq S /\ IsFiniteSet(UpTo(S, cl, r))
           /\ Place(S, cl, r) \in 1..Cardinality(S)
<1>1. UpTo(S, cl, r) \subseteq S /\ r \in UpTo(S, cl, r)
  BY DEF UpTo
<1>2. IsFiniteSet(UpTo(S, cl, r)) /\ Cardinality(UpTo(S, cl, r)) <= Cardinality(S)
  BY <1>1, FS_Subset
<1>3. Cardinality(UpTo(S, cl, r)) # 0
  BY <1>1, <1>2, FS_EmptySet
<1>4. Cardinality(UpTo(S, cl, r)) \in Nat /\ Cardinality(S) \in Nat
  BY <1>2, FS_CardinalityType
<1>5. QED
  BY <1>1, <1>2, <1>3, <1>4 DEF Place, UpTo

\* An earlier row has a smaller place.
LEMMA PlaceOrder ==
    ASSUME NEW S \in SUBSET Nat, IsFiniteSet(S), NEW cl, NEW q \in S, NEW r \in S,
           Before(cl, q, r)
    PROVE  Place(S, cl, q) < Place(S, cl, r)
<1>1. UpTo(S, cl, q) \subseteq UpTo(S, cl, r)
  <2>1. ASSUME NEW p \in S, p = q \/ Before(cl, p, q) PROVE Before(cl, p, r)
    <3>1. p \in Nat /\ q \in Nat /\ r \in Nat
      OBVIOUS
    <3>2. QED
      BY <2>1, <3>1 DEF Before
  <2>2. QED
    BY <2>1 DEF UpTo
<1>2. r \in UpTo(S, cl, r) /\ r \notin UpTo(S, cl, q)
  BY DEF UpTo, Before
<1>3. /\ IsFiniteSet(UpTo(S, cl, r))
      /\ Place(S, cl, q) \in Nat /\ Place(S, cl, r) \in Nat
  BY PlaceType
<1>4. Cardinality(UpTo(S, cl, q)) <= Cardinality(UpTo(S, cl, r))
      /\ Cardinality(UpTo(S, cl, q)) # Cardinality(UpTo(S, cl, r))
  BY <1>1, <1>2, <1>3, FS_Subset
<1>5. QED
  BY <1>3, <1>4 DEF Place, UpTo

\* The rows of a table have all places from 1 to their number: their places are
\* different, hence take every number up to it.
LEMMA PlacesTaken ==
    ASSUME NEW S \in SUBSET Nat, IsFiniteSet(S), NEW cl
    PROVE  /\ Cardinality(S) \in Nat
           /\ \A q, r \in S : Place(S, cl, q) = Place(S, cl, r) => q = r
           /\ \A i \in 1..Cardinality(S) : \E r \in S : Place(S, cl, r) = i
<1> DEFINE n == Cardinality(S)
           place == [r \in S |-> Place(S, cl, r)]
<1>1. n \in Nat /\ IsFiniteSet(1..n) /\ Cardinality(1..n) = n
  BY FS_CardinalityType, FS_Interval
<1>2. ASSUME NEW q \in S, NEW r \in S, Place(S, cl, q) = Place(S, cl, r) PROVE q = r
  <2>1. q = r \/ Before(cl, q, r) \/ Before(cl, r, q)
    BY DEF Before
  <2>2. Place(S, cl, q) \in Nat /\ Place(S, cl, r) \in Nat
    BY PlaceType
  <2>3. ~Before(cl, q, r) /\ ~Before(cl, r, q)
    BY <1>2, <2>2, PlaceOrder
  <2>4. QED
    BY <2>1, <2>3
<1>3. place \in Injection(S, 1..n)
  <2>1. place \in [S -> 1..n]
    BY PlaceType
  <2>2. \A q, r \in S : place[q] = place[r] => q = r
    BY <1>2
  <2> HIDE DEF place, n
  <2>3. QED
    BY <2>1, <2>2 DEF Injection, IsInjective
<1>4. place \in Surjection(S, 1..n)
  <2> HIDE DEF place
  <2>1. QED
    BY <1>1, <1>3, FS_Injection
<1>5. ASSUME NEW i \in 1..n PROVE \E r \in S : Place(S, cl, r) = i
  <2>1. \E r \in S : place[r] = i
    BY <1>4 DEF Surjection
  <2>2. QED
    BY <2>1
<1>6. QED
  BY <1>1, <1>2, <1>5

\* InOrder(S, cl) holds every row of S once, at its place.
LEMMA InOrderPlaces ==
    ASSUME NEW S \in SUBSET Nat, IsFiniteSet(S), NEW cl
    PROVE  /\ InOrder(S, cl) \in Seq(S) /\ Len(InOrder(S, cl)) = Cardinality(S)
           /\ Cardinality(S) \in Nat
           /\ \A i \in 1..Cardinality(S) : Place(S, cl, InOrder(S, cl)[i]) = i
           /\ \A r \in S : \E i \in 1..Cardinality(S) : InOrder(S, cl)[i] = r
<1> DEFINE n == Cardinality(S)
           s == InOrder(S, cl)
<1>1. /\ n \in Nat
      /\ \A q, r \in S : Place(S, cl, q) = Place(S, cl, r) => q = r
      /\ \A i \in 1..n : \E r \in S : Place(S, cl, r) = i
  BY PlacesTaken
<1>2. s = [i \in 1..n |-> CHOOSE r \in S : Place(S, cl, r) = i]
  BY DEF InOrder
<1> HIDE DEF s, n
<1>3. \A i \in 1..n : s[i] \in S /\ Place(S, cl, s[i]) = i
  BY <1>1, <1>2
<1>4. s \in Seq(S) /\ Len(s) = n
  <2>1. s \in [1..n -> S]
    BY <1>2, <1>3
  <2>2. QED
    BY <1>1, <2>1
<1>5. \A r \in S : \E i \in 1..n : s[i] = r
  <2> SUFFICES ASSUME NEW r \in S PROVE \E i \in 1..n : s[i] = r
    OBVIOUS
  <2>1. Place(S, cl, r) \in 1..n
    BY PlaceType DEF n
  <2>2. s[Place(S, cl, r)] = r
    BY <1>1, <1>3, <2>1
  <2>3. QED
    BY <2>1, <2>2
<1>6. QED
  BY <1>1, <1>3, <1>4, <1>5 DEF s, n

\* That is the statement's order: of two rows, the earlier one comes first.
LEMMA InOrderSorts ==
    ASSUME NEW S \in SUBSET Nat, IsFiniteSet(S), NEW cl,
           NEW i \in 1..Cardinality(S), NEW j \in 1..Cardinality(S), i < j
    PROVE  Before(cl, InOrder(S, cl)[i], InOrder(S, cl)[j])
<1> DEFINE q == InOrder(S, cl)[i]
           r == InOrder(S, cl)[j]
<1>1. q \in S /\ r \in S /\ Place(S, cl, q) = i /\ Place(S, cl, r) = j
  <2>1. /\ InOrder(S, cl) \in Seq(S) /\ Len(InOrder(S, cl)) = Cardinality(S)
        /\ \A k \in 1..Cardinality(S) : Place(S, cl, InOrder(S, cl)[k]) = k
    BY InOrderPlaces
  <2>2. QED
    BY <2>1
<1> HIDE DEF q, r
<1>2. q = r \/ Before(cl, q, r) \/ Before(cl, r, q)
  BY <1>1 DEF Before
<1>3. ~Before(cl, r, q)
  <2>1. ~(j < i)
    OBVIOUS
  <2>2. QED
    BY <1>1, <2>1, PlaceOrder
<1>4. QED
  BY <1>1, <1>2, <1>3 DEF q, r

\* More rows never move a row towards the beginning.
LEMMA PlaceMonotone ==
    ASSUME NEW T \in SUBSET Nat, IsFiniteSet(T), NEW S \in SUBSET T, NEW cl, NEW r \in S
    PROVE  Place(S, cl, r) <= Place(T, cl, r)
<1>1. UpTo(S, cl, r) \subseteq UpTo(T, cl, r)
  BY DEF UpTo
<1>2. IsFiniteSet(UpTo(T, cl, r))
  BY PlaceType
<1>3. QED
  BY <1>1, <1>2, FS_Subset DEF Place, UpTo

\* A page of at most size rows that begins behind the first o.
Page(s, o, size) == SubSeq(s, o + 1, Min({o + size, Len(s)}))

\* Where a page ends, and how long it is.
LEMMA PageLength ==
    ASSUME NEW S, NEW s \in Seq(S), NEW o \in Nat, NEW size \in Nat, size >= 1,
           NEW page, page = Page(s, o, size)
    PROVE  /\ o + size <= Len(s) => Len(page) = size
           /\ o + size > Len(s) => Len(page) < size
           /\ o <= Len(s) /\ o + size > Len(s) => Len(page) = Len(s) - o
           /\ page = << >> \/ o + Len(page) <= Len(s)
<1> DEFINE m == Min({o + size, Len(s)})
<1>1. Len(s) \in Nat /\ o + size \in Nat
  OBVIOUS
<1>2. m = IF o + size <= Len(s) THEN o + size ELSE Len(s)
  BY <1>1 DEF Min
<1>3. \A i \in o + 1 .. m : s[i] \in S
  BY <1>1, <1>2
<1>4. page = SubSeq(s, o + 1, m) /\ o + 1 \in Int /\ m \in Int
  BY <1>1, <1>2 DEF Page
<1> HIDE DEF m
<1>5. page \in Seq(S) /\ Len(page) = IF o + 1 <= m THEN m - (o + 1) + 1 ELSE 0
  BY <1>3, <1>4, SubSeqProperties
<1>6. QED
  BY <1>1, <1>2, <1>5

\* What a page holds.
LEMMA PageRows ==
    ASSUME NEW S, NEW s \in Seq(S), NEW o \in Nat, NEW size \in Nat, size >= 1,
           NEW page, page = Page(s, o, size)
    PROVE  /\ page \in Seq(S) /\ Len(page) \in Nat
           /\ \A k \in 1..Len(page) : o + k \in 1..Len(s) /\ page[k] = s[o + k]
<1> DEFINE m == Min({o + size, Len(s)})
<1>1. Len(s) \in Nat /\ o + size \in Nat
  OBVIOUS
<1>2. m = IF o + size <= Len(s) THEN o + size ELSE Len(s)
  BY <1>1 DEF Min
<1>3. \A i \in o + 1 .. m : s[i] \in S
  BY <1>1, <1>2
<1>4. page = SubSeq(s, o + 1, m) /\ o + 1 \in Int /\ m \in Int
  BY <1>1, <1>2 DEF Page
<1> HIDE DEF m
<1>5. /\ page \in Seq(S)
      /\ Len(page) = IF o + 1 <= m THEN m - (o + 1) + 1 ELSE 0
      /\ \A i \in 1 .. m - (o + 1) + 1 : page[i] = s[o + 1 + i - 1]
  BY <1>3, <1>4, SubSeqProperties
<1>6. Len(page) \in Nat /\ (o + Len(page) <= Len(s) \/ Len(page) = 0)
  BY <1>1, <1>2, <1>5
<1>7. ASSUME NEW k \in 1..Len(page) PROVE o + k \in 1..Len(s) /\ page[k] = s[o + k]
  <2>1. Len(page) # 0 /\ k \in Nat /\ k >= 1 /\ k <= Len(page) /\ Len(page) \in Nat
    BY <1>5, <1>7
  <2>2. o + k \in 1..Len(s)
    BY <1>1, <1>6, <2>1
  <2>3. k \in 1 .. m - (o + 1) + 1
    BY <1>1, <1>2, <1>5, <2>1
  <2>4. page[k] = s[o + 1 + k - 1] /\ o + 1 + k - 1 = o + k
    BY <1>5, <2>1, <2>3
  <2>5. QED
    BY <2>2, <2>4
<1>8. QED
  BY <1>5, <1>7

\* A page of rows that have places holds the rows at its own places.
LEMMA PagePlaces ==
    ASSUME NEW S \in SUBSET Nat, IsFiniteSet(S), NEW cl, NEW o \in Nat,
           NEW size \in Nat, size >= 1
    PROVE  LET page == Page(InOrder(S, cl), o, size)
           IN  /\ ToSet(page) = {r \in S : Place(S, cl, r) \in o + 1 .. o + size}
               /\ Unique(page)
<1> DEFINE s == InOrder(S, cl)
           n == Cardinality(S)
           page == Page(s, o, size)
<1>1. s \in Seq(S) /\ Len(s) = n /\ n \in Nat
      /\ (\A i \in 1..n : Place(S, cl, s[i]) = i) /\ (\A r \in S : \E i \in 1..n : s[i] = r)
  BY InOrderPlaces
<1> HIDE DEF s, n
<1>2. /\ page \in Seq(S) /\ Len(page) \in Nat
      /\ \A k \in 1..Len(page) : o + k \in 1..Len(s) /\ page[k] = s[o + k]
      /\ o + size <= Len(s) => Len(page) = size
      /\ o + size > Len(s) => Len(page) < size
      /\ o <= Len(s) /\ o + size > Len(s) => Len(page) = Len(s) - o
  <2>1. page = Page(s, o, size)
    OBVIOUS
  <2> HIDE DEF page
  <2>2. s \in Seq(S)
    BY <1>1
  <2>3. /\ page \in Seq(S) /\ Len(page) \in Nat
        /\ \A k \in 1..Len(page) : o + k \in 1..Len(s) /\ page[k] = s[o + k]
    BY <2>1, <2>2, PageRows
  <2>4. /\ o + size <= Len(s) => Len(page) = size
        /\ o + size > Len(s) => Len(page) < size
        /\ o <= Len(s) /\ o + size > Len(s) => Len(page) = Len(s) - o
    BY <2>1, <2>2, PageLength
  <2>5. QED
    BY <2>3, <2>4
<1> HIDE DEF page
<1>3. DOMAIN page = 1..Len(page)
  BY <1>2
<1>4. \A k \in 1..Len(page) : page[k] \in S /\ Place(S, cl, page[k]) = o + k
  BY <1>1, <1>2
<1>5. Unique(page)
  <2>1. ASSUME NEW i \in 1..Len(page), NEW j \in 1..Len(page), page[i] = page[j]
        PROVE  i = j
    <3>1. o + i = o + j
      BY <1>4, <2>1
    <3>2. QED
      BY <1>2, <3>1
  <2>2. QED
    BY <1>3, <2>1 DEF Unique
<1>6. ASSUME NEW r \in ToSet(page) PROVE r \in S /\ Place(S, cl, r) \in o + 1 .. o + size
  <2>1. PICK k \in 1..Len(page) : r = page[k]
    BY <1>3 DEF ToSet
  <2>2. k <= size
    BY <1>1, <1>2
  <2>3. QED
    BY <1>2, <1>4, <2>1, <2>2
<1>7. ASSUME NEW r \in S, Place(S, cl, r) \in o + 1 .. o + size PROVE r \in ToSet(page)
  <2>1. PICK i \in 1..n : s[i] = r
    BY <1>1
  <2>2. i \in o + 1 .. o + size
    BY <1>1, <1>7, <2>1
  <2>3. i - o \in 1..Len(page)
    BY <1>1, <1>2, <2>1, <2>2
  <2>4. page[i - o] = s[o + (i - o)] /\ o + (i - o) = i
    <3>1. o + (i - o) = i
      OBVIOUS
    <3>2. QED
      BY <1>2, <2>3, <3>1
  <2>5. QED
    BY <1>3, <2>1, <2>3, <2>4 DEF ToSet
<1>8. ToSet(page) = {r \in S : Place(S, cl, r) \in o + 1 .. o + size}
  BY <1>6, <1>7
<1>9. QED
  BY <1>5, <1>8 DEF page, s
----------------------------------------------------------------------------
\* The next page number begins a page further.
LEMMA NextPage ==
    ASSUME NEW p \in Nat, NEW size \in Nat, p >= 1
    PROVE  (p - 1) * size \in Nat /\ (p + 1 - 1) * size = (p - 1) * size + size
<1>1. PICK q \in Nat : p = q + 1
  <2>1. p - 1 \in Nat /\ p = (p - 1) + 1
    OBVIOUS
  <2>2. QED
    BY <2>1
<1>2. (p - 1) * size = q * size /\ (p + 1 - 1) * size = (q + 1) * size
  BY <1>1
<1>3. q * size \in Nat /\ (q + 1) * size = q * size + size
  OBVIOUS
<1>4. QED
  BY <1>2, <1>3

\* What the adapter makes of the client's statement, its order_by and its token.
SentOrderBy(token) == IF token = << >> \/ query.repeats THEN query.orderBy ELSE NoOrder

\* A statement with one ORDER BY has the order the client asked for, and its
\* answer's token holds the order the client asked for in so many words; one
\* with more comes of the two ways to ask for an order twice.
LEMMA StatementOrder ==
    ASSUME TypeOK, TokenInv, NEW token,
           token = IF query.follows = "token" THEN next.token ELSE << >>,
           NEW clauses, clauses = Statement(query.own, SentOrderBy(token), token)
    PROVE  /\ Len(clauses) = 1 => /\ clauses = AskedOrder
                                  /\ SentOrderBy(token) = query.orderBy
                                  /\ token # << >> => query.orderBy = NoOrder
           /\ Len(clauses) > 1 => /\ query.orderBy # NoOrder
                                  /\ query.own # << >> \/ query.follows = "token"
<1>1. /\ query.own \in {<< >>, <<"x">>} /\ query.orderBy \in {"none", "x"}
      /\ query.repeats \in BOOLEAN
  BY DEF TypeOK, Queries, Orders, NoOrder
<1>2. token = << >> \/ token[1].orderBy = query.orderBy
  BY DEF TokenInv
<1>3. token # << >> => query.follows = "token"
  OBVIOUS
<1>4. /\ Append(<< >>, "x") = <<"x">> /\ Len(<<"x">>) = 1 /\ <<"x">> # << >>
      /\ Len(<<"1">>) = 1 /\ <<"1">> # << >>
      /\ Len(Append(<<"x">>, "x")) = 2 /\ Len(Append(<<"1">>, "x")) = 2
      /\ Append(<<"x">>, "x") # << >> /\ Append(<<"1">>, "x") # << >>
      /\ Len(Append(Append(<<"x">>, "x"), "x")) = 3
      /\ Len(Append(Append(<<"1">>, "x"), "x")) = 3
  OBVIOUS
<1>5. CASE query.orderBy = "none"
  <2>1. SentOrderBy(token) = "none" /\ (token = << >> \/ token[1].orderBy = "none")
    BY <1>2, <1>5 DEF SentOrderBy, NoOrder
  <2>2. clauses = IF query.own = << >> THEN <<"1">> ELSE query.own
    BY <2>1 DEF Statement, NormalizeStatement, NoOrder
  <2>3. clauses = AskedOrder
    BY <1>1, <1>5, <2>2 DEF AskedOrder, NoOrder
  <2>4. Len(clauses) = 1
    BY <1>1, <1>4, <2>2
  <2>5. ~(Len(clauses) > 1)
    <3>1. ~(1 > 1)
      OBVIOUS
    <3>2. QED
      BY <2>4, <3>1, Zenon
  <2>6. SentOrderBy(token) = query.orderBy
    BY <1>5, <2>1
  <2>7. QED
    BY <1>5, <2>3, <2>5, <2>6 DEF NoOrder
<1>6. CASE query.orderBy = "x"
  <2>1. AskedOrder = <<"x">> /\ query.orderBy # NoOrder
    BY <1>6 DEF AskedOrder, NoOrder
  <2>2. CASE token = << >>
    <3>1. SentOrderBy(token) = "x"
      BY <1>6, <2>2 DEF SentOrderBy
    <3>2. clauses = Append(query.own, "x")
      BY <2>2, <3>1 DEF Statement, NormalizeStatement, NoOrder
    <3>3. QED
      BY <1>1, <1>4, <1>6, <2>1, <2>2, <3>1, <3>2
  <2>3. CASE token # << >>
    <3>1. token[1].orderBy = "x" /\ query.follows = "token"
      BY <1>2, <1>3, <1>6, <2>3
    <3>2. SentOrderBy(token) \in {"none", "x"}
      BY <1>6 DEF SentOrderBy, NoOrder
    <3>3. DEFINE first == NormalizeStatement(query.own, SentOrderBy(token))
    <3>4. clauses = Append(first, "x")
      BY <2>3, <3>1 DEF Statement, NormalizeStatement, NoOrder
    <3>5. first \in {<<"1">>, <<"x">>, Append(<<"x">>, "x")}
      BY <1>1, <1>4, <3>2 DEF NormalizeStatement, NoOrder
    <3>6. Len(clauses) \in {2, 3}
      BY <1>4, <3>4, <3>5
    <3>7. Len(clauses) # 1
      BY <3>6
    <3>8. QED
      BY <2>1, <3>1, <3>7
  <2>4. QED
    BY <2>2, <2>3
<1>7. QED
  BY <1>1, <1>5, <1>6

\* One page: it is refused, or it holds the rows of the client's order that
\* follow the ones before it, and says whether it is a full one.
PageRead(size) ==
    /\ size >= 1
    /\ query.follows = "token" /\ next.token # << >> => query.orderBy = NoOrder
    /\ delivered' = delivered \o Page(Expected, NextOffset, size)
    /\ TokenInv'
    /\ \/ /\ status' = "walking" /\ NextOffset + size <= Len(Expected)
          /\ next'.token # << >> /\ next'.page >= 1 /\ NextOffset' = NextOffset + size
       \/ /\ status' = "ended" /\ NextOffset + size > Len(Expected)
          /\ next' = NothingNext

LEMMA PageStep ==
    ASSUME TypeOK, TokenInv, WalkInv, NEW size \in PageSizes, QueryPage(size)
    PROVE  /\ status = "walking" /\ pages < MaxPages /\ pages' = pages + 1
           /\ size \in Nat
           /\ UNCHANGED <<table, query, constant, changes>>
           /\ \/ status' = "rejected" /\ UNCHANGED <<next, delivered>>
              \/ /\ status' = "failed" /\ UNCHANGED <<next, delivered>>
                 /\ query.orderBy # NoOrder
                 /\ query.own # << >> \/ query.follows = "token"
              \/ PageRead(size)
<1> DEFINE token == IF query.follows = "token" THEN next.token ELSE << >>
           page == IF query.follows = "page" THEN next.page ELSE 1
           orderBy == SentOrderBy(token)
           clauses == Statement(query.own, orderBy, token)
           offset == Offset(page, size, token)
           rows == InOrder(table, clauses)
           found == Page(rows, offset, size)
<1>1. /\ status = "walking" /\ pages < MaxPages /\ pages' = pages + 1 /\ size \in Nat
      /\ UNCHANGED <<table, query, constant, changes>>
      /\ query.follows = "page" => size = query.size
      /\ query.follows \in {"token", "page"} /\ next.page \in Nat /\ next.page >= 1
  BY SizesAssumption DEF QueryPage, TypeOK, Queries, TokenInv, WalkInv
<1>2. \/ status' = "rejected" /\ UNCHANGED <<next, delivered>>
      \/ Len(clauses) > 1 /\ status' = "failed" /\ UNCHANGED <<next, delivered>>
      \/ /\ page >= 1 /\ size >= 1 /\ Len(clauses) = 1
         /\ delivered' = delivered \o found
         /\ \E more \in {FALSE, offset + size < Len(rows)} :
               LET hasMore == HasMore(more, Len(found), size)
               IN  /\ PaginationMetadata(page, size, offset, orderBy, hasMore)
                   /\ status' = IF hasMore THEN "walking" ELSE "ended"
  BY DEF QueryPage, SentOrderBy, Page
<1>3. /\ Len(clauses) = 1 => /\ clauses = AskedOrder /\ orderBy = query.orderBy
                             /\ token # << >> => query.orderBy = NoOrder
      /\ Len(clauses) > 1 => /\ query.orderBy # NoOrder
                             /\ query.own # << >> \/ query.follows = "token"
  BY StatementOrder
<1>4. offset = NextOffset /\ offset \in Nat
  <2>1. CASE query.follows = "page"
    BY <1>1, <2>1 DEF Offset, NextOffset, WalkInv
  <2>2. CASE query.follows = "token"
    <3>1. (1 - 1) * size = 0
      BY <1>1
    <3>2. QED
      BY <1>1, <2>2, <3>1 DEF Offset, NextOffset, WalkInv
  <2>3. QED
    BY <1>1, <2>1, <2>2
<1> HIDE DEF token, clauses, offset, orderBy
<1>5. ASSUME page >= 1, size >= 1, Len(clauses) = 1, delivered' = delivered \o found,
             NEW more \in {FALSE, offset + size < Len(rows)}, NEW hasMore,
             hasMore = HasMore(more, Len(found), size),
             PaginationMetadata(page, size, offset, orderBy, hasMore),
             status' = IF hasMore THEN "walking" ELSE "ended"
      PROVE  PageRead(size)
  <2>1. rows = Expected /\ orderBy = query.orderBy
    BY <1>3, <1>5 DEF Expected
  <2>2. rows \in Seq(table) /\ Len(rows) \in Nat
    <3>1. table \in SUBSET Nat /\ IsFiniteSet(table)
      BY RowsAssumption, FS_Subset DEF TypeOK
    <3>2. QED
      BY <3>1, InOrderPlaces
  <2> HIDE DEF rows
  <2>3. /\ offset + size <= Len(rows) => Len(found) = size
        /\ offset + size > Len(rows) => Len(found) < size
    BY <1>1, <1>4, <1>5, <2>2, PageLength
  <2>4. Len(found) \in Nat
    BY <1>1, <1>4, <1>5, <2>2, PageRows
  <2> HIDE DEF found
  <2>5. hasMore <=> offset + size <= Len(rows)
    <3>1. more => offset + size < Len(rows)
      BY <1>5, Zenon
    <3>2. hasMore <=> (more \/ Len(found) = size)
      BY <1>5 DEF HasMore
    <3>3. Len(found) = size <=> offset + size <= Len(rows)
      BY <1>1, <1>4, <2>2, <2>3, <2>4
    <3>4. offset + size < Len(rows) => offset + size <= Len(rows)
      BY <1>1, <1>4, <2>2
    <3>5. QED
      BY <3>1, <3>2, <3>3, <3>4, Zenon
  <2>6. delivered' = delivered \o Page(Expected, NextOffset, size)
    BY <1>4, <1>5, <2>1 DEF found
  <2>10. query.follows = "token" /\ next.token # << >> => query.orderBy = NoOrder
    BY <1>3, <1>5 DEF token
  <2>7. CASE ~(offset + size <= Len(rows))
    <3>1. next' = NothingNext /\ status' = "ended"
      BY <1>5, <2>5, <2>7 DEF PaginationMetadata
    <3>2. TokenInv'
      BY <3>1 DEF TokenInv, NothingNext
    <3>3. NextOffset + size > Len(Expected)
      BY <1>1, <1>4, <2>1, <2>2, <2>7
    <3>4. QED
      BY <1>5, <2>6, <2>10, <3>1, <3>2, <3>3 DEF PageRead
  <2>8. CASE offset + size <= Len(rows)
    <3>1. /\ next' = [token |-> <<[offset |-> offset + size, orderBy |-> query.orderBy]>>,
                      page |-> page + 1]
          /\ status' = "walking"
      BY <1>5, <2>1, <2>5, <2>8 DEF PaginationMetadata, EncodeContinuationToken
    <3>2. page \in Nat /\ page >= 1
      BY <1>1, <1>5
    <3>3. TokenInv' /\ next'.page >= 1
      BY <1>1, <1>4, <3>1, <3>2 DEF TokenInv
    <3>4. NextOffset' = offset + size
      <4>1. CASE query.follows = "page"
        <5>1. NextOffset' = (next.page + 1 - 1) * size
          BY <1>1, <3>1, <4>1 DEF NextOffset
        <5>2. NextOffset = (next.page - 1) * size
          BY <1>1, <4>1 DEF NextOffset
        <5>3. QED
          BY <1>1, <1>4, <5>1, <5>2, NextPage
      <4>2. CASE query.follows = "token"
        BY <1>1, <3>1, <4>2 DEF NextOffset
      <4>3. QED
        BY <1>1, <4>1, <4>2
    <3>5. NextOffset + size <= Len(Expected)
      BY <1>4, <2>1, <2>8
    <3>6. next'.token # << >>
      BY <3>1
    <3>7. QED
      BY <1>4, <1>5, <2>6, <2>10, <3>1, <3>3, <3>4, <3>5, <3>6 DEF PageRead
  <2>9. QED
    BY <2>7, <2>8
<1>6. CASE /\ page >= 1 /\ size >= 1 /\ Len(clauses) = 1
           /\ delivered' = delivered \o found
           /\ \E more \in {FALSE, offset + size < Len(rows)} :
                 LET hasMore == HasMore(more, Len(found), size)
                 IN  /\ PaginationMetadata(page, size, offset, orderBy, hasMore)
                     /\ status' = IF hasMore THEN "walking" ELSE "ended"
  <2> HIDE DEF page, rows, found
  <2>1. PICK more \in {FALSE, offset + size < Len(rows)} :
              LET hasMore == HasMore(more, Len(found), size)
              IN  /\ PaginationMetadata(page, size, offset, orderBy, hasMore)
                  /\ status' = IF hasMore THEN "walking" ELSE "ended"
    BY <1>6
  <2>2. PageRead(size)
    BY <1>5, <1>6, <2>1
  <2>3. QED
    BY <1>1, <2>2
<1>7. CASE status' = "rejected" /\ UNCHANGED <<next, delivered>>
  BY <1>1, <1>7
<1>8. CASE Len(clauses) > 1 /\ status' = "failed" /\ UNCHANGED <<next, delivered>>
  <2>1. query.orderBy # NoOrder /\ (query.own # << >> \/ query.follows = "token")
    BY <1>3, <1>8
  <2>2. QED
    BY <1>1, <1>8, <2>1
<1> HIDE DEF page, rows, found
<1>9. QED
  BY <1>2, <1>6, <1>7, <1>8
----------------------------------------------------------------------------
\* The table and its rows in the client's order.
LEMMA TableFacts ==
    ASSUME TypeOK
    PROVE  /\ table \in SUBSET Nat /\ IsFiniteSet(table)
           /\ Cardinality(table) \in Nat /\ Cardinality(Rows) \in Nat
           /\ Cardinality(table) <= Cardinality(Rows)
           /\ Expected \in Seq(table) /\ Expected \in Seq(Rows)
           /\ Len(Expected) = Cardinality(table)
<1>1. /\ table \in SUBSET Nat /\ IsFiniteSet(table) /\ Cardinality(table) <= Cardinality(Rows)
      /\ Cardinality(Rows) \in Nat
  BY RowsAssumption, FS_Subset, FS_CardinalityType DEF TypeOK
<1>2. /\ Expected \in Seq(table) /\ Len(Expected) = Cardinality(table)
      /\ Cardinality(table) \in Nat
  BY <1>1, InOrderPlaces DEF Expected
<1>3. Expected \in Seq(Rows)
  BY <1>2, SeqMonotonic DEF TypeOK
<1>4. QED
  BY <1>1, <1>2, <1>3

\* The first k elements of a sequence are a prefix of it.
LEMMA FirstArePrefix ==
    ASSUME NEW S, NEW s \in Seq(S), NEW k \in 0..Len(s)
    PROVE  SubSeq(s, 1, k) \in Seq(S) /\ IsPrefix(SubSeq(s, 1, k), s)
<1> DEFINE t == SubSeq(s, 1, k)
<1>1. Len(s) \in Nat /\ 1 \in Int /\ k \in Int /\ \A i \in 1..k : s[i] \in S
  OBVIOUS
<1>2. t \in Seq(S) /\ Len(t) = k
  BY <1>1, SubSeqProperties
<1>3. SubSeq(t, 1, k) = t
  <2> HIDE DEF t
  <2>1. QED
    BY <1>2, SubSeqFull
<1> HIDE DEF t
<1>4. Len(t) <= Len(s) /\ SubSeq(t, 1, Len(t)) = SubSeq(s, 1, Len(t))
  BY <1>1, <1>2, <1>3 DEF t
<1>5. QED
  BY <1>2, <1>4 DEF IsPrefix, t

\* Two sequences put together hold what each of them holds.
LEMMA ConcatSets ==
    ASSUME NEW S, NEW s \in Seq(S), NEW t \in Seq(S)
    PROVE  ToSet(s \o t) = ToSet(s) \cup ToSet(t)
<1> DEFINE u == s \o t
<1>1. /\ Len(s) \in Nat /\ Len(t) \in Nat
      /\ DOMAIN s = 1..Len(s) /\ DOMAIN t = 1..Len(t)
  OBVIOUS
<1>2. /\ u \in Seq(S) /\ Len(u) = Len(s) + Len(t)
      /\ \A i \in 1..Len(s) + Len(t) :
            u[i] = IF i <= Len(s) THEN s[i] ELSE t[i - Len(s)]
  BY ConcatProperties
<1> HIDE DEF u
<1>3. DOMAIN u = 1..Len(s) + Len(t)
  BY <1>1, <1>2
<1>4. ASSUME NEW i \in 1..Len(s) PROVE s[i] \in ToSet(u)
  <2>1. i \in DOMAIN u /\ u[i] = s[i]
    BY <1>1, <1>2, <1>3
  <2>2. QED
    BY <2>1 DEF ToSet
<1>5. ASSUME NEW i \in 1..Len(t) PROVE t[i] \in ToSet(u)
  <2>1. Len(s) + i \in DOMAIN u /\ ~(Len(s) + i <= Len(s)) /\ (Len(s) + i) - Len(s) = i
    BY <1>1, <1>3
  <2>2. u[Len(s) + i] = t[i]
    BY <1>2, <1>3, <2>1
  <2>3. QED
    BY <2>1, <2>2 DEF ToSet
<1>6. ASSUME NEW i \in DOMAIN u PROVE u[i] \in ToSet(s) \cup ToSet(t)
  <2>1. CASE i <= Len(s)
    <3>1. i \in DOMAIN s /\ u[i] = s[i]
      BY <1>1, <1>2, <1>3, <1>6, <2>1
    <3>2. QED
      BY <3>1 DEF ToSet
  <2>2. CASE ~(i <= Len(s))
    <3>1. i - Len(s) \in DOMAIN t /\ u[i] = t[i - Len(s)]
      BY <1>1, <1>2, <1>3, <1>6, <2>2
    <3>2. QED
      BY <3>1 DEF ToSet
  <2>3. QED
    BY <2>1, <2>2
<1>7. ToSet(u) \subseteq ToSet(s) \cup ToSet(t)
  BY <1>6 DEF ToSet
<1>8. ToSet(s) \subseteq ToSet(u) /\ ToSet(t) \subseteq ToSet(u)
  BY <1>1, <1>4, <1>5 DEF ToSet
<1>9. QED
  BY <1>7, <1>8 DEF u

\* Put together, they repeat nothing when neither does and they share nothing.
LEMMA ConcatUnique ==
    ASSUME NEW S, NEW s \in Seq(S), NEW t \in Seq(S), Unique(s), Unique(t),
           ToSet(s) \cap ToSet(t) = {}
    PROVE  Unique(s \o t)
<1> DEFINE u == s \o t
<1>1. /\ Len(s) \in Nat /\ Len(t) \in Nat
      /\ DOMAIN s = 1..Len(s) /\ DOMAIN t = 1..Len(t)
  OBVIOUS
<1>2. /\ u \in Seq(S) /\ Len(u) = Len(s) + Len(t)
      /\ \A i \in 1..Len(s) + Len(t) :
            u[i] = IF i <= Len(s) THEN s[i] ELSE t[i - Len(s)]
  BY ConcatProperties
<1> HIDE DEF u
<1>3. DOMAIN u = 1..Len(s) + Len(t)
  BY <1>1, <1>2
<1>4. ASSUME NEW i \in DOMAIN u
      PROVE  \/ i \in DOMAIN s /\ u[i] = s[i]
             \/ /\ i > Len(s) /\ i - Len(s) \in DOMAIN t
                /\ u[i] = t[i - Len(s)]
  BY <1>1, <1>2, <1>3, <1>4
<1>5. \A i \in DOMAIN s : s[i] \in ToSet(s)
  BY DEF ToSet
<1>6. \A i \in DOMAIN t : t[i] \in ToSet(t)
  BY DEF ToSet
<1>7. ASSUME NEW i \in DOMAIN u, NEW j \in DOMAIN u, u[i] = u[j] PROVE i = j
  <2>1. CASE i \in DOMAIN s /\ u[i] = s[i]
    <3>1. j \in DOMAIN s /\ u[j] = s[j]
      BY <1>4, <1>5, <1>6, <1>7, <2>1
    <3>2. QED
      BY <1>7, <2>1, <3>1 DEF Unique
  <2>2. CASE i > Len(s) /\ i - Len(s) \in DOMAIN t /\ u[i] = t[i - Len(s)]
    <3>1. j > Len(s) /\ j - Len(s) \in DOMAIN t /\ u[j] = t[j - Len(s)]
      BY <1>4, <1>5, <1>6, <1>7, <2>2
    <3>2. i - Len(s) = j - Len(s)
      BY <1>7, <2>2, <3>1 DEF Unique
    <3>3. QED
      BY <1>1, <1>3, <3>2
  <2>3. QED
    BY <1>4, <2>1, <2>2
<1>8. QED
  BY <1>7 DEF Unique, u
----------------------------------------------------------------------------
LEMMA InitIInv == Init => IInv
<1> SUFFICES ASSUME Init PROVE IInv
  OBVIOUS
<1>1. TypeOK
  BY PagesAssumption DEF Init, TypeOK, NothingNext
<1>2. NextOffset = 0
  <2>1. query.size \in Nat /\ query.follows \in {"token", "page"}
    BY SizesAssumption DEF Init, Queries
  <2>2. (1 - 1) * query.size = 0
    BY <2>1
  <2>3. QED
    BY <2>1, <2>2 DEF Init, NextOffset
<1>3. TokenInv /\ WalkInv /\ WalkIsShort /\ OnlyTwoOrdersFail
  BY <1>1, <1>2, TableFacts
     DEF Init, TokenInv, WalkInv, WalkIsShort, OnlyTwoOrdersFail
<1>4. QuietInv
  <2>1. Expected \in Seq(table) /\ 0 \in 0..Len(Expected)
    BY <1>1, TableFacts
  <2>2. SubSeq(Expected, 1, 0) = << >>
    BY SubSeqEmpty
  <2>3. IsPrefix(<< >>, Expected)
    BY <2>1, <2>2, FirstArePrefix
  <2>4. QED
    BY <1>1, <1>2, <2>2, <2>3, TableFacts DEF Init, QuietInv
<1>5. ToSet(delivered) = {} /\ Unique(delivered)
  BY DEF Init, ToSet, Unique
<1>6. \A r \in constant : ~(Place(table, AskedOrder, r) <= NextOffset)
  <2> SUFFICES ASSUME NEW r \in constant PROVE ~(Place(table, AskedOrder, r) <= 0)
    BY <1>2
  <2>1. r \in table
    BY <1>1 DEF TypeOK
  <2>2. Place(table, AskedOrder, r) \in 1..Cardinality(table)
    BY <1>1, <2>1, TableFacts, PlaceType
  <2>3. QED
    BY <2>2
<1>7. InsertInv /\ DeleteInv
  BY <1>5, <1>6 DEF Init, InsertInv, DeleteInv
<1>8. QED
  BY <1>1, <1>3, <1>4, <1>7 DEF IInv

\* A page that is read keeps the invariant.
LEMMA PageReadIInv ==
    ASSUME IInv, NEW size \in Nat, PageRead(size), status = "walking",
           pages < MaxPages, pages' = pages + 1,
           UNCHANGED <<table, query, constant, changes>>
    PROVE  IInv'
<1> DEFINE o == NextOffset
           page == Page(Expected, o, size)
           n == Cardinality(table)
<1>1. /\ o \in Nat /\ pages <= o /\ o <= Cardinality(Rows) /\ pages \in Nat
      /\ size >= 1
      /\ delivered \in Seq(Rows)
  BY DEF IInv, WalkInv, TypeOK, PageRead
<1>2. /\ table \in SUBSET Nat /\ IsFiniteSet(table) /\ n \in Nat /\ Cardinality(Rows) \in Nat
      /\ n <= Cardinality(Rows)
      /\ Expected \in Seq(table) /\ Expected \in Seq(Rows) /\ Len(Expected) = n
  BY TableFacts DEF IInv
<1>3. /\ page \in Seq(Rows) /\ Len(page) \in Nat
  BY <1>1, <1>2, PageRows
<1>4. /\ ToSet(page) = {r \in table : Place(table, AskedOrder, r) \in o + 1 .. o + size}
      /\ Unique(page)
  BY <1>1, <1>2, PagePlaces DEF Expected
<1>5. delivered' = delivered \o page /\ delivered' \in Seq(Rows)
      /\ ToSet(delivered') = ToSet(delivered) \cup ToSet(page)
  <2>1. delivered' = delivered \o page
    BY DEF PageRead
  <2> HIDE DEF page
  <2>2. QED
    BY <1>1, <1>3, <2>1, ConcatSets
<1>6. /\ TokenInv'
      /\ \/ /\ status' = "walking" /\ o + size <= n
            /\ next'.page >= 1 /\ NextOffset' = o + size
         \/ /\ status' = "ended" /\ o + size > n
            /\ next' = NothingNext
  BY <1>2 DEF PageRead
<1>7. AskedOrder' = AskedOrder /\ Expected' = Expected
  BY DEF AskedOrder, Expected
<1>8. \A r \in table : Place(table, AskedOrder, r) \in 1..n
  BY <1>2, PlaceType
<1> HIDE DEF o, page, n
<1>9. TypeOK'
  <2>1. pages' \in 0..MaxPages
    BY <1>1, PagesAssumption
  <2>2. next'.page \in Nat /\ (next'.token # << >> => next'.token[1].offset \in Nat)
    BY <1>6 DEF TokenInv
  <2>3. QED
    BY <1>5, <1>6, <2>1, <2>2 DEF IInv, TypeOK
<1>10. WalkInv' /\ WalkIsShort' /\ OnlyTwoOrdersFail'
  BY <1>1, <1>2, <1>6 DEF WalkInv, WalkIsShort, OnlyTwoOrdersFail
<1>11. QuietInv'
  <2> SUFFICES ASSUME changes'.inserted = 0, changes'.deleted = 0
               PROVE  /\ status' = "walking" =>
                            /\ NextOffset' <= Cardinality(table')
                            /\ delivered' = SubSeq(Expected, 1, NextOffset')
                      /\ IsPrefix(delivered', Expected)
                      /\ status' = "ended" => delivered' = Expected
    BY <1>7 DEF QuietInv
  <2>1. o <= n /\ delivered = SubSeq(Expected, 1, o)
    BY DEF IInv, QuietInv, o, n
  <2> DEFINE m == Min({o + size, n})
  <2>2. m = IF o + size <= n THEN o + size ELSE n
    BY <1>1, <1>2 DEF Min
  <2>3. page = SubSeq(Expected, o + 1, m)
    BY <1>2 DEF Page, page
  <2> HIDE DEF m
  <2>4. 1 \in 1..Len(Expected) + 1 /\ o \in 0..Len(Expected) /\ m \in o..Len(Expected)
    BY <1>1, <1>2, <2>1, <2>2
  <2>5. SubSeq(Expected, 1, o) \o SubSeq(Expected, o + 1, m) = SubSeq(Expected, 1, m)
    <3>1. 1 - 1 = 0
      OBVIOUS
    <3>2. QED
      BY <1>2, <2>4, <3>1, ConcatAdjacentSubSeq
  <2>6. delivered' = SubSeq(Expected, 1, m) /\ IsPrefix(delivered', Expected)
    <3>1. m \in 0..Len(Expected)
      BY <1>1, <1>2, <2>2
    <3>2. QED
      BY <1>2, <1>5, <2>1, <2>3, <2>5, <3>1, FirstArePrefix
  <2>7. CASE status' = "walking"
    <3>1. NextOffset' = o + size /\ o + size <= n
      BY <1>6, <2>7
    <3>2. m = NextOffset' /\ NextOffset' <= Cardinality(table')
      BY <2>2, <3>1 DEF n
    <3>3. QED
      BY <2>6, <2>7, <3>2
  <2>8. CASE status' = "ended"
    <3>1. m = Len(Expected)
      BY <1>1, <1>2, <1>6, <2>2, <2>8
    <3>2. SubSeq(Expected, 1, Len(Expected)) = Expected
      BY <1>2, SubSeqFull
    <3>3. QED
      BY <2>6, <2>8, <3>1, <3>2
  <2>9. QED
    BY <1>6, <2>7, <2>8
<1>12. InsertInv'
  <2> SUFFICES ASSUME changes'.deleted = 0
               PROVE  /\ status' = "walking" =>
                            \A r \in constant : Place(table, AskedOrder, r) <= NextOffset' =>
                                r \in ToSet(delivered')
                      /\ status' = "ended" => constant \subseteq ToSet(delivered')
    BY <1>7 DEF InsertInv
  <2>1. ASSUME NEW r \in constant, Place(table, AskedOrder, r) <= o + size
        PROVE  r \in ToSet(delivered')
    <3>1. r \in table /\ Place(table, AskedOrder, r) \in 1..n
      BY <1>8 DEF IInv, TypeOK
    <3>2. CASE Place(table, AskedOrder, r) <= o
      BY <1>5, <3>2 DEF IInv, InsertInv, o
    <3>3. CASE ~(Place(table, AskedOrder, r) <= o)
      <4>1. Place(table, AskedOrder, r) \in o + 1 .. o + size
        BY <1>1, <1>2, <2>1, <3>1, <3>3
      <4>2. QED
        BY <1>4, <1>5, <3>1, <4>1
    <3>4. QED
      BY <3>2, <3>3
  <2>2. CASE status' = "walking"
    BY <1>6, <2>1, <2>2
  <2>3. CASE status' = "ended"
    <3>1. o + size > n
      BY <1>6, <2>3
    <3>2. \A r \in constant : Place(table, AskedOrder, r) <= o + size
      <4> SUFFICES ASSUME NEW r \in constant PROVE Place(table, AskedOrder, r) <= o + size
        OBVIOUS
      <4>1. Place(table, AskedOrder, r) \in 1..n
        BY <1>8 DEF IInv, TypeOK
      <4>2. QED
        BY <1>1, <1>2, <3>1, <4>1
    <3>3. QED
      BY <2>1, <2>3, <3>2
  <2>4. QED
    BY <1>6, <2>2, <2>3
<1>13. DeleteInv'
  <2> SUFFICES ASSUME changes'.inserted = 0
               PROVE  /\ Unique(delivered')
                      /\ status' = "walking" =>
                            \A r \in ToSet(delivered') \cap table :
                                Place(table, AskedOrder, r) <= NextOffset'
    BY <1>7 DEF DeleteInv
  <2>1. /\ Unique(delivered)
        /\ \A r \in ToSet(delivered) \cap table : Place(table, AskedOrder, r) <= o
    BY DEF IInv, DeleteInv, o
  <2>2. ToSet(delivered) \cap ToSet(page) = {}
    <3> SUFFICES ASSUME NEW r \in ToSet(delivered), r \in ToSet(page) PROVE FALSE
      OBVIOUS
    <3>1. r \in table /\ Place(table, AskedOrder, r) \in o + 1 .. o + size
      BY <1>4
    <3>2. Place(table, AskedOrder, r) <= o
      BY <2>1, <3>1
    <3>3. QED
      BY <1>1, <3>1, <3>2
  <2>3. Unique(delivered')
    BY <1>1, <1>3, <1>4, <1>5, <2>1, <2>2, ConcatUnique
  <2>4. ASSUME NEW r \in ToSet(delivered') \cap table
        PROVE  Place(table, AskedOrder, r) <= o + size
    <3>1. Place(table, AskedOrder, r) \in Nat
      BY <1>8
    <3>2. CASE r \in ToSet(delivered)
      <4>1. Place(table, AskedOrder, r) <= o
        BY <2>1, <2>4, <3>2
      <4>2. QED
        BY <1>1, <3>1, <4>1
    <3>3. CASE r \in ToSet(page)
      <4>1. Place(table, AskedOrder, r) \in o + 1 .. o + size
        BY <1>4, <3>3
      <4>2. QED
        BY <1>1, <4>1
    <3>4. QED
      BY <1>5, <2>4, <3>2, <3>3
  <2>5. QED
    BY <1>6, <2>3, <2>4
<1>14. QED
  BY <1>6, <1>9, <1>10, <1>11, <1>12, <1>13 DEF IInv

LEMMA StepIInv == IInv /\ [Next]_vars => IInv'
<1> SUFFICES ASSUME IInv, [Next]_vars PROVE IInv'
  OBVIOUS
<1>1. /\ TypeOK /\ TokenInv /\ WalkInv /\ QuietInv /\ InsertInv /\ DeleteInv
      /\ WalkIsShort /\ OnlyTwoOrdersFail
  BY DEF IInv
<1>2. ASSUME NEW size \in PageSizes, QueryPage(size) PROVE IInv'
  <2>1. /\ status = "walking" /\ pages < MaxPages /\ pages' = pages + 1
        /\ size \in Nat
        /\ UNCHANGED <<table, query, constant, changes>>
    BY <1>1, <1>2, PageStep
  <2>2. CASE PageRead(size)
    BY <2>1, <2>2, PageReadIInv
  <2>3. CASE /\ status' = "rejected" \/ status' = "failed"
             /\ UNCHANGED <<next, delivered>>
             /\ status' = "failed" => /\ query.orderBy # NoOrder
                                      /\ query.own # << >> \/ query.follows = "token"
    <3>1. pages' \in 0..MaxPages /\ pages' <= Cardinality(Rows) + 1
      BY <1>1, <2>1, PagesAssumption, TableFacts DEF TypeOK, WalkInv
    <3>2. AskedOrder' = AskedOrder /\ Expected' = Expected
      BY <2>1 DEF AskedOrder, Expected
    <3>3. TypeOK' /\ TokenInv' /\ WalkInv'
      BY <1>1, <2>1, <2>3, <3>1 DEF TypeOK, TokenInv, WalkInv
    <3>4. QuietInv' /\ InsertInv' /\ DeleteInv'
      BY <1>1, <2>1, <2>3, <3>2 DEF QuietInv, InsertInv, DeleteInv
    <3>5. WalkIsShort' /\ OnlyTwoOrdersFail'
      BY <2>1, <2>3, <3>1 DEF WalkIsShort, OnlyTwoOrdersFail
    <3>6. QED
      BY <3>3, <3>4, <3>5 DEF IInv
  <2>4. QED
    BY <1>1, <1>2, <2>2, <2>3, PageStep
<1>3. ASSUME NEW r \in Rows, Insert(r) PROVE IInv'
  <2>1. /\ status = "walking" /\ r \notin table /\ table' = table \cup {r}
        /\ changes' = [changes EXCEPT !.inserted = @ + 1]
        /\ UNCHANGED <<query, next, status, delivered, pages, constant>>
    BY <1>3 DEF Insert
  <2>2. /\ changes' \in [inserted : Nat, deleted : Nat]
        /\ changes'.inserted # 0 /\ changes'.deleted = changes.deleted
    BY <1>1, <2>1 DEF TypeOK
  <2>3. AskedOrder' = AskedOrder /\ NextOffset' = NextOffset
    BY <2>1 DEF AskedOrder, NextOffset
  <2>4. TypeOK' /\ TokenInv' /\ WalkInv' /\ WalkIsShort' /\ OnlyTwoOrdersFail'
    BY <1>1, <1>3, <2>1, <2>2, <2>3
       DEF TypeOK, TokenInv, WalkInv, WalkIsShort, OnlyTwoOrdersFail
  <2>5. QuietInv' /\ DeleteInv'
    BY <2>2 DEF QuietInv, DeleteInv
  <2>6. ASSUME NEW q \in constant, changes.deleted = 0,
               Place(table', AskedOrder, q) <= NextOffset
        PROVE  q \in ToSet(delivered)
    <3>1. Place(table, AskedOrder, q) <= Place(table', AskedOrder, q)
      <4>1. table' \in SUBSET Nat /\ IsFiniteSet(table') /\ table \in SUBSET table'
        BY <1>1, <1>3, <2>1, TableFacts, FS_AddElement, RowsAssumption
      <4>2. q \in table
        BY <1>1 DEF TypeOK
      <4>3. QED
        BY <4>1, <4>2, PlaceMonotone
    <3>2. /\ Place(table, AskedOrder, q) \in Nat /\ Place(table', AskedOrder, q) \in Nat
      <4>1. q \in table /\ q \in table'
        BY <1>1, <2>1 DEF TypeOK
      <4>2. table' \in SUBSET Nat /\ IsFiniteSet(table')
        BY <1>1, <1>3, <2>1, TableFacts, FS_AddElement, RowsAssumption
      <4>3. QED
        BY <1>1, <4>1, <4>2, TableFacts, PlaceType
    <3>3. Place(table, AskedOrder, q) <= NextOffset
      BY <1>1, <2>1, <2>6, <3>1, <3>2 DEF WalkInv
    <3>4. QED
      BY <1>1, <2>1, <2>6, <3>3 DEF InsertInv
  <2>7. InsertInv'
    BY <2>1, <2>2, <2>3, <2>6 DEF InsertInv
  <2>8. QED
    BY <2>4, <2>5, <2>7 DEF IInv
<1>4. ASSUME NEW r \in Rows, Delete(r) PROVE IInv'
  <2>1. /\ status = "walking" /\ table' = table \ {r} /\ constant' = constant \ {r}
        /\ changes' = [changes EXCEPT !.deleted = @ + 1]
        /\ UNCHANGED <<query, next, status, delivered, pages>>
    BY <1>4 DEF Delete
  <2>2. /\ changes' \in [inserted : Nat, deleted : Nat]
        /\ changes'.deleted # 0 /\ changes'.inserted = changes.inserted
    BY <1>1, <2>1 DEF TypeOK
  <2>3. AskedOrder' = AskedOrder /\ NextOffset' = NextOffset
    BY <2>1 DEF AskedOrder, NextOffset
  <2>4. TypeOK' /\ TokenInv' /\ WalkInv' /\ WalkIsShort' /\ OnlyTwoOrdersFail'
    BY <1>1, <2>1, <2>2, <2>3
       DEF TypeOK, TokenInv, WalkInv, WalkIsShort, OnlyTwoOrdersFail
  <2>5. QuietInv' /\ InsertInv'
    BY <2>1, <2>2 DEF QuietInv, InsertInv
  <2>6. ASSUME NEW q \in ToSet(delivered) \cap table', changes.inserted = 0
        PROVE  Place(table', AskedOrder, q) <= NextOffset
    <3>1. q \in table /\ table' \in SUBSET table
      BY <2>1
    <3>2. /\ table \in SUBSET Nat /\ IsFiniteSet(table) /\ table' \in SUBSET Nat
          /\ IsFiniteSet(table')
      BY <1>1, <3>1, TableFacts, FS_Subset
    <3>3. /\ Place(table', AskedOrder, q) <= Place(table, AskedOrder, q)
          /\ Place(table, AskedOrder, q) \in Nat /\ Place(table', AskedOrder, q) \in Nat
      BY <3>1, <3>2, PlaceMonotone, PlaceType
    <3>4. Place(table, AskedOrder, q) <= NextOffset
      BY <1>1, <2>1, <2>6, <3>1 DEF DeleteInv
    <3>5. QED
      BY <1>1, <2>1, <3>3, <3>4 DEF WalkInv
  <2>7. DeleteInv'
    BY <1>1, <2>1, <2>2, <2>3, <2>6 DEF DeleteInv
  <2>8. QED
    BY <2>4, <2>5, <2>7 DEF IInv
<1>5. ASSUME UNCHANGED vars PROVE IInv'
  <2>1. AskedOrder' = AskedOrder /\ Expected' = Expected /\ NextOffset' = NextOffset
    BY <1>5 DEF vars, AskedOrder, Expected, NextOffset
  <2>2. QED
    BY <1>1, <1>5, <2>1
       DEF vars, IInv, TypeOK, TokenInv, WalkInv, QuietInv, InsertInv, DeleteInv,
           WalkIsShort, OnlyTwoOrdersFail
<1>6. QED
  BY <1>2, <1>3, <1>4, <1>5 DEF Next, Ended

\* The inductive invariant of a walk: what has been delivered, and where the
\* next page begins, for every table, statement and page size.
THEOREM InductiveInvariant == Spec => []IInv
BY InitIInv, StepIInv, PTL DEF Spec

\* Every variable keeps its type, and a walk that has ended has no token left.
THEOREM TypeCorrect == Spec => []TypeOK
<1>1. IInv => TypeOK
  BY DEF IInv
<1>2. QED
  BY <1>1, InductiveInvariant, PTL

\* Over a table nobody changes, the pages put together are the result of the
\* statement, for every table and every sequence of page sizes.
THEOREM QuietWalks == Spec => []QuietWalkIsExact
<1>1. IInv => QuietWalkIsExact
  BY DEF IInv, QuietInv, QuietWalkIsExact
<1>2. QED
  BY <1>1, InductiveInvariant, PTL

\* Inserts hide no row: without deletes, a walk that ends has delivered every
\* row that was there all along.
THEOREM InsertsHideNothing == Spec => []InsertsSkipNothing
<1>1. IInv => InsertsSkipNothing
  BY DEF IInv, InsertInv, InsertsSkipNothing
<1>2. QED
  BY <1>1, InductiveInvariant, PTL

\* Deletes double no row: without inserts, nothing is delivered twice.
THEOREM DeletesDoubleNothing == Spec => []DeletesRepeatNothing
<1>1. IInv => DeletesRepeatNothing
  BY DEF IInv, DeleteInv, DeletesRepeatNothing, Unique
<1>2. QED
  BY <1>1, InductiveInvariant, PTL

\* A walk asks for one page more than there may be rows, at most, whatever is
\* inserted or deleted under it.
THEOREM WalksAreShort == Spec => []WalkIsShort
<1>1. IInv => WalkIsShort
  BY DEF IInv
<1>2. QED
  BY <1>1, InductiveInvariant, PTL

\* Whoever leaves out order_by, or keeps to page numbers and gives an order in
\* one place only, is never refused by the upstream for two orders.
THEOREM OneOrderIsServed == Spec => []OnlyTwoOrdersFail
<1>1. IInv => OnlyTwoOrdersFail
  BY DEF IInv
<1>2. QED
  BY <1>1, InductiveInvariant, PTL
----------------------------------------------------------------------------
\* A client that passed order_by and goes on by token: whether it passes it
\* again with the token or not, there is one page for it.
OrderedTokenWalk ==
    query.orderBy # NoOrder /\ query.follows = "token" =>
        /\ pages > 1 => status \in {"rejected", "failed"}
        /\ status = "walking" /\ pages = 1 => next.token # << >>

\* No second page is ever read with a token that holds an order: the token is
\* refused whatever statement, table and page size it comes with.
OrderedTokensFetchNothing ==
    query.orderBy # NoOrder /\ query.follows = "token" /\ pages > 1 =>
        status \in {"rejected", "failed"}

\* The token of query_page, as query_page itself reads it, puts its order
\* behind a statement that has one: the general form of what the run SqlToken
\* finds on one table.
THEOREM OrderedTokensAreUseless == Spec => []OrderedTokensFetchNothing
<1>1. Init => OrderedTokenWalk
  BY DEF Init, OrderedTokenWalk
<1>2. IInv /\ OrderedTokenWalk /\ [Next]_vars => OrderedTokenWalk'
  <2> SUFFICES ASSUME IInv, OrderedTokenWalk, [Next]_vars PROVE OrderedTokenWalk'
    OBVIOUS
  <2>1. pages \in Nat /\ TypeOK /\ TokenInv /\ WalkInv
    BY PagesAssumption DEF IInv, TypeOK
  <2>2. ASSUME NEW size \in PageSizes, QueryPage(size) PROVE OrderedTokenWalk'
    <3>1. /\ status = "walking" /\ pages' = pages + 1 /\ query' = query
          /\ status' \in {"rejected", "failed"} \/ PageRead(size)
      BY <2>1, <2>2, PageStep
    <3>2. CASE status' \in {"rejected", "failed"}
      BY <3>2 DEF OrderedTokenWalk
    <3>3. CASE PageRead(size)
      <4> SUFFICES ASSUME query.orderBy # NoOrder, query.follows = "token"
                   PROVE  /\ ~(pages + 1 > 1)
                          /\ status' = "walking" => next'.token # << >>
        BY <3>1 DEF OrderedTokenWalk
      <4>1. next.token = << >> /\ (status' = "walking" => next'.token # << >>)
        BY <3>3 DEF PageRead
      <4>2. pages = 0
        BY <2>1, <3>1, <4>1 DEF OrderedTokenWalk
      <4>3. QED
        BY <4>1, <4>2
    <3>4. QED
      BY <3>1, <3>2, <3>3
  <2>3. ASSUME NEW r \in Rows, Insert(r) \/ Delete(r) PROVE OrderedTokenWalk'
    BY <2>3 DEF Insert, Delete, OrderedTokenWalk
  <2>4. ASSUME UNCHANGED vars PROVE OrderedTokenWalk'
    BY <2>4 DEF vars, OrderedTokenWalk
  <2>5. QED
    BY <2>2, <2>3, <2>4 DEF Next, Ended
<1>3. OrderedTokenWalk => OrderedTokensFetchNothing
  BY DEF OrderedTokenWalk, OrderedTokensFetchNothing
<1>4. QED
  BY <1>1, <1>2, <1>3, InitIInv, StepIInv, PTL DEF Spec
=============================================================================
