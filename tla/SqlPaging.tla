----------------------------- MODULE SqlPaging -----------------------------
(***************************************************************************)
(* SQLAdapter.query_page (src/src/faircom_mcp/api/sql.py): a client reads  *)
(* the result of one statement page by page, following the continuation    *)
(* tokens or the page numbers of the answers, while others insert rows     *)
(* into the table and delete from it.                                      *)
(*                                                                         *)
(* The upstream is external: it runs each page as a query of its own over  *)
(* the table as it is then, skipping skipRecords rows and returning        *)
(* maxRecords of them, and it rejects a statement with two ORDER BY        *)
(* clauses.  Of a statement only those clauses matter here, of a row only  *)
(* its place: rows are numbers, ascending in the order "1" that the        *)
(* adapter adds by itself, descending in any other.  The first column is a *)
(* key; over a column with ties the upstream need not order two pages      *)
(* alike.                                                                  *)
(***************************************************************************)
EXTENDS Naturals, Sequences, SequencesExt, FiniteSets

CONSTANTS
    Rows,        \* the rows that may be in the table
    PageSizes,   \* the page_size arguments a client may pass
    MaxChanges,  \* bound: rows inserted and deleted during the walk
    MaxPages     \* bound: pages the client asks for, more than a walk takes

ASSUME RowsAssumption == Rows \subseteq Nat /\ IsFiniteSet(Rows)
ASSUME SizesAssumption == PageSizes \subseteq Nat /\ MaxChanges \in Nat
ASSUME PagesAssumption ==
    MaxPages \in Nat /\ Cardinality(Rows) + MaxChanges + 1 < MaxPages

VARIABLES
    table,       \* the upstream's rows
    query,       \* the client's statement, order_by, and how it goes on
    next,        \* what the last answer said comes next
    status,      \* how far the client's walk has come
    delivered,   \* the rows it has been given, in order
    pages,       \* the pages it has asked for
    constant,    \* history: the rows that were in the table all along
    changes      \* history: the changes made during the walk

vars == <<table, query, next, status, delivered, pages, constant, changes>>

NoOrder == "none"
Orders == {NoOrder, "x"}

\* own: the ORDER BY clauses of the client's statement.  follows: whether it
\* passes the token on or asks for next_page.  repeats: whether it passes
\* order_by again with a token.  size: what it keeps to when it asks by page.
Queries == [own : {<< >>, <<"x">>}, orderBy : Orders, size : PageSizes,
            follows : {"token", "page"}, repeats : BOOLEAN]

NothingNext == [token |-> << >>, page |-> 0]
----------------------------------------------------------------------------
\* Mutant of NormalizeStatement: an ORDER BY is added without looking for one.
NormalizeBlindly(clauses, orderBy) ==
    Append(clauses, IF orderBy = NoOrder THEN "1" ELSE orderBy)

\* _normalize_statement: an ORDER BY 1 where there is no order at all, and the
\* given order behind whatever the statement holds.
NormalizeStatement(clauses, orderBy) ==
    IF orderBy = NoOrder
    THEN IF clauses = << >> THEN <<"1">> ELSE clauses
    ELSE Append(clauses, orderBy)

\* Mutant of EncodeContinuationToken: the token names the page just read.
EncodeThisPage(offset, size, orderBy) == <<[offset |-> offset, orderBy |-> orderBy]>>

\* _encode_continuation_token, with the offset the caller computes.
EncodeContinuationToken(offset, size, orderBy) ==
    <<[offset |-> offset + size, orderBy |-> orderBy]>>

\* The statement and offset of a page, from the arguments and the token.
Statement(clauses, orderBy, token) ==
    LET normalized == NormalizeStatement(clauses, orderBy)
    IN  IF token # << >> /\ token[1].orderBy # NoOrder
        THEN NormalizeStatement(normalized, token[1].orderBy)
        ELSE normalized

\* Mutant of Offset: pages are counted from zero.
OffsetFromZero(page, size, token) ==
    IF token # << >> THEN token[1].offset ELSE page * size

Offset(page, size, token) ==
    IF token # << >> THEN token[1].offset ELSE (page - 1) * size

\* Mutant of HasMore: only the upstream's word counts.
HasMoreSaid(more, count, size) == more

\* Mutant of HasMore: an empty page passes for a full one.
HasMoreBehindTheEnd(more, count, size) == more \/ count \in {0, size}

\* has_more: the upstream says so, or the page is full.
HasMore(more, count, size) == more \/ count = size

\* External: whether row q comes before row r in the statement's order.
Before(clauses, q, r) == IF clauses = <<"1">> THEN q < r ELSE q > r

\* External: the place of row r among the rows of S in the statement's order.
Place(S, clauses, r) == Cardinality({q \in S : q = r \/ Before(clauses, q, r)})

\* External: the rows of S in the statement's order.
InOrder(S, clauses) ==
    [i \in 1..Cardinality(S) |-> CHOOSE r \in S : Place(S, clauses, r) = i]
----------------------------------------------------------------------------
Init ==
    /\ table \in SUBSET Rows
    /\ query \in Queries
    /\ next = [token |-> << >>, page |-> 1]
    /\ status = "walking"
    /\ delivered = << >>
    /\ pages = 0
    /\ constant = table
    /\ changes = [inserted |-> 0, deleted |-> 0]

\* Mutant of PaginationMetadata: a token comes with the last page, too.
MetadataWithLastToken(page, size, offset, orderBy, hasMore) ==
    next' = [token |-> EncodeContinuationToken(offset, size, orderBy),
             page |-> IF hasMore THEN page + 1 ELSE 0]

\* Mutant of PaginationMetadata: next_page is the page just read.
MetadataWithThisPage(page, size, offset, orderBy, hasMore) ==
    next' = IF hasMore
            THEN [token |-> EncodeContinuationToken(offset, size, orderBy),
                  page |-> page]
            ELSE NothingNext

\* _with_pagination_metadata: what the answer says comes next.  next_page goes
\* by the page argument, also when a token was used.
PaginationMetadata(page, size, offset, orderBy, hasMore) ==
    next' = IF hasMore
            THEN [token |-> EncodeContinuationToken(offset, size, orderBy),
                  page |-> page + 1]
            ELSE NothingNext

\* One query_page call.  The client that follows tokens leaves page alone; the
\* one that follows page numbers keeps to one page_size.
QueryPage(size) ==
    /\ status = "walking" /\ pages < MaxPages
    /\ pages' = pages + 1
    /\ query.follows = "page" => size = query.size
    /\ LET token == IF query.follows = "token" THEN next.token ELSE << >>
           page == IF query.follows = "page" THEN next.page ELSE 1
           orderBy == IF token = << >> \/ query.repeats THEN query.orderBy ELSE NoOrder
           clauses == Statement(query.own, orderBy, token)
           offset == Offset(page, size, token)
           rows == InOrder(table, clauses)
           found == SubSeq(rows, offset + 1, Min({offset + size, Len(rows)}))
       IN  \/ /\ page < 1 \/ size < 1
              /\ status' = "rejected"
              /\ UNCHANGED <<next, delivered>>
           \/ /\ page >= 1 /\ size >= 1 /\ Len(clauses) > 1
              /\ status' = "failed"
              /\ UNCHANGED <<next, delivered>>
           \/ /\ page >= 1 /\ size >= 1 /\ Len(clauses) = 1
              /\ \E more \in {FALSE, offset + size < Len(rows)} :
                    LET hasMore == HasMore(more, Len(found), size)
                    IN  /\ PaginationMetadata(page, size, offset, orderBy, hasMore)
                        /\ status' = IF hasMore THEN "walking" ELSE "ended"
              /\ delivered' = delivered \o found
    /\ UNCHANGED <<table, query, constant, changes>>

\* External: other clients of the database; the pages are read uncommitted.
Insert(r) ==
    /\ status = "walking" /\ r \notin table
    /\ changes.inserted + changes.deleted < MaxChanges
    /\ table' = table \cup {r}
    /\ changes' = [changes EXCEPT !.inserted = @ + 1]
    /\ UNCHANGED <<query, next, status, delivered, pages, constant>>

Delete(r) ==
    /\ status = "walking" /\ r \in table
    /\ changes.inserted + changes.deleted < MaxChanges
    /\ table' = table \ {r}
    /\ constant' = constant \ {r}
    /\ changes' = [changes EXCEPT !.deleted = @ + 1]
    /\ UNCHANGED <<query, next, status, delivered, pages>>
----------------------------------------------------------------------------
\* The walk is over, or it has come to the bound, which no walk does (WalkIsShort).
Ended ==
    /\ status # "walking" \/ pages = MaxPages
    /\ UNCHANGED vars

Next ==
    \/ \E size \in PageSizes : QueryPage(size)
    \/ \E r \in Rows : Insert(r) \/ Delete(r)
    \/ Ended

Spec == Init /\ [][Next]_vars

\* The client goes on while it is told that there is more.
FairSpec == Spec /\ WF_vars(\E size \in PageSizes : QueryPage(size))
----------------------------------------------------------------------------
TypeOK ==
    /\ table \subseteq Rows /\ constant \subseteq table
    /\ query \in Queries
    /\ next.page \in Nat
    /\ next.token # << >> => next.token[1].offset \in Nat
    /\ status \in {"walking", "ended", "rejected", "failed"}
    /\ status = "ended" => next = NothingNext
    /\ delivered \in Seq(Rows) /\ pages \in 0..MaxPages
    /\ changes \in [inserted : Nat, deleted : Nat]

\* What the client expects of the walk: the rows in the order it asked for.
AskedOrder ==
    IF query.own = << >> /\ query.orderBy = NoOrder THEN <<"1">> ELSE <<"x">>

Expected == InOrder(table, AskedOrder)

\* Over a table nobody changes, the pages put together are the result of the
\* statement: no row is missing at a page boundary, doubled, or out of place,
\* also when page_size changes between the pages, and when the last page is a
\* full one.
QuietWalkIsExact ==
    changes.inserted = 0 /\ changes.deleted = 0 =>
        /\ IsPrefix(delivered, Expected)
        /\ status = "ended" => delivered = Expected

\* Inserts may push a row into the next page and have it delivered twice, but
\* they never hide one: a walk that ends has delivered every row that was
\* there all along, as long as nothing was deleted.
InsertsSkipNothing ==
    status = "ended" /\ changes.deleted = 0 => constant \subseteq ToSet(delivered)

\* Deletes may hide a row, but no row is delivered twice without an insert.
DeletesRepeatNothing ==
    changes.inserted = 0 =>
        \A i, j \in DOMAIN delivered : delivered[i] = delivered[j] => i = j

\* A walk never asks for a page it has read: it takes at most one page more than
\* there are rows, whatever is inserted meanwhile and whatever the page sizes.
WalkIsShort == pages <= Cardinality(Rows) + 1

\* The upstream refuses a page only to a client that passed order_by, and then
\* only with an ORDER BY in the statement, too, or with a token that holds one.
OnlyTwoOrdersFail ==
    status = "failed" =>
        /\ query.orderBy # NoOrder
        /\ query.own # << >> \/ query.follows = "token"

\* The walk comes to an end once the table stops growing, also when the last
\* page is a full one and the server cannot tell.
WalkEnds == <>(status # "walking")

\* The hint that comes with every token: "Pass this token as
\* continuation_token to fetch the next page."  A client that got a token and
\* passes it is not refused by the upstream.
TokenFetchesNextPage == status = "failed" => next.token = << >>
=============================================================================
