---------------------------- MODULE InvoiceQuery ----------------------------
(***************************************************************************)
(* Paging through invoice metadata with Manager.QueryInvoices              *)
(* (pkg/ksef/invoice/query.go) while new invoices keep arriving.           *)
(*                                                                         *)
(* QueryInvoices asks for one page and computes the offset of the next.    *)
(* The caller iterates as the documentation of QueryResult says: go on at  *)
(* NextPageOffset while HasMore, and narrow the date range and start again *)
(* at 0 when IsTruncated.  The request only reads, so the HTTP client may  *)
(* repeat it; it fails at any time, and the caller asks again or gives up. *)
(*                                                                         *)
(* How the server counts pageOffset is a parameter: in records, as         *)
(* NextPageOffset does, or in pages, as InvoiceQueryFilters.PageOffset is  *)
(* documented.                                                             *)
(***************************************************************************)
EXTENDS Integers, Sequences, FiniteSets, SequencesExt

CONSTANTS
    Records,     \* metadata records: 1..n
    PageSize,    \* filters.PageSize, or the server's default
    Cap,         \* records the server pages through: 10,000
    OffsetUnit   \* "record" or "page"

ASSUME QueryConstants ==
    /\ IsFiniteSet(Records) /\ Records = 1..Cardinality(Records)
    /\ PageSize \in Nat \ {0}
    /\ Cap \in Nat /\ Cap > 1
    /\ OffsetUnit \in {"record", "page"}

VARIABLES
    store,       \* server: the records, in the sort order of the query
    pc,          \* what the caller does next
    from,        \* filters.DateRange: first record it covers, or Nil
    pageOffset,  \* filters.PageOffset
    got,         \* records the caller has seen
    base,        \* history: records stored when the iteration began
    fetched,     \* history: records received, repeats included
    quiet        \* history: nothing arrived and nothing was narrowed

filters == <<from, pageOffset>>
history == <<base, fetched, quiet>>
vars    == <<store, pc, filters, got, history>>

-----------------------------------------------------------------------------
Nil == -1

TypeOK ==
    /\ store \in Seq(Records) /\ IsInjective(store)
    /\ pc \in {"query", "done", "failed"}
    /\ from \in Records \cup {Nil}
    /\ pageOffset \in 0..Cap
    /\ got \subseteq Records
    /\ base \subseteq Records
    /\ fetched \in Nat
    /\ quiet \in BOOLEAN

(* The caller begins with the first page of a range without bound.         *)
Init ==
    /\ \E n \in 0..Cardinality(Records) : store = [i \in 1..n |-> i]
    /\ pc = "query"
    /\ from = Nil
    /\ pageOffset = 0
    /\ got = {}
    /\ base = ToSet(store)
    /\ fetched = 0
    /\ quiet = TRUE

-----------------------------------------------------------------------------
(* The server's side of POST /invoices/query/metadata.                     *)

(* The records the date range covers: the bound itself is covered.         *)
Matches ==
    LET start == CHOOSE i \in DOMAIN store : store[i] = from
    IN  IF from = Nil THEN store ELSE SubSeq(store, start, Len(store))

(* The page a request with this pageOffset parameter is answered with.     *)
(* Nothing says whether a result that was cut off has more; the test       *)
(* (query_test.go:234-241) answers that it has not.                        *)
Response(param, more) ==
    LET first  == IF OffsetUnit = "page" THEN param * PageSize ELSE param
        last   == Min({first + PageSize, Cap, Len(Matches)})
        cutOff == Len(Matches) > Cap /\ last = Cap
    IN  [invoices    |-> SubSeq(Matches, first + 1, last),
         hasMore     |-> IF cutOff THEN more ELSE Len(Matches) > last,
         isTruncated |-> cutOff]

-----------------------------------------------------------------------------
(* QueryInvoices.                                                          *)

(* An offset that is not positive is left out; the server's default is 0.  *)
buildQueryPath(offset) == IF offset > 0 THEN offset ELSE 0

Result(resp, more, next) ==
    [invoices |-> resp.invoices, hasMore |-> more,
     isTruncated |-> resp.isTruncated, nextPageOffset |-> next]

(* Mutant: isTruncated is not carried over.                                *)
toQueryResult_TruncationLost(resp, offset) ==
    [Result(resp, resp.hasMore, offset + Len(resp.invoices))
        EXCEPT !.isTruncated = FALSE]

(* Mutant: the last record of a page is asked for again.                   *)
toQueryResult_Overlap(resp, offset) ==
    Result(resp, resp.hasMore, offset + Len(resp.invoices) - 1)

toQueryResult(resp, offset) ==
    Result(resp, resp.hasMore, offset + Len(resp.invoices))

QueryInvoices(more) ==
    toQueryResult(Response(buildQueryPath(pageOffset), more), pageOffset)

-----------------------------------------------------------------------------
(* The caller's loop.                                                      *)

Receive(r) ==
    /\ pc = "query"
    /\ got' = got \cup ToSet(r.invoices)
    /\ fetched' = fetched + Len(r.invoices)
    /\ UNCHANGED <<store, base>>

(* Nothing more, and nothing cut off.                                      *)
LastPage ==
    \E more \in BOOLEAN :
        LET r == QueryInvoices(more)
        IN  /\ Receive(r) /\ ~r.hasMore /\ ~r.isTruncated
            /\ pc' = "done"
            /\ UNCHANGED <<filters, quiet>>

NextPage ==
    \E more \in BOOLEAN :
        LET r == QueryInvoices(more)
        IN  /\ Receive(r) /\ r.hasMore /\ ~r.isTruncated
            /\ pageOffset' = r.nextPageOffset
            /\ UNCHANGED <<pc, from, quiet>>

(* Narrow the range to begin at the last record and reset PageOffset,      *)
(* whether or not the answer has more.                                     *)
NarrowRange ==
    \E more \in BOOLEAN :
        LET r == QueryInvoices(more)
        IN  /\ Receive(r) /\ r.isTruncated /\ r.invoices # <<>>
            /\ from' = Last(r.invoices)
            /\ pageOffset' = 0
            /\ quiet' = FALSE
            /\ UNCHANGED pc

(* The call returned an error: ask again later (a stutter) or give up.     *)
GiveUp ==
    /\ pc = "query" /\ pc' = "failed"
    /\ UNCHANGED <<store, filters, got, history>>

(* An invoice is stored, wherever its date puts it in the sort order.      *)
InvoiceArrives ==
    /\ pc = "query"
    /\ \E r \in Records \ ToSet(store), i \in 1..Len(store) + 1 :
          store' = InsertAt(store, i, r)
    /\ quiet' = FALSE
    /\ UNCHANGED <<pc, filters, got, base, fetched>>

Next == LastPage \/ NextPage \/ NarrowRange \/ GiveUp \/ InvoiceArrives

Spec == Init /\ [][Next]_vars

-----------------------------------------------------------------------------
(* Properties.                                                             *)

(* "Use HasMore and NextPageOffset to iterate through all result pages"    *)
(* (query.go:310-313): a finished iteration has seen every invoice that    *)
(* was stored when it began, although others arrived in between and moved  *)
(* them to later pages, and although the server cut the result off.        *)
NothingMissed == pc = "done" => base \subseteq got

(* Pages do not overlap unless invoices arrive or the range is narrowed:   *)
(* NextPageOffset is where the page ended (query.go:514).                  *)
PagesAreDisjoint == quiet => fetched = Cardinality(got)
=============================================================================
