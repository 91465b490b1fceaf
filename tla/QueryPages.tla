---------------------------- MODULE QueryPages ----------------------------
(***************************************************************************)
(* Pages and scrolls over the documents of a query (database/model/base.py,*)
(* get_many).  The documents are ordered by a field, ascending or          *)
(* descending, then by id; those without a value come last in either case, *)
(* which MongoDB does for descending order only: for ascending order the   *)
(* query is split in two and a page is taken from both.  A scroll keeps its*)
(* position in Redis between the requests of a client; documents come and  *)
(* go meanwhile.                                                           *)
(***************************************************************************)
EXTENDS Queries

CONSTANTS
  Docs,     \* ids
  MaxSize   \* max_page_size of the configuration

ASSUME QueryPagesAssumption == Docs \subseteq Nat /\ FieldKeys \subseteq Nat \ {0} /\ MaxSize \in Nat

VARIABLES
  key,         \* the field of each document, or 0 when it has none
  descending,  \* the order
  stored,      \* the documents that the query matches at present
  scrollState, \* GetManyScrollState: the position
  received,    \* history: what the client of the scroll has put together; kept while undisturbed
  undisturbed  \* history: no document came or went, and the scroll has not expired, since it began or was refreshed

queryVars == <<key, descending, stored, scrollState, received, undisturbed>>

-----------------------------------------------------------------------------
(* Order and pages.                                                        *)

\* order_by of MongoDB with the id that validate_order_by appends; no value is the least.
Precedes(x, y) == IF key[x] = key[y] THEN x < y
                ELSE IF descending THEN key[x] > key[y] ELSE key[x] < key[y]

Ordered(S) == SetToSortSeq(S, Precedes)

\* _get_queries_for_order_field
QuerySets ==
  IF descending THEN <<Ordered(stored)>>
  ELSE <<Ordered({d \in stored : key[d] # 0}), Ordered({d \in stored : key[d] = 0})>>

Lesser(x, y) == IF x < y THEN x ELSE y

\* What is left to read after a query set: from its beginning, or further on.
Advanced(page, found, count) ==
  IF found # <<>> THEN [page EXCEPT !.start = 0, !.size = @ - Len(found)]
  ELSE [page EXCEPT !.start = @ - Lesser(@, count)]

\* skip and limit
ReadFrom(set, page) == SubSeq(set, page.start + 1, Lesser(page.start + page.size, Len(set)))

\* _get_many_override_none_ordering
Page(start, size) ==
  FoldLeft(LAMBDA page, set :
             IF page.size = 0 THEN page
             ELSE LET found == ReadFrom(set, page)
                  IN  [Advanced(page, found, Len(set)) EXCEPT !.ret = page.ret \o found],
           [start |-> start, size |-> size, ret |-> <<>>], QuerySets).ret

\* validate_paging: a page that is too large is shortened, and so are those before it.
Bounds(page, page_size) ==
  LET size == Lesser(page_size, MaxSize) IN [start |-> page * size, size |-> size]

-----------------------------------------------------------------------------
(* Requests.                                                               *)

\* get_data_with_scroll_support: refresh_scroll brings everything once more.
Scroll(size, refresh) ==
  LET start == IF refresh THEN 0 ELSE scrollState
      wanted == IF refresh /\ scrollState > size THEN scrollState ELSE size
      data  == Page(start, wanted)
  IN  /\ scrollState' = start + Len(data)
      /\ undisturbed' = (undisturbed \/ refresh)
      /\ received' = IF refresh THEN data ELSE IF undisturbed THEN received \o data ELSE <<>>
      /\ UNCHANGED <<key, descending, stored>>

\* The client begins again without a scroll id.
NewScroll ==
  /\ scrollState' = 0 /\ received' = <<>> /\ undisturbed' = TRUE
  /\ UNCHANGED <<key, descending, stored>>

\* The state expires; the next request gets a new one and starts over.
ScrollExpires ==
  /\ scrollState > 0 /\ scrollState' = 0
  /\ undisturbed' = FALSE /\ received' = <<>>
  /\ UNCHANGED <<key, descending, stored>>

\* Another client adds, changes or removes a document.
Change(d) ==
  /\ stored' = IF d \in stored THEN stored \ {d} ELSE stored \cup {d}
  /\ undisturbed' = FALSE /\ received' = <<>>
  /\ UNCHANGED <<key, descending, scrollState>>

\* Bound: a scroll that documents leave behind it and come back after it ends here.
QueryNext ==
  \/ \E size \in 1..MaxSize, refresh \in BOOLEAN : scrollState <= Cardinality(Docs) /\ Scroll(size, refresh)
  \/ NewScroll \/ ScrollExpires
  \/ \E d \in Docs : Change(d)

QueryInit ==
  /\ key \in [Docs -> FieldKeys \cup {0}]
  /\ descending \in BOOLEAN
  /\ stored = Docs
  /\ scrollState = 0 /\ received = <<>> /\ undisturbed = TRUE

QueryTypeOK ==
  /\ key \in [Docs -> FieldKeys \cup {0}] /\ stored \subseteq Docs
  /\ scrollState \in 0..(Cardinality(Docs) + MaxSize) /\ received \in Seq(Docs)

\* The documents as the documentation of get_many orders them, those without a value last.
InOrder ==
  SetToSortSeq(stored, LAMBDA x, y :
    IF (key[x] = 0) # (key[y] = 0) THEN key[y] = 0 ELSE Precedes(x, y))

\* Wherever a page starts it is that piece of the order, and the pages of one size follow
\* each other: no document is lost or repeated between two pages, also where the two
\* queries meet.  And a scroll that nothing disturbs, as one that has just been refreshed,
\* has brought the beginning of the order, each document once.
PagesFollowOrder ==
  /\ \A start \in 0..Cardinality(stored), size \in 1..MaxSize :
       Page(start, size) = SubSeq(InOrder, start + 1, Lesser(start + size, Len(InOrder)))
  /\ \A page \in 0..Cardinality(stored), page_size \in 1..(MaxSize + 1) :
       LET at == Bounds(page, page_size)
       IN  at.size <= MaxSize /\ Bounds(page + 1, page_size).start = at.start + at.size
  /\ undisturbed => received = SubSeq(InOrder, 1, scrollState)
=============================================================================
