-------------------------------- MODULE Listing -------------------------------
(***************************************************************************)
(* discover() of a REST source or an ODBC source: it asks for one page     *)
(* after another of a list of records that may change meanwhile, and keeps *)
(* no more than max_records of them.                                       *)
(*                                                                         *)
(* A record is its key, and the source lists its records by key.           *)
(***************************************************************************)
EXTENDS Naturals, FiniteSets, FiniteSetsExt

CONSTANTS
  Keys,        \* keys of records; 0 is no key, the cursor of a first page
  Large,       \* rows above max_row_bytes: an ODBC source leaves them out
  PageSize,    \* page_size, or batch_size
  MaxRecords,  \* max_records; an ODBC source has no such limit
  MaxPages     \* bound: pages of a listing

ASSUME ListingAssumption ==
  /\ Keys \subseteq Nat \ {0} /\ IsFiniteSet(Keys)
  /\ PageSize \in Nat \ {0} /\ MaxRecords \in Nat \ {0} /\ MaxPages \in Nat

VARIABLES
  style,    \* pagination_style, or "odbc"
  served,   \* records the server puts on a page at most; an ODBC source has a limit of its own
  remote,   \* records of the source
  listing,  \* the listing in progress
  known,    \* auxiliary: records that have been in the source all the time since it began
  moved     \* auxiliary: a record went, or came before the last, since it began

listVars == <<style, served, remote, listing, known, moved>>

Styles == {"none", "page", "offset", "cursor", "odbc"}

\* found, count: the records listed so far, and how many with repetitions; at:
\* the outcome of the last attempt at the page that is asked for, an end, or "idle".
List == [at : {"idle", "first", "limited", "expired", "done", "failed"}, found : SUBSET Keys,
         count : Nat, page : Nat \ {0}, offset : Nat, cursor : Keys \cup {0}]
NoList == [at |-> "idle", found |-> {}, count |-> 0, page |-> 1, offset |-> 0, cursor |-> 0]

Asking == listing.at \in {"first", "limited", "expired"}

ListInit ==
  /\ style \in Styles
  /\ served \in 1 .. PageSize
  /\ remote \in SUBSET Keys
  /\ listing = NoList
  /\ known = {}
  /\ moved = FALSE

-------------------------------------------------------------------------------
(* The source.                                                               *)

Change(new, last) ==
  /\ remote' = new
  /\ known' = known \cap new
  /\ moved' = (moved \/ (Asking /\ ~last))
  /\ UNCHANGED <<style, served, listing>>

AddRecord(k) == k \notin remote /\ Change(remote \cup {k}, \A j \in remote : j < k)

RemoveRecord(k) == k \in remote /\ Change(remote \ {k}, FALSE)

\* Up to "size" records after the first "skipped" ones.
Slice(records, skipped, size) ==
  {k \in records : Cardinality({j \in records : j < k}) \in skipped .. skipped + size - 1}

\* The records on the page that is asked for.
Items ==
  CASE style = "none"   -> remote
    [] style = "page"   -> Slice(remote, (listing.page - 1) * served, served)
    [] style = "offset" -> Slice(remote, listing.offset, served)
    [] style = "cursor" -> Slice({k \in remote : k > listing.cursor}, 0, served)
    [] style = "odbc"   -> Slice(remote, listing.offset, PageSize)

-------------------------------------------------------------------------------
(* discover and _make_request                                                *)

BeginListing ==
  /\ listing.at \in {"idle", "done", "failed"}
  /\ listing' = [NoList EXCEPT !.at = "first"]
  /\ known' = remote
  /\ moved' = FALSE
  /\ UNCHANGED <<style, served, remote>>

ListStep(list) == listing' = list /\ UNCHANGED <<style, served, remote, known, moved>>

\* A 429 after the retries is waited for, and an expired OAuth2 token is
\* renewed, once each, and in this order.
RateLimited == style # "odbc" /\ listing.at = "first" /\ ListStep([listing EXCEPT !.at = "limited"])

TokenExpired ==
  style # "odbc" /\ listing.at \in {"first", "limited"} /\ ListStep([listing EXCEPT !.at = "expired"])

\* The attempts are exhausted, or the answer is an error or too large.
ListingFails == Asking /\ ListStep([NoList EXCEPT !.at = "failed"])

\* The loop ends on a short page (cursor: on the server's word) or at the cap.
Capped == style # "odbc" /\ listing.count + Cardinality(Items) >= MaxRecords

Kept == IF style = "odbc" THEN Items \ Large ELSE Slice(Items, 0, MaxRecords - listing.count)

\* A server that has more to give gives a cursor; one that has not may too.
LastPage ==
  \/ style = "none"
  \/ style \in {"page", "offset", "odbc"} /\ Cardinality(Items) < PageSize
  \/ style = "cursor" /\ \A k \in remote : k > listing.cursor => k \in Items

Added(at) == [listing EXCEPT !.at = at, !.found = listing.found \cup Kept,
                             !.count = listing.count + Cardinality(Kept)]

ListingEnds == Asking /\ (Capped \/ LastPage) /\ ListStep(Added("done"))

\* Mutant: the offset grows by a page, and the page number by two.
PageSkipped ==
  /\ Asking /\ listing.page < MaxPages /\ ~Capped /\ (~LastPage \/ style = "cursor")
  /\ ListStep([Added("first") EXCEPT
       !.page   = listing.page + 2,
       !.offset = listing.offset + PageSize,
       !.cursor = IF style = "cursor" /\ Items # {} THEN Max(Items) ELSE listing.cursor])

NextPage ==
  /\ Asking /\ listing.page < MaxPages /\ ~Capped /\ (~LastPage \/ style = "cursor")
  /\ ListStep([Added("first") EXCEPT
       !.page   = listing.page + 1,
       !.offset = listing.offset + IF style = "odbc" THEN PageSize ELSE Cardinality(Items),
       !.cursor = IF style = "cursor" /\ Items # {} THEN Max(Items) ELSE listing.cursor])

ListNext ==
  \/ \E k \in Keys : AddRecord(k) \/ RemoveRecord(k)
  \/ BeginListing \/ RateLimited \/ TokenExpired \/ ListingFails \/ ListingEnds \/ NextPage

-------------------------------------------------------------------------------
ListTypeOK ==
  /\ style \in Styles
  /\ served \in 1 .. PageSize
  /\ remote \in SUBSET Keys
  /\ listing \in List
  /\ known \in SUBSET Keys
  /\ moved \in BOOLEAN

\* Positions keep their meaning from page to page, and pages are as long as asked.
InStep ==
  style \in {"page", "offset", "odbc"} => ~moved /\ (style = "odbc" \/ served = PageSize)

\* A listing that ends well has each record once, never more than it may, and
\* every record that was there all the time; if it is full, those that come
\* after the ones it has are missing.  Provided the positions did not shift and
\* the server's pages are not shorter than asked, which a cursor does not need.
ListingComplete ==
  listing.at = "done" /\ InStep =>
    /\ listing.count = Cardinality(listing.found)
    /\ style # "odbc" => listing.count <= MaxRecords
    /\ \A k \in known \ listing.found :
         \/ style = "odbc" /\ k \in Large
         \/ /\ style # "odbc" /\ listing.count = MaxRecords
            /\ \A j \in listing.found : j < k
===============================================================================
