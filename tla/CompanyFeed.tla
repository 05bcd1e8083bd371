----------------------------- MODULE CompanyFeed -----------------------------
(***************************************************************************)
(* The company feed for the partner, page by page, while branches are      *)
(* mapped and unmapped and the catalog reads are switched off and on.      *)
(* Each page is one request: authentication and the connection, then one   *)
(* query for the mappings after the cursor.                                *)
(***************************************************************************)
EXTENDS Integers, FiniteSets

CONSTANTS
  CompanyCount,   \* external ids, numbered in their order
  Counts          \* page sizes that the partner may ask for

ASSUME FeedAssumption == CompanyCount \in Nat /\ Counts \subseteq Nat

Companies == 1..CompanyCount

\* cursor=None: the first page, before every external id.
Start == 0

VARIABLES
  mapped,     \* external ids of the connection's branch mappings
  enabled,    \* catalog_read_enabled of the connection
  walk,       \* the partner's walk through the feed
  count,      \* the page size of the walk
  cursor,     \* the cursor of its next page
  listed,     \* the companies it has got
  steady      \* the companies mapped ever since the walk began

partner == <<walk, count, cursor, listed>>
feedVars == <<mapped, enabled, walk, count, cursor, listed, steady>>

FeedInit ==
  /\ mapped \in SUBSET Companies
  /\ enabled = TRUE
  /\ walk = "idle" /\ count = 1 /\ cursor = Start /\ listed = {}
  /\ steady = {}

StartWalk(size) ==
  /\ walk \in {"idle", "complete", "refused"}
  /\ walk' = "walking" /\ count' = size
  /\ cursor' = Start /\ listed' = {}
  /\ steady' = mapped
  /\ UNCHANGED <<mapped, enabled>>

\* Mutated form of After: the cursor's own company is on the next page again.
FromCursor == {c \in mapped : c >= cursor}

After == {c \in mapped : c > cursor}

\* The page and, because the query takes one mapping more, whether there is more.
Page == {c \in After : Cardinality({d \in After : d < c}) < count}
HasMore == Cardinality(After) > count

\* Mutated form of NextCursor: the cursor is the first company of the next page.
CursorOfExtra == CHOOSE c \in After \ Page : \A d \in After \ Page : c <= d

NextCursor == CHOOSE c \in Page : \A d \in Page : d <= c

ReadPage ==
  /\ walk = "walking" /\ enabled /\ count \in 1..500
  /\ listed' = listed \cup Page
  /\ cursor' = IF HasMore THEN NextCursor ELSE cursor
  /\ walk' = IF HasMore THEN "walking" ELSE "complete"
  /\ UNCHANGED <<mapped, enabled, count, steady>>

\* 404 while the reads are off, 422 for a page size outside the limits.
RefusePage ==
  /\ walk = "walking" /\ (~enabled \/ count \notin 1..500)
  /\ walk' = "refused"
  /\ UNCHANGED <<mapped, enabled, count, cursor, listed, steady>>

\* A branch is mapped to the connection, or its mapping is removed.
Map(c) == c \notin mapped /\ mapped' = mapped \cup {c}
          /\ UNCHANGED <<enabled, partner, steady>>
Unmap(c) == c \in mapped /\ mapped' = mapped \ {c} /\ steady' = steady \ {c}
            /\ UNCHANGED <<enabled, partner>>
SwitchCatalog == enabled' = ~enabled /\ UNCHANGED <<mapped, partner, steady>>

Walk == ReadPage \/ RefusePage

FeedNext ==
  \/ \E size \in Counts : StartWalk(size)
  \/ Walk
  \/ \E c \in Companies : Map(c) \/ Unmap(c)
  \/ SwitchCatalog

FeedSpec == FeedInit /\ [][FeedNext]_feedVars

-----------------------------------------------------------------------------
(* Properties. *)

\* Whatever is mapped and unmapped between the pages, a page has only companies
\* beyond those the partner has got: in order, and none twice.
NoCompanyTwice ==
  [][ReadPage => \A got \in listed, c \in Page : got < c]_feedVars

\* A complete walk has every company that was mapped during the whole of it.
NoSteadyCompanyIsLost ==
  walk = "complete" => steady \subseteq listed
=============================================================================
