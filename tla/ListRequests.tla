---------------------------- MODULE ListRequests ----------------------------
(***************************************************************************)
(* McpServer::handle_list_request, both of its halves: the cache           *)
(* (ListCache) and the pages (Pagination).  They meet in list_page_size_   *)
(* only: a request that is paginated neither looks the cache up nor fills  *)
(* it, and what the cache needs to know of the size is whether there is    *)
(* one (`paginates`), which changes there at any time.  So each half is a  *)
(* system of its own, and a behaviour is one of them.                      *)
(***************************************************************************)
EXTENDS Integers, Sequences

CONSTANTS
  Lists, Askers, MaxVersion,              \* of ListCache; its threads are the Askers
  SizeLimit, PageSizes, Numbers, MaxItems \* of Pagination

VARIABLES
  half,  \* the half of handle_list_request that runs: cache or pages
  list_frozen, paginates, items, list_cache, owed, list_pc, request, cacheable,
  produced, floor, answer, announced, overlapped,
  length, page_size, stage, start, cursor, paginated, got, total, unpaged

Cache == INSTANCE ListCache WITH Threads <- Askers, frozen <- list_frozen, pc <- list_pc
Pages == INSTANCE Pagination

ASSUME ListRequestsAssumption == Cache!ListAssumption /\ Pages!PaginationAssumption

cachevars == <<list_frozen, paginates, items, list_cache, owed, list_pc, request,
               cacheable, produced, floor, answer, announced, overlapped>>
pagevars  == <<length, page_size, stage, start, cursor, paginated, got, total, unpaged>>
listvars  == <<half, cachevars, pagevars>>

ListsInit == half \in {"cache", "pages"} /\ Cache!Init /\ Pages!Init

ListsNext ==
  \/ half = "cache" /\ Cache!Next /\ UNCHANGED <<half, pagevars>>
  \/ half = "pages" /\ Pages!Next /\ UNCHANGED <<half, cachevars>>

ListsSpec == ListsInit /\ [][ListsNext]_listvars

-----------------------------------------------------------------------------
(* Properties *)

\* A list request is answered with something older than the last invalidation
\* before it in one case only: it was served from the cache, and an invalidation
\* had overtaken a request that was about to fill the cache.
ListsFresh == Cache!ListsFresh

\* A client that follows the cursors of handle_list_request gets the items after
\* its first cursor in order, none twice and none missing, while the list grows and
\* the page size changes, unless pagination is switched off under it.
WalkInOrder == Pages!WalkInOrder

\* An answer of handle_list_request holds at most a page, of existing items, and a
\* cursor that makes progress; a request fails only for a cursor that is no number
\* of std::size_t, or so large that the sum wraps.
PageInRange == Pages!PageInRange

=============================================================================
