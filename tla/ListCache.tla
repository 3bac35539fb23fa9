----------------------------- MODULE ListCache -----------------------------
(***************************************************************************)
(* McpServer::handle_list_request and the cache of list results.  A list   *)
(* request looks the cache up under its lock, runs the application's list  *)
(* handler without it, and fills the cache under it again; in between, the *)
(* application may change the list and invalidate the cache from another   *)
(* thread.  Each critical section, and each call of the list handler, is   *)
(* one step.                                                               *)
(*                                                                         *)
(* The contents of a list are abstracted to a version number that grows    *)
(* with every change the application makes.                                *)
(***************************************************************************)
EXTENDS Naturals

CONSTANTS
  Lists,        \* tools, resources, resource templates, prompts
  Threads,      \* threads that may be inside a list request
  MaxVersion    \* bound: changes of a list

ListAssumption == MaxVersion \in Nat

VARIABLES
  frozen,       \* frozen_: run() has frozen the registries
  paginates,    \* list_page_size_ > 0
  items,        \* version of each list that its handler would return
  list_cache,   \* list_cache_: version cached for each list, NoResult if empty
  owed,         \* the application has changed something and will invalidate
  pc,           \* list request of a thread: idle, produce, fill
  request,      \* the list that a thread's request is for
  cacheable,    \* handle_list_request's local of that name
  produced,     \* version the handler returned
  floor,        \* history: version invalidated before the request began
  answer,       \* version in the last answer of a thread, NoResult before
  announced,    \* history: version of each list at the last invalidation
  overlapped    \* history: an invalidation met an older result about to be cached

vars == <<frozen, paginates, items, list_cache, owed, pc, request, cacheable,
          produced, floor, answer, announced, overlapped>>

Versions == 1..(MaxVersion + 1)
NoResult == 0   \* no version

Init ==
  /\ frozen = FALSE
  /\ paginates \in BOOLEAN
  /\ items = [k \in Lists |-> 1]
  /\ list_cache = [k \in Lists |-> NoResult]
  /\ owed = FALSE
  /\ pc = [t \in Threads |-> "idle"]
  /\ request \in [Threads -> Lists]
  /\ cacheable = [t \in Threads |-> FALSE]
  /\ produced = [t \in Threads |-> NoResult]
  /\ floor = [t \in Threads |-> 1]
  /\ answer = [t \in Threads |-> NoResult]
  /\ announced = [k \in Lists |-> 1]
  /\ overlapped = FALSE

-----------------------------------------------------------------------------
(* Faulty variants of definitions below; used only to show that the         *)
(* properties notice them.                                                   *)

\* Invalidation that clears nothing.
ClearedNever(k) == list_cache[k]

-----------------------------------------------------------------------------
(* handle_list_request *)

\* The lookup of a request that begins now may use the cache.
Cacheable == frozen /\ ~paginates

\* The result a thread produced goes into the cache.
MayFill(t) == cacheable[t]

\* The cache lookup; a hit answers the request.
ListBegin(t, k) ==
  /\ pc[t] = "idle"
  /\ request' = [request EXCEPT ![t] = k]
  /\ cacheable' = [cacheable EXCEPT ![t] = Cacheable]
  /\ floor' = [floor EXCEPT ![t] = announced[k]]
  /\ IF Cacheable /\ list_cache[k] # NoResult
       THEN /\ answer' = [answer EXCEPT ![t] = list_cache[k]]
            /\ UNCHANGED pc
       ELSE /\ pc' = [pc EXCEPT ![t] = "produce"]
            /\ answer' = [answer EXCEPT ![t] = NoResult]
  /\ UNCHANGED <<frozen, paginates, items, list_cache, owed, produced, announced,
                 overlapped>>

\* The list handler runs.  A result that is not cached answers the request.
ListProduce(t) ==
  /\ pc[t] = "produce"
  /\ produced' = [produced EXCEPT ![t] = items[request[t]]]
  /\ IF MayFill(t)
       THEN pc' = [pc EXCEPT ![t] = "fill"] /\ UNCHANGED answer
       ELSE /\ pc' = [pc EXCEPT ![t] = "idle"]
            /\ answer' = [answer EXCEPT ![t] = items[request[t]]]
  /\ UNCHANGED <<frozen, paginates, items, list_cache, owed, request, cacheable,
                 floor, announced, overlapped>>

\* The list handler throws: the request is answered with an error and nothing is
\* cached.
ListThrows(t) ==
  /\ pc[t] = "produce"
  /\ pc' = [pc EXCEPT ![t] = "idle"]
  /\ UNCHANGED <<frozen, paginates, items, list_cache, owed, request, cacheable,
                 produced, floor, answer, announced, overlapped>>

\* The result is cached and answers the request.
ListFill(t) ==
  /\ pc[t] = "fill"
  /\ list_cache' = [list_cache EXCEPT ![request[t]] = produced[t]]
  /\ answer' = [answer EXCEPT ![t] = produced[t]]
  /\ pc' = [pc EXCEPT ![t] = "idle"]
  /\ UNCHANGED <<frozen, paginates, items, owed, request, cacheable, produced,
                 floor, announced, overlapped>>

-----------------------------------------------------------------------------
(* The application *)

\* The application changes a list; its contract is to invalidate afterwards.
Change(k) ==
  /\ items[k] <= MaxVersion
  /\ items' = [items EXCEPT ![k] = @ + 1]
  /\ owed' = TRUE
  /\ UNCHANGED <<frozen, paginates, list_cache, pc, request, cacheable, produced,
                 floor, answer, announced, overlapped>>

\* set_list_page_size, up to its call of invalidate_list_cache.
SetListPageSize ==
  /\ ~owed
  /\ paginates' = ~paginates
  /\ owed' = TRUE
  /\ UNCHANGED <<frozen, items, list_cache, pc, request, cacheable, produced,
                 floor, answer, announced, overlapped>>

\* What invalidation leaves in the cache of list k.
Cleared(k) == NoResult

\* invalidate_list_cache, on its own or from notify_*_list_changed.
InvalidateListCache ==
  /\ owed
  /\ owed' = FALSE
  /\ list_cache' = [k \in Lists |-> Cleared(k)]
  /\ announced' = items
  /\ overlapped' = (overlapped \/ \E t \in Threads :
                      pc[t] = "fill" /\ produced[t] < items[request[t]])
  /\ UNCHANGED <<frozen, paginates, items, pc, request, cacheable, produced, floor,
                 answer>>

\* run() freezes the registries.
Freeze ==
  /\ ~frozen
  /\ frozen' = TRUE
  /\ UNCHANGED <<paginates, items, list_cache, owed, pc, request, cacheable, produced,
                 floor, answer, announced, overlapped>>

-----------------------------------------------------------------------------

Next ==
  \/ \E t \in Threads : \/ \E k \in Lists : ListBegin(t, k)
                        \/ ListProduce(t) \/ ListThrows(t) \/ ListFill(t)
  \/ \E k \in Lists : Change(k)
  \/ SetListPageSize \/ InvalidateListCache \/ Freeze

Spec == Init /\ [][Next]_vars

-----------------------------------------------------------------------------
(* Properties *)

\* Every variable stays in its range.
TypeOK ==
  /\ frozen \in BOOLEAN /\ paginates \in BOOLEAN /\ owed \in BOOLEAN
  /\ items \in [Lists -> Versions]
  /\ list_cache \in [Lists -> Versions \cup {NoResult}]
  /\ pc \in [Threads -> {"idle", "produce", "fill"}]
  /\ request \in [Threads -> Lists]
  /\ cacheable \in [Threads -> BOOLEAN]
  /\ produced \in [Threads -> Versions \cup {NoResult}]
  /\ floor \in [Threads -> Versions]
  /\ answer \in [Threads -> Versions \cup {NoResult}]
  /\ announced \in [Lists -> Versions]
  /\ overlapped \in BOOLEAN

\* An answer is not older than what had been invalidated before its request
\* began.
Fresh(t) == answer[t] # NoResult => answer[t] >= floor[t]

\* "invalidated by invalidate_list_cache() / list_changed": a list request that
\* begins after an invalidation never gets what the invalidation was to remove.
FreshAfterInvalidate == \A t \in Threads : Fresh(t)

\* The cache serves something old only after an invalidation overtook a request
\* between its handler and its fill: without such an overlap every answer is
\* fresh and the cache holds nothing older than the last invalidation.
StaleNeedsOverlap ==
  ~overlapped =>
    /\ FreshAfterInvalidate
    /\ \A k \in Lists : list_cache[k] # NoResult => list_cache[k] >= announced[k]

\* What a server that is not running, or that paginates, answers is always
\* fresh: the cache is not looked at and never filled by such a request.
UncachedIsFresh ==
  \A t \in Threads : ~cacheable[t] => pc[t] # "fill" /\ Fresh(t)

\* A list request is answered with something older than the last invalidation
\* before it in one case only: it was served from the cache, and an invalidation
\* had overtaken a request that was about to fill the cache.
ListsFresh == StaleNeedsOverlap /\ UncachedIsFresh

=============================================================================
