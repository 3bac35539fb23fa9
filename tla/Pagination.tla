----------------------------- MODULE Pagination -----------------------------
(***************************************************************************)
(* The pages of a list: handle_list_request with a page size, asked by a   *)
(* client whose list_tools, list_resources or list_prompts hands back the  *)
(* cursor to ask for next.  The application may start a walk with any      *)
(* cursor; while one is under way, the list may grow and                   *)
(* set_list_page_size, which takes no lock, may change the size: a request *)
(* reads it twice.                                                         *)
(* A list that is not paginated comes from its handler here; ListCache has *)
(* the cache.                                                              *)
(*                                                                         *)
(* The items of a list are its positions.  A cursor is <<>> when there is  *)
(* none or it is empty, <<n>> when it is the digits of n, and <<-1>> when  *)
(* it is any other text.                                                   *)
(***************************************************************************)
EXTENDS Integers, Sequences

CONSTANTS
  SizeLimit,  \* 2^w for a std::size_t of w bits
  PageSizes,  \* values given to set_list_page_size; 0 is none
  Numbers,    \* numbers a client's cursor may be made of; -1 is other text
  MaxItems    \* bound: items of the list

PaginationAssumption ==
  /\ SizeLimit \in Nat \ {0}
  /\ PageSizes \subseteq 0..(SizeLimit - 1) /\ 0 \in PageSizes
  /\ Numbers \subseteq {-1} \cup Nat
  /\ MaxItems \in 0..(SizeLimit - 1)

Cursors == {<<>>} \cup {<<n>> : n \in Numbers}

VARIABLES
  length,     \* items the list handler returns
  page_size,  \* list_page_size_
  stage,      \* the client: idle, asked (inside handle_list_request), done, failed
  start,      \* the cursor the walk began with
  cursor,     \* the cursor to ask with
  paginated,  \* handle_list_request's local of that name
  got,        \* the items the client has got in this walk
  total,      \* history: items of the list when the last page was made
  unpaged     \* history: in this walk, the server did not paginate while the
              \* client held a cursor or waited for a page

server == <<length, page_size>>
vars == <<server, stage, start, cursor, paginated, got, total, unpaged>>

Init ==
  /\ length = 0 /\ page_size = 0
  /\ stage = "done" /\ start = <<>> /\ cursor = <<>>
  /\ paginated = FALSE /\ got = <<>> /\ total = 0 /\ unpaged = FALSE

-----------------------------------------------------------------------------
(* Faulty variants, used only to show that the properties notice them.       *)

\* The next cursor names the last item of the page in place of the item after it.
NextCursorBehind(end, n) == IF end < n THEN <<end - 1>> ELSE <<>>

\* The beginning of the page is not held back to the end of the list.
FirstBeyond(offset, n) == offset

-----------------------------------------------------------------------------
(* A page *)

Offset(c) == IF c = <<>> THEN 0 ELSE c[1]

\* The sum of two values of std::size_t wraps.
Plus(a, b) == IF a + b < SizeLimit THEN a + b ELSE a + b - SizeLimit

Least(a, b) == IF a <= b THEN a ELSE b

First(offset, n) == Least(offset, n)
End(offset, size, n) == Least(Plus(offset, size), n)
NextCursor(end, n) == IF end < n THEN <<end>> ELSE <<>>

\* The items after the first ones, up to the end.
Slice(first, end) == [i \in 1..(end - first) |-> first + i]

-----------------------------------------------------------------------------
(* The client and handle_list_request *)

\* list_tools and its like are called with a cursor of the application's choice.
StartWalk(c) ==
  /\ stage \in {"done", "failed"}
  /\ stage' = "idle" /\ start' = c /\ cursor' = c /\ got' = <<>>
  /\ unpaged' = (page_size = 0 /\ c # <<>>)
  /\ UNCHANGED <<server, paginated, total>>

\* A cursor that handle_list_request cannot use: it is no number, or stoull throws.
BadCursor(c) == c # <<>> /\ c[1] \notin 0..(SizeLimit - 1)

\* handle_list_request, up to the list handler; an error ends the walk.
ListRequest ==
  /\ stage = "idle"
  /\ paginated' = (page_size > 0)
  /\ stage' = IF page_size > 0 /\ BadCursor(cursor) THEN "failed" ELSE "asked"
  /\ UNCHANGED <<server, start, cursor, got, total, unpaged>>

\* The client takes the items and the next cursor, and goes on if there is one.
Take(items, next) ==
  /\ got' = got \o items
  /\ cursor' = next
  /\ stage' = IF next = <<>> THEN "done" ELSE "idle"
  /\ total' = length

\* The list handler runs; the page, or the whole list.  A range whose end lies
\* before its beginning is one no vector can hold.
ListAnswer ==
  /\ stage = "asked"
  /\ LET first == First(Offset(cursor), length)
         end   == End(Offset(cursor), page_size, length)
     IN  \/ ~paginated /\ Take(Slice(0, length), <<>>)
         \/ /\ paginated /\ first <= end
            /\ Take(Slice(first, end), NextCursor(end, length))
         \/ /\ paginated /\ first > end
            /\ stage' = "failed" /\ UNCHANGED <<got, cursor, total>>
  /\ UNCHANGED <<server, start, paginated, unpaged>>

-----------------------------------------------------------------------------
(* The server's application *)

Grow ==
  /\ length < MaxItems
  /\ length' = length + 1
  /\ UNCHANGED <<page_size, stage, start, cursor, paginated, got, total, unpaged>>

SetListPageSize(n) ==
  /\ page_size' = n
  /\ unpaged' = \/ unpaged
                \/ n = 0 /\ (cursor # <<>> \/ (stage = "asked" /\ paginated))
  /\ UNCHANGED <<length, stage, start, cursor, paginated, got, total>>

-----------------------------------------------------------------------------
Next ==
  \/ \E c \in Cursors : StartWalk(c)
  \/ ListRequest \/ ListAnswer
  \/ Grow \/ \E n \in PageSizes : SetListPageSize(n)

Spec == Init /\ [][Next]_vars

-----------------------------------------------------------------------------
(* Properties *)

\* Every variable stays in its range.
TypeOK ==
  /\ length \in 0..MaxItems /\ page_size \in PageSizes /\ total \in 0..MaxItems
  /\ stage \in {"idle", "asked", "done", "failed"}
  /\ start \in Cursors /\ cursor \in Cursors \cup {<<n>> : n \in 0..MaxItems}
  /\ paginated \in BOOLEAN /\ unpaged \in BOOLEAN
  /\ got \in Seq(1..MaxItems)

\* A client that follows the cursors of a list that only grows gets the items
\* after its first cursor in order, none twice and none missing, and when no
\* cursor comes back it has got all there are; whatever the page sizes are
\* meanwhile, unless pagination is switched off under it.
WalkInOrder ==
  /\ TypeOK
  /\ ~unpaged =>
       /\ \A i \in 1..Len(got) : got[i] = Offset(start) + i
       /\ stage = "done" =>
            Len(got) = IF Offset(start) < total THEN total - Offset(start) ELSE 0

\* Whatever cursor a client sends and whenever the page size changes, an answer
\* holds at most a page, of existing items, and a cursor that makes progress unless
\* the size became 0; a request fails only for a cursor that is no number of
\* std::size_t, or so large that the sum wraps.
PageStep ==
  /\ stage' = "failed" /\ stage # "failed" =>
       BadCursor(cursor) \/ Offset(cursor) + page_size >= SizeLimit
  /\ stage = "asked" /\ stage' \in {"idle", "done"} =>
       /\ paginated => Len(got') - Len(got) <= page_size
       /\ \A i \in (Len(got) + 1)..Len(got') : got'[i] \in 1..length
       /\ stage' = "idle" =>
            /\ Offset(cursor') \in Offset(cursor)..(length - 1)
            /\ page_size > 0 => Offset(cursor') > Offset(cursor)

PageInRange == [][PageStep]_vars

=============================================================================
