------------------------------ MODULE ListPages -----------------------------
(***************************************************************************)
(* Cursor pagination of the list operations (src/src/core/pagination.ts):  *)
(* a client walks one list from page to page while the list may be         *)
(* replaced under it by a restart under another configuration.             *)
(*                                                                         *)
(* An item is known by its size in bytes and its position in the list it   *)
(* was first served from; the fingerprint of a list, a digest of its       *)
(* serialized items in their order, is the list.                           *)
(***************************************************************************)
EXTENDS Naturals, Sequences, SequencesExt

CONSTANTS Lists,         \* the lists an operation may serve: sequences of [id, size]
          PageBytes      \* LIST_PAGE_BYTES

ASSUME PagesAssumption ==
  PageBytes \in Nat /\ Lists \subseteq Seq([id : Nat, size : Nat])

VARIABLES list,          \* what the SDK's handler returns
          paged,         \* whether pagination is installed: only on modern servers
          walk,          \* "absent", "walking", "whole" or "refused"
          pages,         \* the pages the client has received
          cursor,        \* nextCursor of the last of them
          honest         \* the list has not changed, nor the cursor been replaced (history)

pageVars == <<list, paged, walk, pages, cursor, honest>>

NoCursor == [method |-> "none", offset |-> 0, print |-> <<>>]
Garbled == [method |-> "?", offset |-> 0, print |-> <<>>]

\* The bytes on the page of item i, up to and with it.
Filled(items) ==
  LET used[i \in 0..Len(items)] ==
        IF i = 0 THEN 0
        ELSE IF i > 1 /\ used[i - 1] + items[i].size > PageBytes THEN items[i].size
        ELSE used[i - 1] + items[i].size
  IN  used

\* Where pages begin: at the first item, and wherever an item would not fit.
PageStarts(items) ==
  {1} \cup {i \in 2..Len(items) : Filled(items)[i - 1] + items[i].size > PageBytes}

\* Mutant: the fingerprint is not compared.
AcceptsStale(c, items) ==
  c.method = "list" /\ c.offset \in PageStarts(items) \ {1}

\* What decodeCursor() and the checks after it let pass: a cursor of this operation and of
\* this very list, at a start after the first.
Accepts(c, items) ==
  c.method = "list" /\ c.print = items /\ c.offset \in PageStarts(items) \ {1}

PageFrom(items, from) ==
  LET later == {s \in PageStarts(items) : s > from}
      next == CHOOSE s \in later : \A t \in later : s <= t
  IN  IF later = {} THEN [items |-> SubSeq(items, from, Len(items)), cursor |-> NoCursor]
      ELSE [items |-> SubSeq(items, from, next - 1),
            cursor |-> [method |-> "list", offset |-> next, print |-> items]]

\* Without pagination the cursor is not looked at.
Page(items, c) ==
  IF paged THEN PageFrom(items, IF c = NoCursor THEN 1 ELSE c.offset)
           ELSE [items |-> items, cursor |-> NoCursor]

PagesInit ==
  /\ list \in Lists \cup {<<>>} /\ paged \in BOOLEAN
  /\ walk \in {"absent", "walking"}
  /\ pages = <<>> /\ cursor = NoCursor /\ honest = TRUE

\* The client sends the cursor it has; or one that was cut short, was given out by another
\* operation, or points where no page begins.
Presented ==
  {cursor, Garbled, [cursor EXCEPT !.method = "another list"]}
    \cup {[cursor EXCEPT !.offset = o] : o \in (1..Len(list)) \ PageStarts(list)}

Ask(c) ==
  /\ walk = "walking"
  /\ c = cursor \/ cursor # NoCursor
  /\ honest' = (honest /\ c = cursor)
  /\ IF paged /\ c # NoCursor /\ ~Accepts(c, list)
     THEN walk' = "refused" /\ UNCHANGED <<pages, cursor>>
     ELSE LET page == Page(list, c)
          IN  /\ pages' = Append(pages, page.items)
              /\ cursor' = page.cursor
              /\ walk' = IF page.cursor = NoCursor THEN "whole" ELSE "walking"
  /\ UNCHANGED <<list, paged>>

\* A restart; the client goes on with the cursor it has.
Replace ==
  /\ walk = "walking" /\ pages # <<>>
  /\ list' \in Lists \ {list}
  /\ honest' = FALSE
  /\ UNCHANGED <<paged, walk, pages, cursor>>

PageStep == Replace \/ \E c \in Presented : Ask(c)

(***************************************************************************)
(* Properties.                                                             *)
(***************************************************************************)

SizeOf(page) ==
  LET sum[i \in 0..Len(page)] == IF i = 0 THEN 0 ELSE sum[i - 1] + page[i].size
  IN  sum[Len(page)]

\* A walk that comes to its end has returned the list that is served, every item once and in
\* order, in pages within the budget or of one item -- whatever was replaced or presented on
\* the way, which is refused -- and a client that follows its cursors is not refused.
WalkIsWhole ==
  /\ walk = "whole" => FlattenSeq(pages) = list
  /\ walk = "refused" => ~honest
  /\ paged => \A i \in 1..Len(pages) : Len(pages[i]) > 1 => SizeOf(pages[i]) <= PageBytes
=============================================================================
