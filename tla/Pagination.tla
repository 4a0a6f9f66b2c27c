------------------------------ MODULE Pagination ------------------------------
(***************************************************************************)
(* One iterator over a paginated collection: chat.iter, chat.iter_messages *)
(* and evaluations.iter are the same generator over different pages        *)
(* (_resources/chat.py, _resources/evaluations.py, _resources/_utils.py).  *)
(* The generator runs only while its consumer asks for an item.            *)
(*                                                                         *)
(* The collection is at the server (external): a page per cursor, each     *)
(* naming the cursor of the next page or none.  A server may link pages    *)
(* into a cycle, and may relink them between two requests.                 *)
(***************************************************************************)
EXTENDS Naturals, Sequences, Functions

CONSTANTS
    Cursors,      \* the cursors the server hands out
    First,        \* the page requested without a cursor
    None,         \* next_cursor is null
    PageSize,     \* number of items on each page
    MaxRelinks    \* bound: how often the server relinks its pages

Pages == Cursors \cup {First}

ASSUME CursorsAssumption == First \notin Cursors /\ None \notin Pages

ASSUME PagesAssumption == PageSize \in [Pages -> Nat] /\ MaxRelinks \in Nat

VARIABLES
    start,       \* the page the iteration starts at (the cursor argument)
    pc,          \* where the generator is
    cursor,      \* next_cursor: the page to request
    seen,        \* seen_cursors
    page,        \* the page in hand
    taken,       \* how many of its items have been yielded
    outcome,     \* how the iteration ended
    link,        \* the server's next_cursor of each page
    relinks,     \* how often the server has relinked its pages
    requested,   \* the pages requested, in order
    yielded      \* the items yielded, in order

genVars == <<start, pc, cursor, seen, page, taken, outcome, requested, yielded>>
vars    == <<start, pc, cursor, seen, page, taken, outcome, link, relinks, requested, yielded>>

Item(p, k) == <<p, k>>

TypeOK ==
    /\ start \in Pages
    /\ pc \in {"suspended", "fetch", "items", "turn", "done"}
    /\ cursor \in Pages
    /\ seen \subseteq Cursors
    /\ page \in Pages
    /\ taken \in Nat
    /\ outcome \in {"pending", "exhausted", "ResponseError", "RequestError", "abandoned"}
    /\ link \in [Pages -> Cursors \cup {None}]
    /\ relinks \in 0 .. MaxRelinks
    /\ requested \in Seq(Pages)
    /\ yielded \in Seq(Pages \X Nat)

(* next_cursor = cursor; seen_cursors = set() if cursor is None else {cursor} *)
Init ==
    /\ start \in Pages
    /\ pc = "suspended"
    /\ cursor = start
    /\ seen = {start} \ {First}
    /\ page = start
    /\ taken = 0
    /\ outcome = "pending"
    /\ link \in [Pages -> Cursors \cup {None}]
    /\ relinks = 0
    /\ requested = <<>>
    /\ yielded = <<>>

-----------------------------------------------------------------------------
(* The consumer. *)

(* next(iterator): the generator resumes where it was suspended.           *)
Pull ==
    /\ pc = "suspended"
    /\ pc' = IF requested = <<>> THEN "fetch" ELSE "items"
    /\ UNCHANGED <<start, cursor, seen, page, taken, outcome, link, relinks, requested, yielded>>

(* The consumer loses interest, or its task is cancelled.                  *)
Abandon ==
    /\ pc = "suspended"
    /\ pc' = "done"
    /\ outcome' = "abandoned"
    /\ UNCHANGED <<start, cursor, seen, page, taken, link, relinks, requested, yielded>>

-----------------------------------------------------------------------------
(* The generator. *)

Finish(result) ==
    /\ pc' = "done"
    /\ outcome' = result

(* page = self.list(limit=limit, cursor=next_cursor)                       *)
Fetch ==
    /\ pc = "fetch"
    /\ requested' = Append(requested, cursor)
    /\ page' = cursor
    /\ taken' = 0
    /\ pc' = "items"
    /\ UNCHANGED <<start, cursor, seen, outcome, link, relinks, yielded>>

FailFetch ==
    /\ pc = "fetch"
    /\ requested' = Append(requested, cursor)
    /\ Finish("RequestError")
    /\ UNCHANGED <<start, cursor, seen, page, taken, link, relinks, yielded>>

(* yield from page.chats: one item, and the consumer has control.          *)
YieldItem ==
    /\ pc = "items" /\ taken < PageSize[page]
    /\ taken' = taken + 1
    /\ yielded' = Append(yielded, Item(page, taken'))
    /\ pc' = "suspended"
    /\ UNCHANGED <<start, cursor, seen, page, outcome, link, relinks, requested>>

(* Mutated form: the page is turned with an item left on it. *)
LastItemLeft ==
    /\ pc = "items" /\ taken + 1 >= PageSize[page]
    /\ pc' = "turn"
    /\ UNCHANGED <<start, cursor, seen, page, taken, outcome, link, relinks, requested, yielded>>

LastItemTaken ==
    /\ pc = "items" /\ taken = PageSize[page]
    /\ pc' = "turn"
    /\ UNCHANGED <<start, cursor, seen, page, taken, outcome, link, relinks, requested, yielded>>

(* Mutated form: any cursor is taken for a cycle once one has been seen. *)
RejectAnyCursor ==
    /\ pc = "turn" /\ link[page] # None /\ seen # {}
    /\ Finish("ResponseError")
    /\ UNCHANGED <<start, cursor, seen, page, taken, link, relinks, requested, yielded>>

(* Mutated form: the cycle is noticed and the generator spins. *)
RejectNothing == pc = "turn" /\ link[page] \in seen /\ UNCHANGED vars

(* next_page_cursor: a cursor seen before would loop for ever.             *)
RejectCycle ==
    /\ pc = "turn" /\ link[page] \in seen
    /\ Finish("ResponseError")
    /\ UNCHANGED <<start, cursor, seen, page, taken, link, relinks, requested, yielded>>

(* Mutated form: an empty page ends the iteration. *)
ExhaustOnEmptyPage ==
    /\ pc = "turn" /\ (link[page] = None \/ PageSize[page] = 0)
    /\ Finish("exhausted")
    /\ UNCHANGED <<start, cursor, seen, page, taken, link, relinks, requested, yielded>>

Exhaust ==
    /\ pc = "turn" /\ link[page] = None
    /\ Finish("exhausted")
    /\ UNCHANGED <<start, cursor, seen, page, taken, link, relinks, requested, yielded>>

(* Mutated forms: the cursor is not remembered; null is taken for one. *)
TurnPageForgetful ==
    /\ pc = "turn" /\ link[page] \notin seen \cup {None}
    /\ pc' = "fetch"
    /\ cursor' = link[page]
    /\ UNCHANGED <<start, seen, page, taken, outcome, link, relinks, requested, yielded>>

TurnPageToNull ==
    /\ pc = "turn" /\ link[page] \notin seen
    /\ pc' = "fetch"
    /\ seen' = seen \cup {link[page]}
    /\ cursor' = link[page]
    /\ UNCHANGED <<start, page, taken, outcome, link, relinks, requested, yielded>>

(* seen_cursors.add(returned_cursor); next_cursor = returned_cursor        *)
TurnPage ==
    /\ pc = "turn" /\ link[page] \notin seen \cup {None}
    /\ pc' = "fetch"
    /\ seen' = seen \cup {link[page]}
    /\ cursor' = link[page]
    /\ UNCHANGED <<start, page, taken, outcome, link, relinks, requested, yielded>>

GeneratorStep ==
    \/ Fetch
    \/ FailFetch
    \/ YieldItem
    \/ LastItemTaken
    \/ RejectCycle
    \/ Exhaust
    \/ TurnPage

-----------------------------------------------------------------------------
(* The server relinks a page.  A page in the generator's hand keeps the    *)
(* next_cursor it came with, and is never asked for again.                 *)
Relink ==
    /\ relinks < MaxRelinks /\ pc # "done"
    /\ relinks' = relinks + 1
    /\ \E p \in Pages, c \in Cursors \cup {None} :
          /\ pc \in {"items", "turn", "suspended"} => p # page
          /\ link' = [link EXCEPT ![p] = c]
    /\ UNCHANGED genVars

Done == pc = "done" /\ UNCHANGED vars

Next == Pull \/ Abandon \/ GeneratorStep \/ Relink \/ Done

(* The generator runs when asked, and the consumer keeps asking.           *)
Fairness == WF_vars(GeneratorStep) /\ WF_vars(Pull)

Spec     == Init /\ [][Next]_vars
FairSpec == Spec /\ Fairness

-----------------------------------------------------------------------------
(* Safety. *)

(* No page is requested twice in one iteration, however the server links   *)
(* its pages.                                                              *)
NoPageTwice == IsInjective(requested)

(* No item is yielded twice.                                               *)
NoItemTwice == IsInjective(yielded)

ItemsOf(p) == {Item(p, k) : k \in 1 .. PageSize[p]}

(* The iterator is lazy, and loses nothing: whenever it asks for a page,   *)
(* the consumer has had every item of every page before it.                *)
NothingSkipped ==
    pc \in {"turn", "fetch"} => Range(yielded) = UNION {ItemsOf(p) : p \in Range(requested)}

(* An iteration that ends has followed the server's links to their end and *)
(* yielded all there is (for a collection that stands still).              *)
ExhaustsTheCollection ==
    outcome = "exhausted" /\ relinks = 0 =>
        LET walked == Range(requested) IN
        /\ start \in walked
        /\ \A p \in walked : link[p] \in walked \cup {None}
        /\ Range(yielded) = UNION {ItemsOf(p) : p \in walked}

(* An iteration is rejected only if the server's links really never end,   *)
(* and only after every page of the cycle has been yielded once.           *)
RejectsOnlyCycles ==
    outcome = "ResponseError" /\ relinks = 0 =>
        LET walked == Range(requested) IN
        /\ \A p \in walked : link[p] \in walked
        /\ Range(yielded) = UNION {ItemsOf(p) : p \in walked}

(* Liveness: a consumer that keeps asking reaches the end of the iteration,*)
(* even if the server's links go round in circles.                         *)
Termination == <>(pc = "done")
==============================================================================
