--------------------------- MODULE Pagination_proofs ---------------------------
(***************************************************************************)
(* Proofs about the iterators of Pagination, for every collection, every   *)
(* way a server links it, and any number of relinks.                       *)
(***************************************************************************)
EXTENDS Pagination, TLAPS

(* What Append does to the range and to the injectivity of a sequence.     *)
LEMMA AppendRange ==
    ASSUME NEW S, NEW s \in Seq(S), NEW x \in S
    PROVE  Range(Append(s, x)) = Range(s) \cup {x}
<1>1. DOMAIN Append(s, x) = 1 .. Len(s) + 1 /\ DOMAIN s = 1 .. Len(s) /\ Len(s) \in Nat
  OBVIOUS
<1>2. \A i \in 1 .. Len(s) : Append(s, x)[i] = s[i]
  OBVIOUS
<1>3. Append(s, x)[Len(s) + 1] = x
  OBVIOUS
<1>4. ASSUME NEW y \in Range(Append(s, x)) PROVE y \in Range(s) \cup {x}
  <2>1. PICK i \in 1 .. Len(s) + 1 : y = Append(s, x)[i]
    BY <1>1 DEF Range
  <2>2. CASE i = Len(s) + 1
    BY <1>3, <2>1, <2>2
  <2>3. CASE i \in 1 .. Len(s)
    BY <1>1, <1>2, <2>1, <2>3 DEF Range
  <2> QED
    BY <1>1, <2>2, <2>3
<1>5. ASSUME NEW y \in Range(s) PROVE y \in Range(Append(s, x))
  <2>1. PICK i \in 1 .. Len(s) : y = s[i]
    BY <1>1 DEF Range
  <2>2. i \in DOMAIN Append(s, x) /\ y = Append(s, x)[i]
    BY <1>1, <1>2, <2>1
  <2> QED
    BY <2>2 DEF Range
<1>6. x \in Range(Append(s, x))
  <2>1. Len(s) + 1 \in DOMAIN Append(s, x)
    BY <1>1
  <2> QED
    BY <1>3, <2>1 DEF Range
<1> QED
  BY <1>4, <1>5, <1>6

LEMMA AppendInjective ==
    ASSUME NEW S, NEW s \in Seq(S), NEW x \in S, IsInjective(s), x \notin Range(s)
    PROVE  IsInjective(Append(s, x))
<1>1. DOMAIN Append(s, x) = 1 .. Len(s) + 1 /\ DOMAIN s = 1 .. Len(s) /\ Len(s) \in Nat
  OBVIOUS
<1>2. \A i \in 1 .. Len(s) : Append(s, x)[i] = s[i] /\ s[i] # x
  BY <1>1 DEF Range
<1>3. Append(s, x)[Len(s) + 1] = x
  OBVIOUS
<1>4. \A i, j \in 1 .. Len(s) : s[i] = s[j] => i = j
  BY <1>1 DEF IsInjective
<1>5. SUFFICES ASSUME NEW i \in 1 .. Len(s) + 1, NEW j \in 1 .. Len(s) + 1,
                      Append(s, x)[i] = Append(s, x)[j]
               PROVE  i = j
  BY <1>1 DEF IsInjective
<1>6. (i \in 1 .. Len(s) \/ i = Len(s) + 1) /\ (j \in 1 .. Len(s) \/ j = Len(s) + 1)
  BY <1>1
<1> QED
  BY <1>2, <1>3, <1>4, <1>5, <1>6

-----------------------------------------------------------------------------
(* Every variable keeps its type.                                          *)
LEMMA StepTypeOK == TypeOK /\ [Next]_vars => TypeOK'
<1> SUFFICES ASSUME TypeOK, [Next]_vars PROVE TypeOK'
  OBVIOUS
<1> USE DEF TypeOK, genVars, Finish, Pages
<1>1. CASE Pull
  BY <1>1 DEF Pull
<1>2. CASE Abandon
  BY <1>2 DEF Abandon
<1>3. CASE Fetch
  BY <1>3 DEF Fetch
<1>4. CASE FailFetch
  BY <1>4 DEF FailFetch
<1>5. CASE YieldItem
  BY <1>5 DEF YieldItem, Item
<1>6. CASE LastItemTaken \/ RejectCycle \/ Exhaust
  BY <1>6 DEF LastItemTaken, RejectCycle, Exhaust
<1>7. CASE TurnPage
  BY <1>7 DEF TurnPage
<1>8. CASE Relink
  BY <1>8, PagesAssumption DEF Relink
<1>9. CASE UNCHANGED vars
  BY <1>9 DEF vars
<1> QED
  BY <1>1, <1>2, <1>3, <1>4, <1>5, <1>6, <1>7, <1>8, <1>9 DEF Next, GeneratorStep, Done

THEOREM TypeCorrect == Spec => []TypeOK
<1>1. Init => TypeOK
  BY PagesAssumption DEF Init, TypeOK, Pages
<1> QED
  BY <1>1, StepTypeOK, PTL DEF Spec

-----------------------------------------------------------------------------
(* Every page asked for has its cursor in seen_cursors (or is the first    *)
(* page, whose cursor no server can name), and the next one has not.       *)
WalkInv ==
    /\ cursor \in seen \cup {First}
    /\ Range(requested) \subseteq seen \cup {First}
    /\ pc = "fetch" => cursor \notin Range(requested)
    /\ IsInjective(requested)

LEMMA WalkInit == Init => WalkInv
  BY DEF Init, WalkInv, Range, IsInjective

LEMMA WalkStep == TypeOK /\ WalkInv /\ [Next]_vars => WalkInv'
<1> SUFFICES ASSUME TypeOK, WalkInv, [Next]_vars PROVE WalkInv'
  OBVIOUS
<1> USE DEF WalkInv, genVars, Finish
<1>1. CASE Pull
  <2>1. pc' = "fetch" => Range(requested) = {}
    BY <1>1 DEF Pull, Range
  <2> QED
    BY <1>1, <2>1 DEF Pull
<1>2. CASE Abandon \/ YieldItem \/ LastItemTaken \/ RejectCycle \/ Exhaust
  BY <1>2 DEF Abandon, YieldItem, LastItemTaken, RejectCycle, Exhaust
<1>3. CASE Fetch
  <2>1. Range(requested') = Range(requested) \cup {cursor}
    BY <1>3, AppendRange DEF Fetch, TypeOK
  <2>2. IsInjective(requested')
    BY <1>3, AppendInjective DEF Fetch, TypeOK
  <2> QED
    BY <1>3, <2>1, <2>2 DEF Fetch
<1>4. CASE FailFetch
  <2>1. Range(requested') = Range(requested) \cup {cursor}
    BY <1>4, AppendRange DEF FailFetch, TypeOK
  <2>2. IsInjective(requested')
    BY <1>4, AppendInjective DEF FailFetch, TypeOK
  <2> QED
    BY <1>4, <2>1, <2>2 DEF FailFetch
<1>5. CASE TurnPage
  <2>1. link[page] \in Cursors /\ link[page] # First /\ link[page] \notin Range(requested)
    BY <1>5, CursorsAssumption DEF TurnPage, TypeOK
  <2> QED
    BY <1>5, <2>1 DEF TurnPage
<1>6. CASE Relink \/ UNCHANGED vars
  BY <1>6 DEF Relink, vars
<1> QED
  BY <1>1, <1>2, <1>3, <1>4, <1>5, <1>6 DEF Next, GeneratorStep, Done

(* No page is requested twice, however the server links its pages and      *)
(* however often it relinks them.                                          *)
THEOREM RequestsEachPageOnce == Spec => []NoPageTwice
<1>1. Init => TypeOK /\ WalkInv
  BY WalkInit, PagesAssumption DEF Init, TypeOK, Pages
<1>2. TypeOK /\ WalkInv /\ [Next]_vars => (TypeOK /\ WalkInv)'
  BY StepTypeOK, WalkStep
<1>3. WalkInv => NoPageTwice
  BY DEF WalkInv, NoPageTwice
<1> QED
  BY <1>1, <1>2, <1>3, PTL DEF Spec

-----------------------------------------------------------------------------
(* The page in hand is the last one asked for; its first taken items, and  *)
(* all items of every earlier page, are what the consumer has had.         *)
InHand == pc \in {"items", "turn"} \/ (pc = "suspended" /\ requested # <<>>)

Due(p) == IF InHand /\ p = page THEN {Item(p, k) : k \in 1 .. taken} ELSE ItemsOf(p)

ItemInv ==
    /\ IsInjective(yielded)
    /\ pc \in {"items", "turn"} => requested # <<>>
    /\ InHand => page \in Range(requested) /\ taken <= PageSize[page]
    /\ pc = "turn" => taken = PageSize[page]
    /\ pc # "done" => Range(yielded) = UNION {Due(p) : p \in Range(requested)}

LEMMA ItemInit == Init => ItemInv
  BY DEF Init, ItemInv, InHand, Range, IsInjective

LEMMA ItemStep == TypeOK /\ WalkInv /\ ItemInv /\ [Next]_vars => ItemInv'
<1> SUFFICES ASSUME TypeOK, WalkInv, ItemInv, [Next]_vars PROVE ItemInv'
  OBVIOUS
<1>1. CASE Pull
  <2>1. InHand' <=> InHand
    BY <1>1 DEF Pull, InHand
  <2>2. \A p \in Range(requested) : Due(p)' = Due(p)
    BY <1>1, <2>1 DEF Pull, Due, ItemsOf
  <2> QED
    BY <1>1, <2>1, <2>2 DEF Pull, ItemInv
<1>2. CASE Abandon \/ RejectCycle \/ Exhaust
  BY <1>2 DEF Abandon, RejectCycle, Exhaust, Finish, ItemInv, InHand
<1>3. CASE Fetch
  <2>1. Range(requested') = Range(requested) \cup {cursor}
    BY <1>3, AppendRange DEF Fetch, TypeOK
  <2>2. requested' # <<>>
    BY <2>1 DEF Range
  <2>3. InHand' /\ ~InHand /\ cursor \notin Range(requested) /\ PageSize[cursor] \in Nat
    BY <1>3, PagesAssumption DEF Fetch, InHand, WalkInv, TypeOK
  <2>4. Due(cursor)' = {}
    BY <1>3, <2>3 DEF Fetch, Due
  <2>5. \A p \in Range(requested) : Due(p)' = Due(p)
    BY <1>3, <2>3 DEF Fetch, Due, ItemsOf
  <2>6. Range(yielded') = UNION {Due(p)' : p \in Range(requested')}
    BY <1>3, <2>1, <2>4, <2>5 DEF Fetch, ItemInv
  <2> QED
    BY <1>3, <2>2, <2>1, <2>3, <2>6 DEF Fetch, ItemInv
<1>4. CASE FailFetch
  BY <1>4 DEF FailFetch, Finish, ItemInv, InHand
<1>5. CASE YieldItem
  <2>1. requested # <<>> /\ InHand /\ InHand' /\ page \in Range(requested)
    BY <1>5 DEF YieldItem, ItemInv, InHand
  <2>2. page \in Pages /\ taken \in Nat /\ PageSize[page] \in Nat
    BY PagesAssumption DEF TypeOK
  <2> DEFINE x == Item(page, taken + 1)
  <2>3. x \notin Range(yielded)
    <3>1. \A p \in Range(requested) : x \notin Due(p)
      BY <2>1, <2>2 DEF Due, Item, ItemsOf
    <3> QED
      BY <1>5, <3>1 DEF YieldItem, ItemInv
  <2>4. yielded' = Append(yielded, x) /\ x \in Pages \X Nat
    BY <1>5, <2>2 DEF YieldItem, Item
  <2>5. Range(yielded') = Range(yielded) \cup {x} /\ IsInjective(yielded')
    BY <2>3, <2>4, AppendRange, AppendInjective DEF TypeOK, ItemInv
  <2>6. Due(page)' = Due(page) \cup {x}
    <3>1. 1 .. taken + 1 = (1 .. taken) \cup {taken + 1}
      BY <2>2
    <3> QED
      BY <1>5, <2>1, <3>1 DEF YieldItem, Due, Item
  <2>7. \A p \in Range(requested) : p # page => Due(p)' = Due(p)
    BY <1>5, <2>1 DEF YieldItem, Due, ItemsOf
  <2>8. Range(yielded') = UNION {Due(p)' : p \in Range(requested')}
    BY <1>5, <2>1, <2>5, <2>6, <2>7 DEF YieldItem, ItemInv
  <2> QED
    BY <1>5, <2>1, <2>2, <2>5, <2>8 DEF YieldItem, ItemInv
<1>6. CASE LastItemTaken
  <2>1. InHand /\ InHand'
    BY <1>6 DEF LastItemTaken, InHand
  <2>2. \A p \in Range(requested) : Due(p)' = Due(p)
    BY <1>6, <2>1 DEF LastItemTaken, Due, ItemsOf
  <2> QED
    BY <1>6, <2>1, <2>2 DEF LastItemTaken, ItemInv
<1>7. CASE TurnPage
  <2>1. InHand /\ ~InHand'
    BY <1>7 DEF TurnPage, InHand
  <2>2. \A p \in Range(requested) : Due(p)' = Due(p)
    BY <1>7, <2>1 DEF TurnPage, Due, ItemsOf, ItemInv
  <2> QED
    BY <1>7, <2>1, <2>2 DEF TurnPage, ItemInv
<1>8. CASE Relink \/ UNCHANGED vars
  <2>1. InHand' <=> InHand
    BY <1>8 DEF Relink, genVars, vars, InHand
  <2>2. \A p \in Range(requested) : Due(p)' = Due(p)
    BY <1>8, <2>1 DEF Relink, genVars, vars, Due, ItemsOf
  <2> QED
    BY <1>8, <2>1, <2>2 DEF Relink, genVars, vars, ItemInv
<1> QED
  BY <1>1, <1>2, <1>3, <1>4, <1>5, <1>6, <1>7, <1>8 DEF Next, GeneratorStep, Done

LEMMA ItemInvariance == Spec => [](TypeOK /\ WalkInv /\ ItemInv)
<1>1. Init => TypeOK /\ WalkInv /\ ItemInv
  BY WalkInit, ItemInit, PagesAssumption DEF Init, TypeOK, Pages
<1>2. TypeOK /\ WalkInv /\ ItemInv /\ [Next]_vars => (TypeOK /\ WalkInv /\ ItemInv)'
  BY StepTypeOK, WalkStep, ItemStep
<1> QED
  BY <1>1, <1>2, PTL DEF Spec

(* No item is yielded twice.                                               *)
THEOREM YieldsEachItemOnce == Spec => []NoItemTwice
<1>1. ItemInv => NoItemTwice
  BY DEF ItemInv, NoItemTwice
<1> QED
  BY <1>1, ItemInvariance, PTL

(* Whenever the generator asks for a page, every item of every page before *)
(* it has been yielded, and nothing else.                                  *)
THEOREM SkipsNothing == Spec => []NothingSkipped
<1>1. ItemInv => NothingSkipped
  <2> SUFFICES ASSUME ItemInv, pc \in {"turn", "fetch"}
               PROVE  Range(yielded) = UNION {ItemsOf(p) : p \in Range(requested)}
    BY DEF NothingSkipped
  <2>1. \A p \in Range(requested) : Due(p) = ItemsOf(p)
    BY DEF ItemInv, Due, InHand, ItemsOf
  <2> QED
    BY <2>1 DEF ItemInv
<1> QED
  BY <1>1, ItemInvariance, PTL

-----------------------------------------------------------------------------
(* On a collection that stands still the pages walked are linked to each   *)
(* other, but for the page in hand and the page that is asked for next.    *)
Linked(p) ==
    \/ link[p] \in Range(requested)
    \/ InHand /\ p = page
    \/ pc = "fetch" /\ link[p] = cursor

LinkInv ==
    /\ outcome = "pending" <=> pc # "done"
    /\ requested = <<>> => cursor = start /\ seen \subseteq {start}
    /\ requested # <<>> => start \in Range(requested)
    /\ InHand => seen \subseteq Range(requested)
    /\ pc = "fetch" => seen \subseteq Range(requested) \cup {cursor}
    /\ pc # "done" /\ relinks = 0 => \A p \in Range(requested) : Linked(p)
    /\ ExhaustsTheCollection
    /\ RejectsOnlyCycles

LEMMA LinkInit == Init => LinkInv
  BY DEF Init, LinkInv, InHand, Range, ExhaustsTheCollection, RejectsOnlyCycles

LEMMA LinkStep == TypeOK /\ WalkInv /\ ItemInv /\ LinkInv /\ [Next]_vars => LinkInv'
<1> SUFFICES ASSUME TypeOK, WalkInv, ItemInv, LinkInv, [Next]_vars PROVE LinkInv'
  OBVIOUS
<1> USE DEF LinkInv
<1>1. CASE Pull
  <2>1. requested = <<>> => Range(requested) = {}
    BY DEF Range
  <2> QED
    BY <1>1, <2>1 DEF Pull, InHand, Linked, ExhaustsTheCollection, RejectsOnlyCycles
<1>2. CASE Abandon
  BY <1>2 DEF Abandon, InHand, ExhaustsTheCollection, RejectsOnlyCycles
<1>3. CASE Fetch
  <2>1. Range(requested') = Range(requested) \cup {cursor}
    BY <1>3, AppendRange DEF Fetch, TypeOK
  <2>2. requested' # <<>>
    BY <2>1 DEF Range
  <2>3. InHand' /\ ~InHand /\ outcome = "pending" /\ outcome' = "pending"
    BY <1>3 DEF Fetch, InHand
  <2>4. relinks' = 0 => \A p \in Range(requested') : Linked(p)'
    BY <1>3, <2>1, <2>3 DEF Fetch, Linked
  <2>5. ExhaustsTheCollection' /\ RejectsOnlyCycles'
    BY <2>3 DEF ExhaustsTheCollection, RejectsOnlyCycles
  <2> QED
    BY <1>3, <2>2, <2>1, <2>3, <2>4, <2>5 DEF Fetch
<1>4. CASE FailFetch
  <2>1. Range(requested') = Range(requested) \cup {cursor}
    BY <1>4, AppendRange DEF FailFetch, TypeOK
  <2>2. requested' # <<>>
    BY <2>1 DEF Range
  <2> QED
    BY <1>4, <2>2, <2>1 DEF FailFetch, Finish, InHand, ExhaustsTheCollection, RejectsOnlyCycles
<1>5. CASE YieldItem
  <2>1. requested # <<>>
    BY <1>5 DEF YieldItem, ItemInv
  <2> QED
    BY <1>5, <2>1 DEF YieldItem, InHand, Linked, ExhaustsTheCollection, RejectsOnlyCycles
<1>6. CASE LastItemTaken
  BY <1>6 DEF LastItemTaken, InHand, Linked, ExhaustsTheCollection, RejectsOnlyCycles
<1>7. ASSUME pc = "turn" PROVE Range(yielded) = UNION {ItemsOf(p) : p \in Range(requested)}
  <2>1. \A p \in Range(requested) : Due(p) = ItemsOf(p)
    BY <1>7 DEF ItemInv, Due, InHand, ItemsOf
  <2> QED
    BY <1>7, <2>1 DEF ItemInv
<1>8. CASE RejectCycle
  <2>1. InHand /\ page \in Range(requested) /\ requested # <<>>
    BY <1>8 DEF RejectCycle, InHand, ItemInv
  <2>2. relinks = 0 => \A p \in Range(requested) : link[p] \in Range(requested)
    BY <1>8, <2>1 DEF RejectCycle, Linked
  <2>3. RejectsOnlyCycles'
    BY <1>7, <1>8, <2>2 DEF RejectCycle, RejectsOnlyCycles, ItemsOf
  <2>4. ExhaustsTheCollection'
    BY <1>8 DEF RejectCycle, Finish, ExhaustsTheCollection
  <2> QED
    BY <1>8, <2>1, <2>3, <2>4 DEF RejectCycle, Finish, InHand
<1>9. CASE Exhaust
  <2>1. InHand /\ page \in Range(requested) /\ requested # <<>>
    BY <1>9 DEF Exhaust, InHand, ItemInv
  <2>2. relinks = 0 => \A p \in Range(requested) : link[p] \in Range(requested) \cup {None}
    BY <1>9, <2>1 DEF Exhaust, Linked
  <2>3. ExhaustsTheCollection'
    BY <1>7, <1>9, <2>1, <2>2 DEF Exhaust, ExhaustsTheCollection, ItemsOf
  <2>4. RejectsOnlyCycles'
    BY <1>9 DEF Exhaust, Finish, RejectsOnlyCycles
  <2> QED
    BY <1>9, <2>1, <2>3, <2>4 DEF Exhaust, Finish, InHand
<1>10. CASE TurnPage
  <2>1. requested # <<>> /\ InHand /\ ~InHand'
    BY <1>10 DEF TurnPage, ItemInv, InHand
  <2>2. relinks' = 0 => \A p \in Range(requested') : Linked(p)'
    BY <1>10, <2>1 DEF TurnPage, Linked
  <2>3. ExhaustsTheCollection' /\ RejectsOnlyCycles'
    BY <1>10 DEF TurnPage, ExhaustsTheCollection, RejectsOnlyCycles
  <2> QED
    BY <1>10, <2>1, <2>2, <2>3 DEF TurnPage
<1>11. CASE Relink
  <2>1. relinks' # 0
    BY <1>11, PagesAssumption DEF Relink, TypeOK
  <2> QED
    BY <1>11, <2>1 DEF Relink, genVars, InHand, ExhaustsTheCollection, RejectsOnlyCycles
<1>12. CASE UNCHANGED vars
  BY <1>12 DEF vars, InHand, Linked, ExhaustsTheCollection, RejectsOnlyCycles, ItemsOf
<1> QED
  BY <1>1, <1>2, <1>3, <1>4, <1>5, <1>6, <1>8, <1>9, <1>10, <1>11, <1>12
     DEF Next, GeneratorStep, Done

LEMMA LinkInvariance == Spec => []LinkInv
<1>1. Init => LinkInv
  BY LinkInit
<1>2. TypeOK /\ WalkInv /\ ItemInv /\ LinkInv /\ [Next]_vars => LinkInv'
  BY LinkStep
<1> QED
  BY <1>1, <1>2, ItemInvariance, PTL DEF Spec

(* An iteration that ends has walked the links to their end from where it  *)
(* started, and yielded every item it passed.                              *)
THEOREM ExhaustsWhatIsThere == Spec => []ExhaustsTheCollection
<1>1. LinkInv => ExhaustsTheCollection
  BY DEF LinkInv
<1> QED
  BY <1>1, LinkInvariance, PTL

(* An iteration is rejected only if the links of the pages never end.      *)
THEOREM RejectsCyclesOnly == Spec => []RejectsOnlyCycles
<1>1. LinkInv => RejectsOnlyCycles
  BY DEF LinkInv
<1> QED
  BY <1>1, LinkInvariance, PTL
===============================================================================
