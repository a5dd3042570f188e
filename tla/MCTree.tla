------------------------------- MODULE MCTree -------------------------------
(***************************************************************************)
(* Instances of JsonTree. The number of a block means nothing to the code, *)
(* so that states are told apart by the shape of the trees alone.          *)
(***************************************************************************)
EXTENDS JsonTree, SequencesExt

App(names, items, uses) == [names |-> names, items |-> items, uses |-> uses]
MCApplications ==
  {App(Names, 3, {"references"}), App(Names, 4, {}), App({}, 4, {"references"}), App({}, 6, {})}
MCLowerName == [n \in Names |-> 1]

\* The items below is[n] .. is[Len(is)], parents first; what a reference shows is not its own.
RECURSIVE Numbered(_, _)
Numbered(is, n) ==
  IF n > Len(is) THEN <<>>
  ELSE <<is[n]>> \o (IF heap.item[is[n]].ref THEN <<>> ELSE Numbered(Kids(heap, is[n]), 1))
         \o Numbered(is, n + 1)

\* The state with its items numbered anew, the largest tree first.
TreeView ==
  LET Size(i) == Cardinality(Below(heap, i))
      trees == SetToSortSeq(held, LAMBDA i, j : Size(i) > Size(j) \/ (Size(i) = Size(j) /\ i < j))
      owned == Numbered(trees, 1)
      all == owned \o SetToSeq(Used(heap) \ ToSet(owned))
      Number(i) == IF i = Null THEN Null ELSE CHOOSE n \in DOMAIN all : all[n] = i
      View(i) == [heap.item[i] EXCEPT !.next = Number(@), !.prev = Number(@),
                                      !.child = Number(@)]
  IN <<app, [n \in DOMAIN all |-> View(all[n])], heap.strings, {Number(i) : i \in held}>>
=============================================================================
