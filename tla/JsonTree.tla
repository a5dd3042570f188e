------------------------------ MODULE JsonTree ------------------------------
(***************************************************************************)
(* The items of cJSON.c as linked blocks of memory: an item points to its  *)
(* first child; next chains the children, prev goes back, and the first    *)
(* child's prev is the last. Any allocation may fail. The application      *)
(* holds the items that are in no list, and frees them with cJSON_Delete.  *)
(***************************************************************************)
EXTENDS Integers, Sequences, FiniteSets
LOCAL INSTANCE SequencesExt

CONSTANTS
  Items,       \* the blocks there are for items, 1 .. n
  Names,       \* keys of members, numbered from 1
  LowerName,   \* the name without regard to case
  Kinds,       \* types of new items, of "array", "object", "string", "null"
  Allocations, \* how many allocations succeed before one fails in a call
  Applications \* kinds of applications: the keys it uses, the bound on its items (a call
               \* that leaves more is not made), and whether it makes references,
               \* "references", and of which the key may fail to be copied, "referenceFails"

ASSUME ApplicationsAssumption ==
  Applications \subseteq [names : SUBSET Names, items : Nat,
                         uses : SUBSET {"references", "referenceFails"}]

Null == 0

VARIABLES
  app,    \* the kind of the application, which stays
  heap,   \* the items, the number of strings allocated, and the allocations left
  held    \* the items the application has to free

jvars == <<app, heap, held>>

FreeItem == [kind |-> "free", ref |-> FALSE, const |-> FALSE, string |-> Null,
             next |-> Null, prev |-> Null, child |-> Null]
Used(h) == {i \in Items : h.item[i].kind # "free"}
Set(h, i, field, value) == [h EXCEPT !.item[i][field] = value]
Child(h, i) == h.item[i].child
Next(h, i) == h.item[i].next
Prev(h, i) == h.item[i].prev

\* A call that returns an item or NULL, or whether it succeeded.
Returns(h, result) == [heap |-> h, result |-> result]
\* malloc, for a string.
cJSON_strdup(h) ==
  IF h.left = 0 THEN Returns(h, FALSE)
  ELSE Returns([h EXCEPT !.left = @ - 1, !.strings = @ + 1], TRUE)
cJSON_New_Item(h, kind) ==
  IF h.left = 0 \/ Used(h) = Items THEN Returns(h, Null)
  ELSE LET i == CHOOSE i \in Items \ Used(h) : \A j \in Items \ Used(h) : i <= j
       IN Returns([h EXCEPT !.left = @ - 1, !.item[i] = [FreeItem EXCEPT !.kind = kind]], i)

\* Strings are freed with the item, unless they belong to somebody else.
FreeStrings(h, i) ==
  [h EXCEPT !.strings = @ - (IF h.item[i].kind = "string" /\ ~h.item[i].ref THEN 1 ELSE 0)
                          - (IF h.item[i].string # Null /\ ~h.item[i].const THEN 1 ELSE 0)]
RECURSIVE cJSON_Delete(_, _)
cJSON_Delete(h, i) ==
  IF i = Null THEN h
  ELSE LET below == IF h.item[i].ref THEN h ELSE cJSON_Delete(h, Child(h, i))
       IN cJSON_Delete([FreeStrings(below, i) EXCEPT !.item[i] = FreeItem], Next(h, i))

-----------------------------------------------------------------------------
\* The children of an item, as its list shows them.
RECURSIVE Chain(_, _)
Chain(h, i) == IF i = Null THEN <<>> ELSE <<i>> \o Chain(h, Next(h, i))
Kids(h, i) == Chain(h, Child(h, i))

get_array_item(h, a, index) ==
  IF index < Len(Kids(h, a)) THEN Kids(h, a)[index + 1] ELSE Null
\* A member without a name ends the search with regard to case.
get_object_item(h, o, name, caseSensitive) ==
  LET Hit(i) == IF caseSensitive THEN h.item[i].string \in {name, Null}
                ELSE h.item[i].string # Null /\ LowerName[h.item[i].string] = LowerName[name]
      hits == SelectSeq(Kids(h, o), Hit)
  IN IF hits = <<>> \/ h.item[hits[1]].string = Null THEN Null ELSE hits[1]

suffix_object(h, prev, i) == Set(Set(h, prev, "next", i), i, "prev", prev)

add_item_to_array(h, a, i) ==
  LET first == Child(h, a)
  IN IF i = Null \/ i = a THEN Returns(h, FALSE)
     ELSE IF first = Null
       THEN Returns(Set(Set(Set(h, a, "child", i), i, "prev", i), i, "next", Null), TRUE)
     ELSE IF Prev(h, first) # Null
       THEN Returns(Set(suffix_object(h, Prev(h, first), i), first, "prev", i), TRUE)
     ELSE Returns(h, TRUE)

\* The item gets a key of its own, or the caller's constant; an old key is freed.
Rename(h, i, name, const) ==
  [h EXCEPT !.strings = @ - (IF h.item[i].string # Null /\ ~h.item[i].const THEN 1 ELSE 0),
            !.item[i].string = name, !.item[i].const = const]
add_item_to_object(h, o, name, i, const) ==
  LET key == IF const THEN Returns(h, TRUE) ELSE cJSON_strdup(h)
  IN IF i = Null \/ i = o \/ ~key.result THEN Returns(h, FALSE)
     ELSE add_item_to_array(Rename(key.heap, i, name, const), o, i)

create_reference(h, i) ==
  LET r == cJSON_New_Item(h, "null")
  IN IF r.result = Null THEN r
     ELSE Returns([r.heap EXCEPT !.item[r.result] =
            [h.item[i] EXCEPT !.string = Null, !.ref = TRUE, !.next = Null, !.prev = Null]],
            r.result)
\* What add_item_to_object was given when it fails: NULL, or a reference nobody holds.
AddItemReferenceToArray(h, a, i) ==
  LET r == create_reference(h, i) IN add_item_to_array(r.heap, a, r.result)
AddItemReferenceToObject(h, o, name, i) ==
  LET r == create_reference(h, i)
      added == add_item_to_object(r.heap, o, name, r.result, FALSE)
  IN IF r.result = Null THEN Returns(r.heap, FALSE) ELSE added

DetachItemViaPointer_KeepsLast(h, p, i) ==
  LET h1 == IF i # Child(h, p) THEN Set(h, Prev(h, i), "next", Next(h, i)) ELSE h
      h2 == IF Next(h1, i) # Null THEN Set(h1, Next(h1, i), "prev", Prev(h1, i)) ELSE h1
      h3 == IF i = Child(h2, p) THEN Set(h2, p, "child", Next(h2, i)) ELSE h2
  IN IF i = Null THEN h ELSE Set(Set(h3, i, "prev", Null), i, "next", Null)
DetachItemViaPointer(h, p, i) ==
  LET h1 == IF i # Child(h, p) THEN Set(h, Prev(h, i), "next", Next(h, i)) ELSE h
      h2 == IF Next(h1, i) # Null THEN Set(h1, Next(h1, i), "prev", Prev(h1, i)) ELSE h1
      h3 == IF i = Child(h2, p) THEN Set(h2, p, "child", Next(h2, i))
            ELSE IF Next(h2, i) = Null THEN Set(h2, Child(h2, p), "prev", Prev(h2, i)) ELSE h2
  IN IF i = Null THEN h ELSE Set(Set(h3, i, "prev", Null), i, "next", Null)

InsertItemInArray_Behind(h, a, which, i) ==
  LET after == get_array_item(h, a, which + 1)
      h1 == Set(Set(Set(h, i, "next", after), i, "prev", Prev(h, after)), after, "prev", i)
  IN IF after = Null THEN add_item_to_array(h, a, i)
     ELSE Returns(Set(h1, Prev(h1, i), "next", i), TRUE)
InsertItemInArray(h, a, which, i) ==
  LET after == get_array_item(h, a, which)
      h1 == Set(Set(Set(h, i, "next", after), i, "prev", Prev(h, after)), after, "prev", i)
  IN IF after = Null THEN add_item_to_array(h, a, i)
     ELSE IF after = Child(h1, a) THEN Returns(Set(h1, a, "child", i), TRUE)
     ELSE Returns(Set(h1, Prev(h1, i), "next", i), TRUE)

ReplaceItemViaPointer(h, p, i, r) ==
  LET h1 == Set(Set(h, r, "next", Next(h, i)), r, "prev", Prev(h, i))
      h2 == IF Next(h1, r) # Null THEN Set(h1, Next(h1, r), "prev", r) ELSE h1
      alone == Prev(h2, Child(h2, p)) = Child(h2, p)
      h3 == IF Child(h2, p) = i
              THEN Set(IF alone THEN Set(h2, r, "prev", r) ELSE h2, p, "child", r)
            ELSE LET linked == IF Prev(h2, r) # Null THEN Set(h2, Prev(h2, r), "next", r) ELSE h2
                 IN IF Next(linked, r) = Null
                      THEN Set(linked, Child(linked, p), "prev", r) ELSE linked
  IN IF i = Null THEN Returns(h, FALSE)
     ELSE IF r = i THEN Returns(h, TRUE)
     ELSE Returns(cJSON_Delete(Set(Set(h3, i, "next", Null), i, "prev", Null), i), TRUE)

\* The key changes before the member is looked for, whether there is one or not.
replace_item_in_object(h, o, name, r, caseSensitive) ==
  LET nameless == Rename(h, r, Null, h.item[r].const)
      key == cJSON_strdup(nameless)
      named == [key.heap EXCEPT !.item[r].string = name, !.item[r].const = FALSE]
  IN IF ~key.result THEN Returns(nameless, FALSE)
     ELSE ReplaceItemViaPointer(named, o, get_object_item(named, o, name, caseSensitive), r)

\* An item and the string it needs, or NULL with nothing left behind.
Create(h, kind) ==
  LET new == cJSON_New_Item(h, kind)
      value == cJSON_strdup(new.heap)
  IN IF new.result = Null \/ kind # "string" THEN new
     ELSE IF value.result THEN Returns(value.heap, new.result)
     ELSE Returns([value.heap EXCEPT !.item[new.result] = FreeItem], Null)

\* cJSON_CreateIntArray and the like: the items one after the other.
CreateArray(h, kind, count) ==
  LET a == Create(h, "array")
      \* after n items: the heap, the last of them and whether all were made
      Make[n \in 0 .. count] ==
        IF n = 0 THEN [heap |-> a.heap, p |-> Null, ok |-> TRUE]
        ELSE LET before == Make[n - 1]
                 i == Create(before.heap, kind)
             IN IF ~before.ok THEN before
                ELSE IF i.result = Null
                  THEN [heap |-> i.heap, p |-> before.p, ok |-> FALSE]
                ELSE [heap |-> IF n = 1 THEN Set(i.heap, a.result, "child", i.result)
                               ELSE suffix_object(i.heap, before.p, i.result),
                      p |-> i.result, ok |-> TRUE]
      all == Make[count]
  IN IF a.result = Null THEN a
     ELSE IF ~all.ok THEN Returns(cJSON_Delete(all.heap, a.result), Null)
     ELSE Returns(IF count = 0 THEN all.heap
                  ELSE Set(all.heap, Child(all.heap, a.result), "prev", all.p), a.result)

\* cJSON_Duplicate: a reference becomes an item with children of its own; a key that
\* is a constant stays the same constant.
RECURSIVE cJSON_Duplicate(_, _, _)
cJSON_Duplicate(h, i, recurse) ==
  LET item == h.item[i]
      new == cJSON_New_Item(h, item.kind)
      n == new.result
      value == IF item.kind = "string" THEN cJSON_strdup(new.heap) ELSE Returns(new.heap, TRUE)
      valueless == [new.heap EXCEPT !.item[n] = FreeItem]
      own == item.string # Null /\ ~item.const
      key == IF own THEN cJSON_strdup(value.heap) ELSE Returns(value.heap, TRUE)
      fresh == [key.heap EXCEPT !.item[n].const = item.const,
                                !.item[n].string = IF key.result THEN item.string ELSE Null]
      kids == Kids(h, i)
      Copy[k \in 0 .. Len(kids)] ==
        IF k = 0 THEN [heap |-> fresh, p |-> Null, ok |-> TRUE]
        ELSE LET before == Copy[k - 1]
                 copy == cJSON_Duplicate(before.heap, kids[k], TRUE)
             IN IF ~before.ok THEN before
                ELSE IF copy.result = Null THEN [before EXCEPT !.heap = copy.heap, !.ok = FALSE]
                ELSE [heap |-> IF k = 1 THEN Set(copy.heap, n, "child", copy.result)
                               ELSE suffix_object(copy.heap, before.p, copy.result),
                      p |-> copy.result, ok |-> TRUE]
      all == Copy[Len(kids)]
  IN IF n = Null THEN new
     ELSE IF ~value.result THEN Returns(valueless, Null)
     ELSE IF ~key.result THEN Returns(cJSON_Delete(fresh, n), Null)
     ELSE IF ~recurse THEN Returns(fresh, n)
     ELSE IF ~all.ok THEN Returns(cJSON_Delete(all.heap, n), Null)
     ELSE Returns(IF kids = <<>> THEN all.heap
                  ELSE Set(all.heap, Child(all.heap, n), "prev", all.p), n)

-----------------------------------------------------------------------------
(***************************************************************************)
(* The calls of an application that keeps to the rules: an item is in one  *)
(* list or held, no item comes to stand below itself, and a list that a    *)
(* reference shows is neither changed nor deleted before the reference is. *)
(***************************************************************************)
RECURSIVE Below(_, _)
Below(h, i) == {i} \cup UNION {Below(h, k) : k \in ToSet(Kids(h, i))}
Shown(h) == {Child(h, r) : r \in {i \in Used(h) : h.item[i].ref}} \ {Null}
Containers(h) ==
  {a \in Used(h) : /\ h.item[a].kind \in {"array", "object"} /\ ~h.item[a].ref
                   /\ Child(h, a) \notin Shown(h)}
Owned(h) == {i \in Used(h) : ~h.item[i].ref}

\* The heap in front of a call that has memory for so many allocations.
With(memory) == [heap EXCEPT !.left = memory]
Left(h) == Cardinality(Used(h)) <= app.items /\ heap' = [h EXCEPT !.left = 0]
Whole(h) == Shown(h) \subseteq Used(h)
Freed(h) == Left(h) /\ Whole(h)

JsonInit ==
  /\ app \in Applications
  /\ heap = [item |-> [i \in Items |-> FreeItem], strings |-> 0, left |-> 0]
  /\ held = {}

\* cJSON_Create*, also of references to a string or to the children of an item.
New(memory) ==
  \/ \E kind \in Kinds :
       LET c == Create(With(memory), kind)
       IN Left(c.heap) /\ held' = held \cup ({c.result} \ {Null})
  \/ \E kind \in Kinds \ {"array", "object"}, count \in 0 .. 2 :
       LET c == CreateArray(With(memory), kind, count)
       IN Left(c.heap) /\ held' = held \cup ({c.result} \ {Null})
  \/ LET c == cJSON_New_Item(With(memory), "string")
     IN /\ "references" \in app.uses
        /\ Left(IF c.result = Null THEN c.heap ELSE Set(c.heap, c.result, "ref", TRUE))
        /\ held' = held \cup ({c.result} \ {Null})
  \/ \E kind \in {"array", "object"} : \E p \in Owned(heap) :
       LET c == cJSON_New_Item(With(memory), kind)
           i == c.result
       IN /\ "references" \in app.uses /\ Child(heap, p) # Null
          /\ Left(IF i = Null THEN c.heap
                  ELSE Set(Set(c.heap, i, "ref", TRUE), i, "child", Child(heap, p)))
          /\ held' = held \cup ({i} \ {Null})

\* cJSON_AddItemToArray, cJSON_InsertItemInArray; cJSON_AddItemToObject and ...CS.
Taken(r, i) == Left(r.heap) /\ held' = IF r.result THEN held \ {i} ELSE held
Add(a, i) ==
  \/ /\ a = i \/ a \notin Below(heap, i)
     /\ Taken(add_item_to_array(heap, a, i), i)
  \/ /\ a \notin Below(heap, i)
     /\ \E which \in 0 .. Len(Kids(heap, a)) : Taken(InsertItemInArray(heap, a, which, i), i)
AddToObject(o, i, memory) ==
  /\ o = i \/ o \notin Below(heap, i)
  /\ \E name \in app.names, const \in BOOLEAN :
       Taken(add_item_to_object(With(memory), o, name, i, const), i)

\* cJSON_AddItemReferenceToArray and ...ToObject; what is shown may be empty.
AddReference(a, i, memory) ==
  /\ "references" \in app.uses /\ a \notin Below(heap, i)
  /\ \/ Left(AddItemReferenceToArray(With(memory), a, i).heap)
     \/ \E name \in app.names :
          /\ memory # 1 \/ "referenceFails" \in app.uses
          /\ Left(AddItemReferenceToObject(With(memory), a, name, i).heap)
  /\ UNCHANGED held

\* cJSON_AddNullToObject and the like: an item nobody took is deleted.
AddNewToObject(o, name, kind, memory) ==
  LET new == Create(With(memory), kind)
      added == add_item_to_object(new.heap, o, name, new.result, FALSE)
  IN /\ Left(IF added.result THEN added.heap ELSE cJSON_Delete(added.heap, new.result))
     /\ UNCHANGED held

\* cJSON_DetachItem*: by place or by name; nothing happens when there is no such item.
Detach(p, i) == Left(DetachItemViaPointer(heap, p, i)) /\ held' = held \cup ({i} \ {Null})
\* cJSON_DeleteItem*.
DeleteItem(p, i) ==
  /\ Freed(cJSON_Delete(DetachItemViaPointer(heap, p, i), i)) /\ UNCHANGED held
Chosen(p) ==
  {get_array_item(heap, p, n) : n \in 0 .. Len(Kids(heap, p))}
    \cup {get_object_item(heap, p, name, c) : name \in app.names, c \in BOOLEAN}

\* cJSON_ReplaceItemInArray and ...ViaPointer, cJSON_ReplaceItemInObject*.
Replaced(a, r) == Whole(a.heap) /\ Taken(a, r)
Replace(p, r) ==
  /\ p \notin Below(heap, r)
  /\ \E n \in 0 .. Len(Kids(heap, p)) :
       Replaced(ReplaceItemViaPointer(heap, p, get_array_item(heap, p, n), r), r)
ReplaceInObject(o, r, memory) ==
  /\ o \notin Below(heap, r)
  /\ \E name \in app.names, c \in BOOLEAN :
       Replaced(replace_item_in_object(With(memory), o, name, r, c), r)

Duplicate(i, recurse, memory) ==
  LET d == cJSON_Duplicate(With(memory), i, recurse)
  IN Left(d.heap) /\ held' = held \cup ({d.result} \ {Null})

Delete(i) == Freed(cJSON_Delete(heap, i)) /\ held' = held \ {i}

JsonNext ==
  /\ UNCHANGED app
  /\ \/ \E memory \in Allocations :
          \/ New(memory)
          \/ \E a \in Containers(heap) :
               \/ \E i \in held : AddToObject(a, i, memory) \/ ReplaceInObject(a, i, memory)
               \/ \E i \in Used(heap) : AddReference(a, i, memory)
               \/ \E name \in app.names, kind \in Kinds :
                    AddNewToObject(a, name, kind, memory)
          \/ \E i \in Used(heap), recurse \in BOOLEAN : Duplicate(i, recurse, memory)
     \/ \E p \in Containers(heap) :
          \/ \E i \in held : Add(p, i) \/ Replace(p, i)
          \/ \E i \in Chosen(p) : Detach(p, i) \/ DeleteItem(p, i)
     \/ \E i \in held : Delete(i)

JsonSpec == JsonInit /\ [][JsonNext]_jvars

-----------------------------------------------------------------------------
\* Every list is linked both ways and its first item knows the last one, after any
\* series of calls; what the application holds is in no list.
Linked(h, i) ==
  LET k == Kids(h, i)
  IN \A n \in DOMAIN k : Prev(h, k[n]) = IF n = 1 THEN k[Len(k)] ELSE k[n - 1]
Single(h, i) == Next(h, i) = Null /\ Prev(h, i) = Null
ListsLinked ==
  /\ \A i \in Owned(heap) : Linked(heap, i)
  /\ \A i \in held : Single(heap, i)

\* Every item has exactly one owner, the list it is in or the application, and every
\* string exactly one item, also when an allocation in the middle of a call failed:
\* nothing is lost, freed twice or still pointed to after it was freed.
OwnedOnce ==
  LET Keyed == {i \in Used(heap) : heap.item[i].string # Null /\ ~heap.item[i].const}
      Valued == {i \in Owned(heap) : heap.item[i].kind = "string"}
  IN /\ held \subseteq Used(heap)
     /\ \A i \in Used(heap) :
          Cardinality({p \in Owned(heap) : i \in ToSet(Kids(heap, p))})
            = IF i \in held THEN 0 ELSE 1
     /\ heap.strings = Cardinality(Keyed) + Cardinality(Valued)

TreeSound == ListsLinked /\ OwnedOnce

\* The calls do to the list of children what their names say, at the first, the last
\* and every other place, and leave it linked both ways; the item they take out is in no
\* list. A copy has the shape of its original, links and all, or leaves no trace.
RECURSIVE Shape(_, _)
Shape(h, i) == <<h.item[i].kind, h.item[i].string,
                 [n \in DOMAIN Kids(h, i) |-> Shape(h, Kids(h, i)[n])]>>
ListOperations ==
  /\ \A a \in Containers(heap) :
       LET k == Kids(heap, a)
           Leaves(h, list) == Kids(h, a) = list /\ Linked(h, a)
       IN /\ \A n \in DOMAIN k :
               LET h == DetachItemViaPointer(heap, a, k[n])
               IN Leaves(h, RemoveAt(k, n)) /\ Single(h, k[n])
          /\ \A i \in {j \in held : a \notin Below(heap, j)} :
               /\ Leaves(add_item_to_array(heap, a, i).heap, Append(k, i))
               /\ \A n \in 0 .. Len(k) :
                    Leaves(InsertItemInArray(heap, a, n, i).heap, InsertAt(k, n + 1, i))
               /\ \A n \in DOMAIN k :
                    LET h == ReplaceItemViaPointer(heap, a, k[n], i).heap
                    IN Leaves(h, [k EXCEPT ![n] = i]) /\ k[n] \notin Used(h)
  /\ \A i \in Used(heap), memory \in Allocations :
       LET d == cJSON_Duplicate(With(memory), i, TRUE)
       IN IF d.result = Null THEN [d.heap EXCEPT !.left = 0] = heap
          ELSE /\ Shape(d.heap, d.result) = Shape(heap, i)
               /\ \A j \in Used(d.heap) \ Used(heap) : Linked(d.heap, j)
=============================================================================
