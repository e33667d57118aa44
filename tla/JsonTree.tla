------------------------------ MODULE JsonTree ------------------------------
(***************************************************************************)
(* The items of the JSON library (OzCommon/json/cJSON.c): the doubly       *)
(* linked lists that arrays and objects are, the names of their items, and *)
(* who has to free what.                                                   *)
(*                                                                         *)
(* The operators on a heap h translate the list functions and compose like *)
(* the calls; an action is one call of the application.  A cell is NULL    *)
(* while it is not allocated.  The type of an item is left out: any item   *)
(* can get children, one that never does is a value.  Its valuestring is   *)
(* left out too: it is shared and freed under the same conditions as       *)
(* child.  A name is compared without its case.                            *)
(*                                                                         *)
(* What the library leaves to the application is in the guards: it adds    *)
(* and deletes only items it holds, makes no item part of itself, changes  *)
(* no list through a reference, and frees nothing that a reference which   *)
(* stays still shares.                                                     *)
(***************************************************************************)
EXTENDS Integers, FiniteSets, Sequences

CONSTANTS
  Nodes,     \* the cJSON structures malloc can give out
  Names,     \* the names of members of objects
  MaxNames,  \* bound on the names malloc can give out
  NULL

ASSUME NodesType == IsFiniteSet(Nodes) /\ NULL \notin Nodes \cup Names
ASSUME MaxNamesType == MaxNames \in Nat

VARIABLES
  heap,   \* the cJSON structures
  names,  \* how many names are allocated
  lost,   \* history: names overwritten while they were allocated
  held    \* the application: the items it has to delete

vars == <<heap, names, lost, held>>

-----------------------------------------------------------------------------
(* Items and lists.                                                        *)

Pointers == Nodes \cup {NULL}

Cells == [next : Pointers, prev : Pointers, child : Pointers, ref : BOOLEAN,
          string : Names \cup {NULL}]

ASSUME CellsType == NULL \notin Cells

(* cJSON_New_Item. *)
Blank == [next |-> NULL, prev |-> NULL, child |-> NULL, ref |-> FALSE, string |-> NULL]

Live(h) == {n \in Nodes : h[n] # NULL}

Free == Nodes \ Live(heap)

(* The least set of items that has c (if there is one) and is closed under *)
(* Follow(n), the pointers the code goes along at n.                       *)
Reach(h, c, Follow(_)) ==
  {n \in Live(h) : \A S \in SUBSET Live(h) :
     (c \in S \cup {NULL}) /\ (\A m \in S : Follow(m) \subseteq S \cup {NULL}) => n \in S}

(* A list, from its item c on. *)
Chain(h, c) == Reach(h, c, LAMBDA n : {h[n].next})

Items(h, a) == Chain(h, h[a].child)

(* The last item of a list: "while (c && c->next) c=c->next". *)
Lasts(h, a) == {c \in Items(h, a) : h[c].next = NULL}

(* What can be seen in an item, through references too. *)
Content(h, a) == Reach(h, h[a].child, LAMBDA n : {h[n].next, h[n].child})

(* cJSON_Delete: it goes along next and child, but not into a reference. *)
Freed(h, c) ==
  Reach(h, c, LAMBDA n : IF h[n].ref THEN {h[n].next} ELSE {h[n].next, h[n].child})

Delete(h, c) == [n \in Nodes |-> IF n \in Freed(h, c) THEN NULL ELSE h[n]]

Named(h, S) == Cardinality({n \in S : h[n].string # NULL})

(* cJSON_GetObjectItem: the first item of that name. *)
IsFirst(h, a, c, s) ==
  /\ h[c].string = s
  /\ \A m \in Items(h, a) \ Chain(h, c) : h[m].string # s

-----------------------------------------------------------------------------
(* The list functions.                                                     *)

(* Mutation: only the forward pointer is set. *)
ForwardOnly(h, p, i) == [h EXCEPT ![p].next = i]

(* suffix_object *)
Suffix(h, p, i) == [h EXCEPT ![p].next = i, ![i].prev = p]

(* cJSON_AddItemToArray; last is the last item of a list that has one. *)
AddItemToArray(h, a, last, i) ==
  IF h[a].child = NULL THEN [h EXCEPT ![a].child = i] ELSE Suffix(h, last, i)

(* The item that points at c in the list of a, and where c's successor     *)
(* points back to: they are given the pointers n and p.                    *)
Relink(h, a, c, n, p) ==
  [m \in Nodes |->
     IF h[m] = NULL THEN NULL
     ELSE [h[m] EXCEPT
       !.next = IF h[c].prev = m THEN n ELSE @,
       !.prev = IF h[c].next = m THEN p ELSE @,
       !.child = IF a = m /\ h[a].child = c THEN n ELSE @]]

(* cJSON_DetachItemFromArray *)
Detach(h, a, c) ==
  [Relink(h, a, c, h[c].next, h[c].prev) EXCEPT ![c].next = NULL, ![c].prev = NULL]

(* Mutation: what followed the old item is not put behind the new one. *)
ReplaceLast(h, a, c, i) ==
  [Relink(h, a, c, i, i) EXCEPT ![i].prev = h[c].prev, ![c].next = NULL, ![c].prev = NULL]

(* cJSON_ReplaceItemInArray, up to the cJSON_Delete at its end. *)
Replace(h, a, c, i) ==
  [Relink(h, a, c, i, i) EXCEPT
     ![i].next = h[c].next, ![i].prev = h[c].prev, ![c].next = NULL, ![c].prev = NULL]

(* Mutation: the name is shared as the children are. *)
NameShared(h, item) == [h[item] EXCEPT !.ref = TRUE, !.next = NULL, !.prev = NULL]

(* Mutation: the copy is not marked as a reference. *)
NotMarked(h, item) == [h[item] EXCEPT !.string = NULL, !.next = NULL, !.prev = NULL]

(* create_reference *)
Reference(h, item) ==
  [h[item] EXCEPT !.string = NULL, !.ref = TRUE, !.next = NULL, !.prev = NULL]

-----------------------------------------------------------------------------
(* What the application may ask for.                                       *)

Init ==
  /\ heap = [n \in Nodes |-> NULL]
  /\ names = 0
  /\ lost = 0
  /\ held = {}

(* There are no items each of which leads to one of them: none is part of  *)
(* itself, and whatever goes along next and child comes to an end.         *)
Founded(h) ==
  ~ \E S \in SUBSET Live(h) : S # {} /\ \A m \in S : {h[m].next, h[m].child} \cap S # {}

(* The list of a, as it is in h, may be changed so that the heap is g: a   *)
(* is no reference, and nothing becomes part of itself.                    *)
MayHold(h, a, g) == ~h[a].ref /\ Founded(g)

(* No reference that stays shares what cJSON_Delete(c) frees. *)
MayFree(h, c) ==
  \A r \in Live(h) \ Freed(h, c) : h[r].ref => h[r].child \notin Freed(h, c)

(* What strdup returns: NULL when there is no memory, but that is only     *)
(* certain at the bound.                                                   *)
Strdup(s) == IF names < MaxNames THEN {s, NULL} ELSE {NULL}

Count(s) == IF s = NULL THEN 0 ELSE 1

-----------------------------------------------------------------------------
(* Creating.  When malloc fails NULL is returned and nothing has changed;  *)
(* an array of numbers then writes through that NULL, and the process ends *)
(* there, as it may end anywhere.                                          *)

(* cJSON_CreateNull and its siblings. *)
Create ==
  \E n \in Free :
    /\ heap' = [heap EXCEPT ![n] = Blank]
    /\ held' = held \cup {n}
    /\ UNCHANGED <<names, lost>>

(* cJSON_CreateIntArray and its siblings, for two numbers. *)
CreateNumbers ==
  \E a, m, n \in Free :
    /\ a # m /\ m # n /\ a # n
    /\ heap' = Suffix([heap EXCEPT ![a] = [Blank EXCEPT !.child = m], ![m] = Blank, ![n] = Blank],
                      m, n)
    /\ held' = held \cup {a}
    /\ UNCHANGED <<names, lost>>

(* Adding.  The end of the list is looked for, unless the list is empty.   *)
Attach(h, a, i) ==
  /\ \E last \in IF h[a].child = NULL THEN {NULL} ELSE Lasts(h, a) :
       heap' = AddItemToArray(h, a, last, i)
  /\ MayHold(h, a, heap')

AddToArray ==
  \E a \in Live(heap), i \in held :
    /\ Attach(heap, a, i)
    /\ held' = held \ {i}
    /\ UNCHANGED <<names, lost>>

(* cJSON_AddItemToObject: the item's own name is freed. *)
AddToObject ==
  \E a \in Live(heap), i \in held, s \in Names : \E d \in Strdup(s) :
    /\ Attach([heap EXCEPT ![i].string = d], a, i)
    /\ held' = held \ {i}
    /\ names' = (names - Count(heap[i].string)) + Count(d)
    /\ UNCHANGED lost

(* cJSON_AddItemReferenceToArray, ...ToObject. *)
AddReference ==
  \E a, item \in Live(heap), r \in Free :
    LET new == Reference(heap, item) IN
    \E d \in {new.string} \cup UNION {Strdup(s) : s \in Names} :
      /\ Attach([heap EXCEPT ![r] = [new EXCEPT !.string = d]], a, r)
      /\ names' = (names - Count(new.string)) + Count(d)
      /\ UNCHANGED <<lost, held>>

-----------------------------------------------------------------------------
(* Taking out, replacing, deleting.  An item is found by its index or by   *)
(* its name; a name finds an item that some index finds.  An item that is  *)
(* not found changes nothing.                                              *)

(* cJSON_DetachItemFromArray, ...FromObject. *)
DetachItem ==
  \E a \in Live(heap) : \E c \in Items(heap, a) :
    /\ ~heap[a].ref
    /\ heap' = Detach(heap, a, c)
    /\ held' = held \cup {c}
    /\ UNCHANGED <<names, lost>>

(* Mutation: a reference keeps its name, as it keeps child. *)
NamesOfOwners(h, c) == Named(h, {n \in Freed(h, c) : ~h[n].ref})

NamesFreed(h, c) == Named(h, Freed(h, c))

(* cJSON_Delete(c), on a heap where c is in no list. *)
DeleteIn(h, c) ==
  /\ MayFree(h, c)
  /\ heap' = Delete(h, c)
  /\ names' = names - NamesFreed(h, c)

(* cJSON_DeleteItemFromArray, ...FromObject. *)
DeleteItem ==
  \E a \in Live(heap) : \E c \in Items(heap, a) :
    /\ ~heap[a].ref
    /\ DeleteIn(Detach(heap, a, c), c)
    /\ UNCHANGED <<lost, held>>

DeleteHeld ==
  \E c \in held :
    /\ DeleteIn(heap, c)
    /\ held' = held \ {c}
    /\ UNCHANGED lost

ReplaceInArray ==
  \E a \in Live(heap), i \in held : \E c \in Items(heap, a) :
    /\ MayHold(heap, a, Replace(heap, a, c, i))
    /\ DeleteIn(Replace(heap, a, c, i), c)
    /\ held' = held \ {i}
    /\ UNCHANGED lost

(* cJSON_ReplaceItemInObject writes over the name the new item had. *)
ReplaceInObject ==
  \E a \in Live(heap), i \in held, s \in Names : \E c \in Items(heap, a), d \in Strdup(s) :
    /\ IsFirst(heap, a, c, s)
    /\ LET h == Replace([heap EXCEPT ![i].string = d], a, c, i) IN
       /\ MayHold(heap, a, h) /\ MayFree(h, c)
       /\ heap' = Delete(h, c)
       /\ names' = (names + Count(d)) - NamesFreed(h, c)
    /\ held' = held \ {i}
    /\ lost' = lost + Count(heap[i].string)

-----------------------------------------------------------------------------
(* cJSON_Duplicate.  Every cell and name it got is freed again when one is *)
(* refused: then nothing has changed.                                      *)

(* A copy of the items S, whose structure f follows; of the first, item,   *)
(* neither next nor prev is copied.                                        *)
Copied(item, S, f) ==
  LET To(m) == IF m \in S \ {item} THEN f[m] ELSE NULL
  IN [m \in S |->
        [next |-> IF m = item THEN NULL ELSE To(heap[m].next),
         prev |-> IF m = item THEN NULL ELSE To(heap[m].prev),
         child |-> To(heap[m].child),
         ref |-> FALSE,
         string |-> heap[m].string]]

(* No list is met twice on the way through the item. *)
MetOnce(item, S) ==
  \A k, m, n \in S : heap[k].child = m =>
    /\ heap[n].child = m => n = k
    /\ heap[n].next = m => n = item

Duplicate ==
  \E item \in Live(heap), recurse \in BOOLEAN :
    LET S == {item} \cup (IF recurse THEN Content(heap, item) ELSE {}) IN
    /\ Cardinality(S) <= Cardinality(Free)
    /\ MetOnce(item, S)
    /\ names + Named(heap, S) <= MaxNames
    /\ \E f \in [S -> Free] :
         /\ \A m, n \in S : f[m] = f[n] => m = n
         /\ heap' = [n \in Nodes |->
                       IF \E m \in S : f[m] = n
                       THEN Copied(item, S, f)[CHOOSE m \in S : f[m] = n]
                       ELSE heap[n]]
         /\ held' = held \cup {f[item]}
    /\ names' = names + Named(heap, S)
    /\ UNCHANGED lost

-----------------------------------------------------------------------------
Next ==
  \/ Create \/ CreateNumbers \/ AddToArray \/ AddToObject \/ AddReference
  \/ DetachItem \/ DeleteItem \/ DeleteHeld \/ ReplaceInArray \/ ReplaceInObject
  \/ Duplicate

Spec == Init /\ [][Next]_vars

-----------------------------------------------------------------------------
(* Properties.                                                             *)

(* Type invariant of the JSON items. *)
TypeOK ==
  /\ heap \in [Nodes -> Cells \cup {NULL}]
  /\ names \in 0..MaxNames
  /\ lost \in Nat
  /\ held \subseteq Nodes

Owners(n) == {a \in Live(heap) : ~heap[a].ref /\ n \in Items(heap, a)}

(* Every item has one owner, the application or a list, and so one call    *)
(* frees it, and only one.                                                 *)
OneOwner ==
  \A n \in Live(heap) :
    Cardinality(Owners(n)) = IF n \in held THEN 0 ELSE 1

(* The lists can be walked both ways, an item that is held is in none, and *)
(* what next, prev and child point at, in a reference too, is allocated.   *)
Linked ==
  \A n \in Live(heap) :
    /\ \A m \in {heap[n].next, heap[n].prev, heap[n].child} \ {NULL} : heap[m] # NULL
    /\ heap[n].next # NULL => heap[heap[n].next].prev = n
    /\ heap[n].prev # NULL => heap[heap[n].prev].next = n
    /\ n \in held => heap[n].next = NULL /\ heap[n].prev = NULL
    /\ heap[n].child # NULL /\ ~heap[n].ref => heap[heap[n].child].prev = NULL

(* Every name that is allocated is that of an item, except the ones that   *)
(* cJSON_ReplaceItemInObject lost: those of new items that had one.        *)
NamesCounted == names = Named(heap, Live(heap)) + lost

-----------------------------------------------------------------------------
(* The lists as sequences: the refinement mapping to JsonForest.           *)

(* The items of a list from c on, in their order. *)
Listed(h, c) ==
  LET from[m \in Pointers] == IF m \in Live(h) THEN <<m>> \o from[h[m].next] ELSE <<>>
  IN from[c]

Children(h) ==
  [n \in Nodes |-> IF n \in Live(h) /\ ~h[n].ref THEN Listed(h, h[n].child) ELSE <<>>]

Forest == INSTANCE JsonForest WITH items <- Live(heap), kids <- Children(heap)

(* The linked lists are sequences: a call adds at the end, takes out or    *)
(* replaces one item, or deletes one tree, and leaves the order and the    *)
(* children of all others alone.                                           *)
ImplementsForest == Forest!Spec
=============================================================================
