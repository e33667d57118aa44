--------------------------- MODULE JsonOwner_proofs ---------------------------
(***************************************************************************)
(* Who has to free what in JsonTree (ItemsHaveOneOwner), and that its      *)
(* lists are sequences (ListsAreSequences).                                *)
(*                                                                         *)
(* Both are about whole lists, so they are not kept by one assignment to   *)
(* the next.  Their inductive invariant OwnInv is about cells: LInv,       *)
(* Hooked (an item that is not held follows another or is a first item)    *)
(* and Founded (no item is part of itself), from which the lists follow.   *)
(*                                                                         *)
(* The sequence of a list is the one that IsList says it is: as the heap   *)
(* is Founded there is one (ListExists), there is no other (ListUnique),   *)
(* and it is the one the refinement mapping computes (ListedIs).  Each     *)
(* list function is then shown to change the sequence of one item, and     *)
(* what cJSON_Delete frees to be a tree (TreeFreed).                       *)
(***************************************************************************)
EXTENDS JsonTree_proofs, SequenceTheorems

-----------------------------------------------------------------------------
(* Lists.  What is in the list from c on is in every set closed under next *)
(* that has c.                                                             *)

Closed(h, c, S) ==
  S \subseteq Live(h) /\ c \in S \cup {NULL} /\ \A m \in S : h[m].next \in S \cup {NULL}

LEMMA ChainIs ==
  ASSUME NEW h, NEW c, NEW n
  PROVE  n \in Chain(h, c) <=> n \in Live(h) /\ \A S : Closed(h, c, S) => n \in S
  BY DEF Chain, Reach, Closed

LEMMA ItemsClosed ==
  ASSUME NEW h \in Heaps, Allocated(h), NEW a \in Live(h)
  PROVE  Closed(h, h[a].child, Items(h, a))
  <1>1. h[a].child \in Live(h) \cup {NULL}
    BY DEF Allocated
  <1>2. h[a].child # NULL => h[a].child \in Items(h, a)
    BY <1>1, ChainIs DEF Items, Closed
  <1>3. Items(h, a) \subseteq Live(h)
    BY DEF Items, Chain, Reach
  <1>4. \A m \in Items(h, a) : h[m].next \in Items(h, a) \cup {NULL}
    BY ChainClosed DEF Items
  <1> QED BY <1>2, <1>3, <1>4 DEF Closed

LEMMA ItemsLeast ==
  ASSUME NEW h, NEW a, NEW S, Closed(h, h[a].child, S)
  PROVE  Items(h, a) \subseteq S
  BY ChainIs DEF Items

(* An item that is not the first follows another of its list. *)
LEMMA Previous ==
  ASSUME NEW h \in Heaps, NEW hd, LInv(h, hd), NEW a \in Live(h), NEW n \in Items(h, a),
         n # h[a].child
  PROVE  h[n].prev \in Items(h, a)
  <1> DEFINE I == Items(h, a)
  <1>1. Closed(h, h[a].child, I)
    BY ItemsClosed DEF LInv
  <1>2. PICK k \in I : h[k].next = n
    <2> SUFFICES ASSUME \A k \in I : h[k].next # n PROVE FALSE
      OBVIOUS
    <2>1. Closed(h, h[a].child, I \ {n})
      BY <1>1 DEF Closed
    <2> QED BY <2>1, ItemsLeast
  <1>3. n # NULL
    BY <1>1, NullIsNoNode DEF Closed, Live
  <1> QED BY <1>1, <1>2, <1>3 DEF LInv, BothWays, Closed

(* No item is in two lists. *)
LEMMA OneList ==
  ASSUME NEW h \in Heaps, NEW hd, LInv(h, hd), NEW a \in Live(h), NEW b \in Live(h),
         ~h[a].ref, ~h[b].ref, NEW n \in Items(h, a), n \in Items(h, b)
  PROVE  a = b
  <1> SUFFICES ASSUME a # b PROVE FALSE
    OBVIOUS
  <1> DEFINE I == Items(h, a)
             J == Items(h, b)
  <1>1. Closed(h, h[a].child, I) /\ Closed(h, h[b].child, J)
    BY ItemsClosed DEF LInv
  <1>2. \A m \in I \cup J : m # NULL
    BY <1>1, NullIsNoNode DEF Closed, Live
  <1>3. ASSUME NEW m \in I \cap J PROVE h[m].prev \in I \cap J
    <2>1. \A x \in {a, b} : m = h[x].child => h[m].prev = NULL
      BY <1>2 DEF LInv, BothWays
    <2>2. m # h[a].child => h[m].prev \in I
      BY Previous
    <2>3. m # h[b].child => h[m].prev \in J
      BY Previous
    <2>4. ~(m = h[a].child /\ m = h[b].child)
      BY <1>2 DEF LInv, HeadsOwned
    <2> QED BY <1>2, <2>1, <2>2, <2>3, <2>4
  <1>4. \A m \in I \cap J : m # h[a].child
    <2> SUFFICES ASSUME NEW m \in I \cap J, m = h[a].child PROVE FALSE
      OBVIOUS
    <2>1. h[m].prev = NULL
      BY <1>2 DEF LInv, BothWays
    <2> QED BY <1>2, <1>3, <2>1
  <1>5. Closed(h, h[a].child, I \ J)
    <2>1. ASSUME NEW m \in I \ J PROVE h[m].next \in (I \ J) \cup {NULL}
      <3>1. h[m].next \in I \cup {NULL}
        BY <1>1 DEF Closed
      <3>2. ASSUME h[m].next \in J, h[m].next # NULL PROVE FALSE
        <4>1. h[m].next \in I \cap J
          BY <3>1, <3>2
        <4>2. h[h[m].next].prev = m
          BY <1>1, <3>2 DEF LInv, BothWays, Closed
        <4> QED BY <1>3, <4>1, <4>2
      <3> QED BY <3>1, <3>2
    <2> QED BY <1>1, <1>4, <2>1 DEF Closed
  <1> QED BY <1>5, ItemsLeast

-----------------------------------------------------------------------------
(* Owners.  An item that is not held follows another or is the first of a  *)
(* list.  This is about the cells alone, and is kept by each assignment;   *)
(* with Founded it means that the item is in a list (HookedOwned).         *)

Hooked(h, hd) ==
  \A n \in Live(h) \ hd :
    h[n].prev # NULL \/ \E a \in Live(h) : ~h[a].ref /\ h[a].child = n

Owned(h, hd) ==
  \A n \in Live(h) \ hd : \E a \in Live(h) : ~h[a].ref /\ n \in Items(h, a)

(* Otherwise the items in no list would be the previous ones of each       *)
(* other: as they are finitely many, each would lead to another of them.   *)
LEMMA HookedOwned ==
  ASSUME NEW h \in Heaps, NEW hd, LInv(h, hd), Hooked(h, hd), Founded(h)
  PROVE  Owned(h, hd)
  <1> DEFINE S == {n \in Live(h) \ hd : \A a \in Live(h) : ~h[a].ref => n \notin Items(h, a)}
             P == {h[n].prev : n \in S}
             F == [n \in S |-> h[n].prev]
  <1>1. SUFFICES ASSUME S # {} PROVE FALSE
    BY DEF Owned
  <1>2. ASSUME NEW n \in S PROVE h[n].prev \in S /\ h[h[n].prev].next = n
    <2>1. n \in Live(h) \ hd /\ n # NULL
      BY NullIsNoNode DEF Live
    <2>2. ASSUME NEW a \in Live(h), ~h[a].ref PROVE h[a].child # n
      BY <2>1, <2>2, ItemsClosed DEF Closed, LInv
    <2>3. h[n].prev # NULL
      BY <2>1, <2>2 DEF Hooked
    <2>4. h[n].prev \in Live(h) \ hd /\ h[h[n].prev].next = n
      BY <2>1, <2>3 DEF LInv, Allocated, BothWays
    <2>5. ASSUME NEW a \in Live(h), ~h[a].ref PROVE h[n].prev \notin Items(h, a)
      <3>1. n \notin Items(h, a)
        BY <2>5
      <3> QED BY <2>1, <2>4, <3>1, ItemsClosed DEF Closed, LInv
    <2> QED BY <2>4, <2>5
  <1>3. P \subseteq S /\ IsFiniteSet(S)
    <2>1. S \subseteq Live(h)
      OBVIOUS
    <2> HIDE DEF S
    <2> QED BY <1>2, <2>1, FiniteNames
  <1>4. ExistsBijection(S, P)
    <2> HIDE DEF S
    <2>1. /\ F \in [S -> P] /\ \A m, n \in S : F[m] = F[n] => m = n
          /\ \A y \in P : \E m \in S : F[m] = y
      BY <1>2
    <2> HIDE DEF P, F
    <2>2. F \in Bijection(S, P)
      BY <2>1, Fun_IsBij
    <2> QED BY <2>2 DEF ExistsBijection
  <1> HIDE DEF S
  <1>5. S = P
    <2> HIDE DEF P
    <2> QED BY <1>3, <1>4, FS_Bijection, FS_Subset
  <1>6. \A m \in S : h[m].next \in S
    BY <1>2, <1>5
  <1>7. S \in SUBSET Live(h)
    BY DEF S
  <1> QED BY <1>1, <1>6, <1>7 DEF Founded

LEMMA AddHooked ==
  ASSUME NEW h \in Heaps, NEW hd, LInv(h, hd), Hooked(h, hd), NEW a \in Live(h), ~h[a].ref,
         NEW i \in hd, NEW last \in IF h[a].child = NULL THEN {NULL} ELSE Lasts(h, a),
         NEW g, g = AddItemToArray(h, a, last, i)
  PROVE  Hooked(g, hd \ {i})
  <1>1. i \in Live(h) /\ NULL \notin Live(h)
    BY NullIsNoNode DEF LInv, Live
  <1>2. CASE h[a].child = NULL
    <2>1. FirstAdded(h, a, i, g)
      <3>1. g = Enter(h, a, i)
        BY <1>2 DEF AddItemToArray, Enter
      <3> QED BY <1>1, <3>1, FirstCells
    <2> QED BY <1>1, <1>2, <2>1 DEF FirstAdded, Hooked
  <1>3. CASE h[a].child # NULL
    <2>1. last \in Live(h)
      BY <1>3 DEF Lasts, Items, Chain, Reach
    <2>2. LastAdded(h, last, i, g)
      <3>1. g = Suffix(h, last, i)
        BY <1>3 DEF AddItemToArray
      <3> QED BY <1>1, <2>1, <3>1, SuffixCells
    <2> QED BY <1>1, <2>1, <2>2 DEF LastAdded, Hooked
  <1> QED BY <1>2, <1>3

LEMMA DetachHooked ==
  ASSUME NEW h \in Heaps, NEW hd, LInv(h, hd), Hooked(h, hd), NEW a \in Live(h), ~h[a].ref,
         NEW c \in Items(h, a), NEW g, g = Detach(h, a, c)
  PROVE  Hooked(g, hd \cup {c})
  <1>1. c \in Live(h) /\ NULL \notin Live(h) /\ BothWays(h, hd) /\ Allocated(h)
    BY NullIsNoNode DEF LInv, Live, Items, Chain, Reach
  <1>2. Detached(h, a, c, g)
    BY <1>1, DetachCells
  <1>3. c # h[a].child => h[c].prev # NULL
    BY HasPrevious
  <1>4. ASSUME NEW n \in Live(h) \ (hd \cup {c})
        PROVE  g[n].prev # NULL \/ \E b \in Live(h) : ~g[b].ref /\ g[b].child = n
    <2>1. CASE h[c].next = n
      BY <1>2, <1>3, <2>1 DEF Detached
    <2>2. CASE h[c].next # n
      BY <1>2, <2>2 DEF Detached, Hooked
    <2> QED BY <2>1, <2>2
  <1> QED BY <1>2, <1>4 DEF Detached, Hooked

LEMMA ReplaceHooked ==
  ASSUME NEW h \in Heaps, NEW hd, LInv(h, hd), Hooked(h, hd), NEW a \in Live(h), ~h[a].ref,
         NEW c \in Items(h, a), NEW i \in hd, NEW g, g = Replace(h, a, c, i)
  PROVE  Hooked(g, (hd \ {i}) \cup {c})
  <1>1. c \in Live(h) /\ i \in Live(h) /\ i # NULL /\ c # i
    BY NotHeld, NullIsNoNode DEF LInv, Live
  <1>2. Replaced(h, a, c, i, g)
    BY <1>1, ReplaceCells
  <1>3. c # h[a].child => h[c].prev # NULL
    BY HasPrevious
  <1>4. ASSUME NEW n \in Live(h) \ ((hd \ {i}) \cup {c})
        PROVE  g[n].prev # NULL \/ \E b \in Live(h) : ~g[b].ref /\ g[b].child = n
    <2>1. CASE n = i
      BY <1>2, <1>3, <2>1 DEF Replaced
    <2>2. CASE n # i
      BY <1>1, <1>2, <2>2 DEF Replaced, Hooked
    <2> QED BY <2>1, <2>2
  <1> QED BY <1>2, <1>4 DEF Replaced, Hooked

LEMMA DeleteHooked ==
  ASSUME NEW h \in Heaps, NEW hd, LInv(h, hd), Hooked(h, hd), NEW c \in hd, NEW g, g = Delete(h, c)
  PROVE  Hooked(g, hd \ {c})
  <1> DEFINE F == Freed(h, c)
  <1>1. /\ Live(g) = Live(h) \ F
        /\ \A n \in Live(h) \ F : g[n] = h[n]
    BY DEF Delete, Live
  <1>2. c \in F /\ NULL \notin Live(h)
    BY NullIsNoNode DEF LInv, Live, Freed, Reach
  <1>3. \A m \in F : ~h[m].ref => h[m].child \in F \cup {NULL}
    BY FreedClosed DEF LInv
  <1> HIDE DEF F
  <1>4. ASSUME NEW n \in Live(h) \ F, NEW a \in Live(h), ~h[a].ref, h[a].child = n
        PROVE  a \in Live(g) /\ ~g[a].ref /\ g[a].child = n
    BY <1>1, <1>2, <1>3, <1>4
  <1> QED BY <1>1, <1>2, <1>4 DEF Hooked

LEMMA NewHooked ==
  ASSUME NEW h, NEW hd, Hooked(h, hd), NEW r, NEW g, Live(g) = Live(h) \cup {r},
         \A n \in Live(h) : g[n] = h[n]
  PROVE  Hooked(g, hd \cup {r})
  BY DEF Hooked

LEMMA RenameHooked ==
  ASSUME NEW h \in Heaps, NEW hd, LInv(h, hd), Hooked(h, hd), NEW i \in Live(h),
         NEW d \in Names \cup {NULL}, NEW g, g = Rename(h, i, d)
  PROVE  /\ LInv(g, hd) /\ Hooked(g, hd) /\ g \in Heaps /\ Live(g) = Live(h)
         /\ \A a \in Live(h) : g[a].ref = h[a].ref /\ Items(g, a) = Items(h, a)
  <1> DEFINE r == String_(h[i], d)
  <1>1. h[i] \in Cells
    BY CellFields
  <1>2. r \in Cells /\ r.prev = h[i].prev /\ r.child = h[i].child /\ r.ref = h[i].ref
    BY <1>1, StringUpdate
  <1>3. g = Put(h, i, r)
    BY DEF Rename, Put, String_
  <1> HIDE DEF r
  <1>4. /\ g \in Heaps /\ Live(g) = Live(h) /\ g[i] = r
        /\ \A n \in Live(h) : n # i => g[n] = h[n]
    BY <1>2, <1>3, LiveUpdate
  <1>5. \A n \in Live(h) : g[n].prev = h[n].prev /\ g[n].child = h[n].child /\ g[n].ref = h[n].ref
    BY <1>2, <1>4
  <1>6. Hooked(g, hd)
    BY <1>4, <1>5 DEF Hooked
  <1> QED BY <1>4, <1>6, RenameKeeps

-----------------------------------------------------------------------------
(* Nothing becomes part of itself.                                         *)

(* What leads from one live item to another was there before.              *)
LEMMA FewerFounded ==
  ASSUME NEW h, Founded(h), NEW g, Live(g) \subseteq Live(h),
         \A n \in Live(g) : g[n].next = h[n].next /\ g[n].child = h[n].child
  PROVE  Founded(g)
  <1>1. SUFFICES ASSUME NEW S \in SUBSET Live(g), S # {},
                        \A m \in S : {g[m].next, g[m].child} \cap S # {}
                 PROVE  FALSE
    BY Zenon DEF Founded
  <1>2. S \in SUBSET Live(h) /\ \A m \in S : {h[m].next, h[m].child} \cap S # {}
    BY <1>1
  <1> QED BY <1>1, <1>2 DEF Founded

(* What leads to c leads to what follows it. *)
LEMMA DetachFounded ==
  ASSUME NEW h \in Heaps, NEW hd, LInv(h, hd), Founded(h), NEW a \in Live(h), NEW c \in Live(h),
         NEW g, g = Detach(h, a, c)
  PROVE  Founded(g)
  <1>1. SUFFICES ASSUME NEW S \in SUBSET Live(g), S # {},
                        \A m \in S : {g[m].next, g[m].child} \cap S # {}
                 PROVE  FALSE
    BY Zenon DEF Founded
  <1>2. Detached(h, a, c, g)
    BY DetachCells
  <1>3. NULL \notin Live(h) /\ BothWays(h, hd) /\ S \subseteq Live(h)
    BY <1>2, NullIsNoNode DEF LInv, Live, Detached
  <1> DEFINE T == IF h[c].next \in S THEN S \cup {c} ELSE S
  <1>4. ASSUME NEW m \in S, m # c PROVE {h[m].next, h[m].child} \cap T # {}
    <2>1. CASE g[m].next \in S
      <3>1. CASE h[c].prev = m
        BY <1>2, <1>3, <1>4, <2>1, <3>1 DEF Detached, BothWays
      <3>2. CASE h[c].prev # m
        BY <1>2, <1>3, <1>4, <2>1, <3>2 DEF Detached
      <3> QED BY <3>1, <3>2
    <2>2. CASE g[m].child \in S
      BY <1>2, <1>3, <2>2 DEF Detached
    <2> QED BY <1>1, <2>1, <2>2
  <1>5. ASSUME c \in T PROVE {h[c].next, h[c].child} \cap T # {}
    <2>1. CASE h[c].next \in S
      BY <2>1
    <2>2. CASE h[c].next \notin S
      <3>1. c \in S /\ g[c].next \notin S
        BY <1>2, <1>3, <1>5, <2>2 DEF Detached
      <3>2. g[c].child \in S
        BY <1>1, <3>1
      <3>3. g[c].child = h[c].child
        BY <1>2, <1>3, <2>2, <3>1, <3>2 DEF Detached
      <3> QED BY <3>2, <3>3
    <2> QED BY <2>1, <2>2
  <1>6. T \in SUBSET Live(h) /\ T # {} /\ \A m \in T : {h[m].next, h[m].child} \cap T # {}
    BY <1>1, <1>3, <1>4, <1>5
  <1> HIDE DEF T
  <1> QED BY <1>6 DEF Founded

(* A new item leads to items that were there, at most, and none leads to it. *)
LEMMA NewFounded ==
  ASSUME NEW h \in Heaps, Allocated(h), Founded(h), NEW r \in Nodes, r \notin Live(h),
         NEW g, Live(g) = Live(h) \cup {r}, \A n \in Live(h) : g[n] = h[n],
         g[r].next = NULL, g[r].child \in Live(h) \cup {NULL}
  PROVE  Founded(g)
  <1>1. SUFFICES ASSUME NEW S \in SUBSET Live(g), S # {},
                        \A m \in S : {g[m].next, g[m].child} \cap S # {}
                 PROVE  FALSE
    BY Zenon DEF Founded
  <1>2. NULL \notin Live(g) /\ r # NULL
    BY NullIsNoNode DEF Live
  <1> DEFINE T == S \ {r}
  <1>3. T # {}
    BY <1>1, <1>2
  <1>4. ASSUME NEW m \in T PROVE {h[m].next, h[m].child} \cap T # {}
    <2>1. m \in Live(h) /\ g[m] = h[m]
      OBVIOUS
    <2>2. h[m].next # r /\ h[m].child # r
      BY <1>2, <2>1 DEF Allocated
    <2> QED BY <1>1, <2>1, <2>2
  <1>5. T \in SUBSET Live(h)
    OBVIOUS
  <1> HIDE DEF T
  <1> QED BY <1>3, <1>4, <1>5 DEF Founded

(* No item is found in itself.  Otherwise the items from which it can be   *)
(* reached would each lead to one of them.                                 *)
LEMMA NotInItself ==
  ASSUME NEW h \in Heaps, Allocated(h), Founded(h), NEW item \in Live(h)
  PROVE  item \notin Content(h, item)
  <1> DEFINE Shut(S) == S \subseteq Live(h)
                        /\ \A m \in S : {h[m].next, h[m].child} \subseteq S \cup {NULL}
             T == {m \in Live(h) : \A S : Shut(S) /\ m \in S => item \in S}
  <1>1. SUFFICES ASSUME item \in Content(h, item) PROVE FALSE
    OBVIOUS
  <1>2. \A S : Shut(S) /\ h[item].child \in S \cup {NULL} => item \in S
    BY <1>1 DEF Content, Reach
  <1>3. item \in T
    OBVIOUS
  <1>4. h[item].child \in T
    <2>1. h[item].child # NULL
      <3>1. Shut({})
        OBVIOUS
      <3> HIDE DEF Shut
      <3> QED BY <1>2, <3>1
    <2>2. h[item].child \in Live(h)
      BY <2>1 DEF Allocated
    <2> HIDE DEF Shut
    <2> QED BY <1>2, <2>2
  <1>5. ASSUME NEW m \in T, m # item PROVE {h[m].next, h[m].child} \cap T # {}
    <2> SUFFICES ASSUME h[m].next \notin T, h[m].child \notin T PROVE FALSE
      OBVIOUS
    <2>1. {h[m].next, h[m].child} \subseteq Live(h) \cup {NULL}
      BY DEF Allocated
    <2>2. ASSUME NEW x \in {h[m].next, h[m].child}
          PROVE  \E S : Shut(S) /\ x \in S \cup {NULL} /\ item \notin S
      <3>1. CASE x = NULL
        <4>1. Shut({}) /\ x \in {} \cup {NULL} /\ item \notin {}
          BY <3>1
        <4> HIDE DEF Shut
        <4> QED BY <4>1
      <3>2. CASE x # NULL
        <4>1. x \in Live(h) /\ x \notin T
          BY <2>1, <3>2
        <4> HIDE DEF Shut
        <4> QED BY <4>1
      <3> QED BY <3>1, <3>2
    <2>3. PICK A : Shut(A) /\ h[m].next \in A \cup {NULL} /\ item \notin A
      <3> HIDE DEF Shut
      <3> QED BY <2>2
    <2>4. PICK B : Shut(B) /\ h[m].child \in B \cup {NULL} /\ item \notin B
      <3> HIDE DEF Shut
      <3> QED BY <2>2
    <2> DEFINE C == {m} \cup A \cup B
    <2>5. Shut(C) /\ m \in C /\ item \notin C
      BY <1>5, <2>3, <2>4
    <2> HIDE DEF C, Shut
    <2> QED BY <2>5
  <1>6. T \in SUBSET Live(h)
    OBVIOUS
  <1> HIDE DEF T
  <1> QED BY <1>3, <1>4, <1>5, <1>6 DEF Founded

-----------------------------------------------------------------------------
(* The actions, and the owners.                                            *)

OwnInv == LInv(heap, held) /\ Hooked(heap, held) /\ Founded(heap)

(* What is to be shown of an action, beside NextLists. *)
Kept == Hooked(heap', held') /\ Founded(heap')

LEMMA AttachKept ==
  ASSUME NEW h \in Heaps, NEW hd, LInv(h, hd), Hooked(h, hd), NEW a \in Live(h), NEW i \in hd,
         Attach(h, a, i)
  PROVE  Hooked(heap', hd \ {i}) /\ Founded(heap')
  <1>1. ~h[a].ref /\ Founded(heap')
    BY DEF Attach, MayHold
  <1>2. PICK last \in IF h[a].child = NULL THEN {NULL} ELSE Lasts(h, a) :
          heap' = AddItemToArray(h, a, last, i)
    BY DEF Attach
  <1> QED BY <1>1, <1>2, AddHooked

LEMMA CreateKept == OwnInv /\ Create => Kept
  <1> SUFFICES ASSUME OwnInv, Create PROVE Kept
    OBVIOUS
  <1>1. PICK n \in Free : heap' = Put(heap, n, Blank) /\ held' = held \cup {n}
    BY DEF Create, Put
  <1>2. n \in Nodes /\ n \notin Live(heap) /\ heap \in Heaps /\ LInv(heap, held)
    BY Heap DEF Free, OwnInv
  <1>3. /\ Live(heap') = Live(heap) \cup {n} /\ heap'[n] = Blank
        /\ \A m \in Live(heap) : heap'[m] = heap[m]
    BY <1>1, <1>2, BlankCell, HeapUpdate DEF Live
  <1>4. Founded(heap')
    BY <1>2, <1>3, BlankCell, NewFounded DEF OwnInv, LInv
  <1> QED BY <1>1, <1>3, <1>4, NewHooked DEF OwnInv, Kept

(* The three cells of an array of numbers. *)
Numbers(h, a, m, n) ==
  Suffix([h EXCEPT ![a] = [Blank EXCEPT !.child = m], ![m] = Blank, ![n] = Blank], m, n)

LEMMA NumberCells ==
  ASSUME NEW h \in Heaps, NEW a \in Nodes, NEW m \in Nodes, NEW n \in Nodes, a # m, m # n, a # n,
         NEW g, g = Numbers(h, a, m, n)
  PROVE  /\ \A x \in Nodes : x \notin {a, m, n} => g[x] = h[x]
         /\ g[a].child = m /\ g[a].next = NULL /\ ~g[a].ref
         /\ g[m].child = NULL /\ g[m].next = n
         /\ g[n].child = NULL /\ g[n].next = NULL /\ g[n].prev = m
  BY DEF Numbers, Suffix, Heaps, Blank

LEMMA CreateNumbersKept == OwnInv /\ CreateNumbers => Kept
  <1> SUFFICES ASSUME OwnInv, CreateNumbers PROVE Kept
    OBVIOUS
  <1>1. PICK a \in Free, m \in Free, n \in Free :
          /\ a # m /\ m # n /\ a # n
          /\ heap' = Numbers(heap, a, m, n)
          /\ held' = held \cup {a}
    BY DEF CreateNumbers, Numbers
  <1>2. /\ {a, m, n} \subseteq Nodes /\ heap \in Heaps /\ Live(heap) \subseteq Nodes
        /\ a \notin Live(heap) /\ m \notin Live(heap) /\ n \notin Live(heap) /\ NULL \notin Nodes
        /\ Allocated(heap) /\ Live(heap') \subseteq Nodes
    BY NullIsNoNode, Heap DEF Free, Live, OwnInv, LInv
  <1>3. /\ \A x \in Nodes : x \notin {a, m, n} => heap'[x] = heap[x]
        /\ heap'[a].child = m /\ heap'[a].next = NULL /\ ~heap'[a].ref
        /\ heap'[m].child = NULL /\ heap'[m].next = n
        /\ heap'[n].child = NULL /\ heap'[n].next = NULL /\ heap'[n].prev = m
    <2>1. a \in Nodes /\ m \in Nodes /\ n \in Nodes
      BY <1>2
    <2> QED BY <1>1, <1>2, <2>1, NumberCells
  <1>4. LInv(heap', held')
    BY CreateNumbersLists DEF OwnInv
  <1>5. a \in Live(heap') /\ Live(heap) \subseteq Live(heap')
        /\ \A x \in Live(heap') : x \in Live(heap) \cup {a, m, n}
    <2>1. a \in held'
      BY <1>1
    <2>2. a \in Live(heap')
      BY <1>4, <2>1 DEF LInv
    <2> QED BY <1>2, <1>3, <2>2 DEF Live
  <1>6. ASSUME NEW x \in Live(heap') \ held'
        PROVE  heap'[x].prev # NULL \/ \E b \in Live(heap') : ~heap'[b].ref /\ heap'[b].child = x
    <2>1. CASE x \in Live(heap)
      <3>1. x \notin held /\ heap'[x] = heap[x] /\ \A b \in Live(heap) : heap'[b] = heap[b]
        BY <1>1, <1>2, <1>3, <2>1
      <3> QED BY <1>5, <2>1, <3>1 DEF OwnInv, Hooked
    <2>2. CASE x = m
      BY <1>3, <1>5, <2>2
    <2>3. CASE x = n
      BY <1>2, <1>3, <2>3
    <2>4. x # a
      BY <1>1
    <2> QED BY <1>5, <2>1, <2>2, <2>3, <2>4
  <1>7. Founded(heap')
    <2>1. SUFFICES ASSUME NEW S \in SUBSET Live(heap'), S # {},
                          \A x \in S : {heap'[x].next, heap'[x].child} \cap S # {}
                   PROVE  FALSE
      BY Zenon DEF Founded
    <2>2. NULL \notin S
      BY <1>2
    <2>3. n \notin S
      BY <1>3, <2>1, <2>2
    <2>4. m \notin S
      BY <1>3, <2>1, <2>2, <2>3
    <2>5. a \notin S
      BY <1>3, <2>1, <2>2, <2>4
    <2>6. S \in SUBSET Live(heap)
      BY <1>5, <2>3, <2>4, <2>5
    <2>7. \A x \in S : {heap[x].next, heap[x].child} \cap S # {}
      BY <1>2, <1>3, <2>1, <2>3, <2>4, <2>5, <2>6
    <2> QED BY <2>1, <2>6, <2>7 DEF OwnInv, Founded
  <1> QED BY <1>6, <1>7 DEF Kept, Hooked

LEMMA AddToArrayKept == OwnInv /\ AddToArray => Kept
  <1> SUFFICES ASSUME OwnInv, AddToArray PROVE Kept
    OBVIOUS
  <1>1. PICK a \in Live(heap), i \in held : Attach(heap, a, i) /\ held' = held \ {i}
    BY DEF AddToArray
  <1> QED BY <1>1, Heap, AttachKept DEF OwnInv, Kept

LEMMA AddToObjectKept == OwnInv /\ AddToObject => Kept
  <1> SUFFICES ASSUME OwnInv, AddToObject PROVE Kept
    OBVIOUS
  <1>1. PICK a \in Live(heap), i \in held, d \in Names \cup {NULL} :
          Attach(Rename(heap, i, d), a, i) /\ held' = held \ {i}
    BY Strings DEF AddToObject, Rename
  <1> DEFINE h == Rename(heap, i, d)
  <1>2. LInv(h, held) /\ Hooked(h, held) /\ h \in Heaps /\ Live(h) = Live(heap)
    <2>1. i \in Live(heap) /\ heap \in Heaps
      BY Heap DEF OwnInv
    <2> QED BY <2>1, RenameHooked DEF OwnInv
  <1>3. Attach(h, a, i)
    BY <1>1
  <1> HIDE DEF h
  <1> QED BY <1>1, <1>2, <1>3, AttachKept DEF Kept

LEMMA AddReferenceKept == OwnInv /\ AddReference => Kept
  <1> SUFFICES ASSUME OwnInv, AddReference PROVE Kept
    OBVIOUS
  <1> DEFINE With(item, r, d) ==
               [heap EXCEPT ![r] = [Reference(heap, item) EXCEPT !.string = d]]
  <1>0. heap \in Heaps /\ LInv(heap, held) /\ Hooked(heap, held) /\ held \subseteq Live(heap)
    BY Heap DEF OwnInv
  <1>1. PICK a \in Live(heap), item \in Live(heap), r \in Free, d \in Names \cup {NULL} :
          Attach(With(item, r, d), a, r) /\ held' = held
    <2>1. \A item \in Live(heap) : Reference(heap, item).string = NULL
      BY <1>0, CellFields DEF Reference, Cells
    <2> HIDE DEF With
    <2>2. PICK a \in Live(heap), item \in Live(heap), r \in Free :
            \E d \in {Reference(heap, item).string} \cup UNION {Strdup(s) : s \in Names} :
              Attach(With(item, r, d), a, r) /\ held' = held
      BY Zenon DEF AddReference, With
    <2>3. {Reference(heap, item).string} \cup UNION {Strdup(s) : s \in Names}
            \subseteq Names \cup {NULL}
      BY <2>1, Strings
    <2> QED BY <2>2, <2>3
  <1> DEFINE c == heap[item]
             q == String_(Refer(c), d)
             h == Put(heap, r, q)
  <1>2. c \in Cells /\ c.child \in Live(heap) \cup {NULL} /\ r \in Nodes /\ r \notin Live(heap)
    BY <1>0, CellFields DEF LInv, Allocated, Free
  <1>3. Attach(h, a, r)
    BY <1>1 DEF Put, String_, Refer, Reference
  <1> HIDE DEF h
  <1> HIDE DEF q
  <1> HIDE DEF c
  <1>4. /\ q \in Cells /\ q.next = NULL /\ q.prev = NULL
        /\ q.child = NULL \/ (q.child \in Live(heap) /\ q.ref)
    BY <1>2, ReferCell DEF q
  <1>5. /\ LInv(h, held \cup {r}) /\ Live(h) = Live(heap) \cup {r}
        /\ \A n \in Live(heap) : h[n] = heap[n]
    BY <1>0, <1>2, <1>4, NewKeeps DEF h
  <1>6. Hooked(h, held \cup {r}) /\ h \in Heaps
    BY <1>0, <1>5, NewHooked DEF LInv
  <1>7. Hooked(heap', (held \cup {r}) \ {r}) /\ Founded(heap')
    <2>1. a \in Live(h) /\ r \in held \cup {r}
      BY <1>5
    <2> QED BY <1>3, <1>5, <1>6, <2>1, AttachKept
  <1>8. (held \cup {r}) \ {r} = held
    BY <1>0, <1>2
  <1> QED BY <1>1, <1>7, <1>8 DEF Kept

LEMMA DetachItemKept == OwnInv /\ DetachItem => Kept
  <1> SUFFICES ASSUME OwnInv, DetachItem PROVE Kept
    OBVIOUS
  <1>0. PICK a \in Live(heap) : \E c \in Items(heap, a) :
          ~heap[a].ref /\ heap' = Detach(heap, a, c) /\ held' = held \cup {c}
    BY DEF DetachItem
  <1>1. PICK c \in Items(heap, a) :
          ~heap[a].ref /\ heap' = Detach(heap, a, c) /\ held' = held \cup {c}
    BY <1>0
  <1>2. c \in Live(heap) /\ heap \in Heaps
    BY Heap DEF OwnInv, Items, Chain, Reach
  <1> QED BY <1>1, <1>2, DetachHooked, DetachFounded DEF OwnInv, Kept

(* A list item, or a held one, is deleted. *)
LEMMA DeleteKept ==
  ASSUME NEW h \in Heaps, NEW hd, LInv(h, hd), Hooked(h, hd), Founded(h), NEW c \in hd,
         NEW g, g = Delete(h, c)
  PROVE  Hooked(g, hd \ {c}) /\ Founded(g)
  <1>1. Live(g) \subseteq Live(h) /\ \A n \in Live(g) : g[n] = h[n]
    BY DEF Delete, Live
  <1> QED BY <1>1, DeleteHooked, FewerFounded

LEMMA DeleteItemKept == OwnInv /\ DeleteItem => Kept
  <1> SUFFICES ASSUME OwnInv, DeleteItem PROVE Kept
    OBVIOUS
  <1>0. PICK a \in Live(heap) : \E c \in Items(heap, a) :
          ~heap[a].ref /\ heap' = Delete(Detach(heap, a, c), c) /\ held' = held
    BY DEF DeleteItem, DeleteIn
  <1>1. PICK c \in Items(heap, a) :
          ~heap[a].ref /\ heap' = Delete(Detach(heap, a, c), c) /\ held' = held
    BY <1>0
  <1> DEFINE h == Detach(heap, a, c)
  <1>2. c \in Live(heap) /\ c \notin held /\ heap \in Heaps
    BY <1>1, Heap, NotHeld DEF OwnInv
  <1>3. LInv(h, held \cup {c}) /\ Hooked(h, held \cup {c}) /\ Founded(h)
    BY <1>1, <1>2, DetachKeeps, DetachHooked, DetachFounded DEF OwnInv
  <1> HIDE DEF h
  <1>4. Hooked(heap', (held \cup {c}) \ {c}) /\ Founded(heap')
    BY <1>1, <1>3, DeleteKept DEF h, LInv
  <1>5. (held \cup {c}) \ {c} = held
    BY <1>2
  <1> QED BY <1>1, <1>4, <1>5 DEF Kept

LEMMA DeleteHeldKept == OwnInv /\ DeleteHeld => Kept
  BY Heap, DeleteKept DEF OwnInv, DeleteHeld, DeleteIn, Kept

LEMMA SwapKept ==
  ASSUME NEW h \in Heaps, NEW hd, LInv(h, hd), Hooked(h, hd), NEW a \in Live(h), ~h[a].ref,
         NEW i \in hd, NEW c \in Items(h, a), NEW g, g = Replace(h, a, c, i), Founded(g)
  PROVE  Hooked(Delete(g, c), hd \ {i}) /\ Founded(Delete(g, c))
  <1>1. LInv(g, (hd \ {i}) \cup {c}) /\ Hooked(g, (hd \ {i}) \cup {c})
    BY ReplaceKeeps, ReplaceHooked
  <1>2. g \in Heaps /\ c \in (hd \ {i}) \cup {c}
    BY <1>1 DEF LInv
  <1>3. Hooked(Delete(g, c), ((hd \ {i}) \cup {c}) \ {c}) /\ Founded(Delete(g, c))
    BY <1>1, <1>2, DeleteKept
  <1>4. c \notin hd
    BY NotHeld
  <1>5. ((hd \ {i}) \cup {c}) \ {c} = hd \ {i}
    BY <1>4
  <1> QED BY <1>3, <1>5

LEMMA ReplaceInArrayKept == OwnInv /\ ReplaceInArray => Kept
  <1> SUFFICES ASSUME OwnInv, ReplaceInArray PROVE Kept
    OBVIOUS
  <1>0. PICK a \in Live(heap), i \in held : \E c \in Items(heap, a) :
          /\ ~heap[a].ref /\ Founded(Replace(heap, a, c, i))
          /\ heap' = Delete(Replace(heap, a, c, i), c) /\ held' = held \ {i}
    BY DEF ReplaceInArray, DeleteIn, MayHold
  <1>1. PICK c \in Items(heap, a) :
          /\ ~heap[a].ref /\ Founded(Replace(heap, a, c, i))
          /\ heap' = Delete(Replace(heap, a, c, i), c) /\ held' = held \ {i}
    BY <1>0
  <1>2. heap \in Heaps
    BY Heap DEF OwnInv
  <1> QED BY <1>1, <1>2, SwapKept DEF OwnInv, Kept

LEMMA ReplaceInObjectKept == OwnInv /\ ReplaceInObject => Kept
  <1> SUFFICES ASSUME OwnInv, ReplaceInObject PROVE Kept
    OBVIOUS
  <1> DEFINE To(a, i, c, d) == Replace(Rename(heap, i, d), a, c, i)
  <1>0. PICK a \in Live(heap), i \in held, s \in Names :
          \E c \in Items(heap, a), d \in Strdup(s) :
            /\ ~heap[a].ref /\ Founded(To(a, i, c, d))
            /\ heap' = Delete(To(a, i, c, d), c) /\ held' = held \ {i}
    BY DEF ReplaceInObject, Rename, MayHold
  <1>1. PICK c \in Items(heap, a), d \in Names \cup {NULL} :
            /\ ~heap[a].ref /\ Founded(To(a, i, c, d))
            /\ heap' = Delete(To(a, i, c, d), c) /\ held' = held \ {i}
    BY <1>0, Strings
  <1> DEFINE h == Rename(heap, i, d)
  <1>2. /\ LInv(h, held) /\ Hooked(h, held) /\ h \in Heaps /\ Live(h) = Live(heap)
        /\ h[a].ref = heap[a].ref /\ Items(h, a) = Items(heap, a)
    <2>1. i \in Live(heap) /\ heap \in Heaps
      BY Heap DEF OwnInv
    <2> QED BY <2>1, RenameHooked DEF OwnInv
  <1>3. Founded(Replace(h, a, c, i)) /\ heap' = Delete(Replace(h, a, c, i), c)
    BY <1>1
  <1> HIDE DEF h
  <1>4. ~h[a].ref /\ c \in Items(h, a) /\ a \in Live(h)
    BY <1>1, <1>2
  <1> QED BY <1>1, <1>2, <1>3, <1>4, SwapKept DEF Kept

(* What is below an item is the first of a list in it or follows another   *)
(* item in it: the copies are hooked to one another as the originals are.  *)
LEMMA ContentFrom ==
  ASSUME NEW h \in Heaps, Allocated(h), NEW item \in Live(h), NEW m \in Content(h, item),
         m # h[item].child
  PROVE  \E k \in Content(h, item) : h[k].next = m \/ h[k].child = m
  <1> DEFINE C == Content(h, item)
             S == C \ {m}
  <1> SUFFICES ASSUME \A k \in C : h[k].next # m /\ h[k].child # m PROVE FALSE
    OBVIOUS
  <1>1. C \subseteq Live(h)
    BY DEF Content, Reach
  <1>2. \A k \in C : {h[k].next, h[k].child} \subseteq C \cup {NULL}
    BY <1>1 DEF Content, Reach, Allocated
  <1>3. h[item].child \in C \cup {NULL}
    BY DEF Content, Reach, Allocated
  <1>4. S \in SUBSET Live(h) /\ h[item].child \in S \cup {NULL}
        /\ \A k \in S : {h[k].next, h[k].child} \subseteq S \cup {NULL}
    BY <1>1, <1>2, <1>3
  <1>5. \A T \in SUBSET Live(h) :
          h[item].child \in T \cup {NULL}
          /\ (\A k \in T : {h[k].next, h[k].child} \subseteq T \cup {NULL}) => m \in T
    BY DEF Content, Reach
  <1> HIDE DEF S
  <1>6. m \in S
    BY <1>4, <1>5
  <1> QED BY <1>6 DEF S

LEMMA DuplicateKept == OwnInv /\ Duplicate => Kept
  <1> SUFFICES ASSUME OwnInv, Duplicate PROVE Kept
    OBVIOUS
  <1>1. PICK item, S, f : Copies(item, S, f)
    BY DuplicateCells DEF OwnInv
  <1> DEFINE D == {f[m] : m \in S}
             To(x) == CopyOf(x, item, S, f)
  <1>2. /\ heap \in Heaps /\ held \subseteq Live(heap) /\ Allocated(heap) /\ BothWays(heap, held)
        /\ NULL \notin Live(heap) /\ item \in S /\ S \subseteq Live(heap)
        /\ S = {item} \/ S = {item} \cup Content(heap, item)
        /\ held' = held \cup {f[item]}
    BY <1>1, NullIsNoNode DEF OwnInv, LInv, Live, Copies
  <1>3. /\ \A m \in S : f[m] \notin Live(heap) /\ f[m] # NULL
        /\ \A m, n \in S : f[m] = f[n] => m = n
        /\ Live(heap') = Live(heap) \cup D
        /\ \A n \in Live(heap) : n \notin D /\ heap'[n] = heap[n]
    BY <1>1 DEF Copies
  <1>4. \A m \in S :
          /\ heap'[f[m]].next = IF m = item THEN NULL ELSE To(heap[m].next)
          /\ heap'[f[m]].prev = IF m = item THEN NULL ELSE To(heap[m].prev)
          /\ heap'[f[m]].child = To(heap[m].child) /\ ~heap'[f[m]].ref
    BY <1>1 DEF Copies
  <1>5. \A x : To(x) = IF x \in S \ {item} THEN f[x] ELSE NULL
    BY DEF CopyOf
  <1> HIDE DEF To
  <1>6. ASSUME NEW n \in Live(heap) \ held
        PROVE  heap'[n].prev # NULL \/ \E b \in Live(heap') : ~heap'[b].ref /\ heap'[b].child = n
    BY <1>3 DEF OwnInv, Hooked
  <1>7. ASSUME NEW m \in S, m # item
        PROVE  heap'[f[m]].prev # NULL
               \/ \E b \in Live(heap') : ~heap'[b].ref /\ heap'[b].child = f[m]
    <2>1. m \in Content(heap, item) /\ S = {item} \cup Content(heap, item)
      BY <1>2, <1>7
    <2>2. item \notin Content(heap, item)
      BY <1>2, NotInItself DEF OwnInv
    <2>3. PICK k \in S : heap[k].child = m \/ (k # item /\ heap[k].next = m)
      <3>1. CASE m = heap[item].child
        BY <1>2, <3>1
      <3>2. CASE m # heap[item].child
        BY <1>2, <2>1, <2>2, <3>2, ContentFrom
      <3> QED BY <3>1, <3>2
    <2>4. CASE heap[k].child = m
      <3>1. f[k] \in Live(heap') /\ heap'[f[k]].child = f[m] /\ ~heap'[f[k]].ref
        BY <1>3, <1>4, <1>5, <1>7, <2>4
      <3> QED BY <3>1
    <2>5. CASE k # item /\ heap[k].next = m
      <3>1. heap[m].prev = k
        BY <1>2, <2>5 DEF BothWays
      <3> QED BY <1>3, <1>4, <1>5, <1>7, <2>5, <3>1
    <2> QED BY <2>3, <2>4, <2>5
  <1>8. Hooked(heap', held')
    <2> SUFFICES ASSUME NEW n \in Live(heap') \ held'
                 PROVE  heap'[n].prev # NULL
                        \/ \E b \in Live(heap') : ~heap'[b].ref /\ heap'[b].child = n
      BY DEF Hooked
    <2>1. CASE n \in Live(heap)
      BY <1>2, <1>6, <2>1
    <2>2. CASE n \in D
      <3>1. PICK m \in S : n = f[m]
        BY <2>2
      <3>2. m # item
        BY <1>2, <3>1
      <3> QED BY <1>7, <3>1, <3>2
    <2> QED BY <1>3, <2>1, <2>2
  <1>9. Founded(heap')
    <2>1. SUFFICES ASSUME NEW X \in SUBSET Live(heap'), X # {},
                          \A x \in X : {heap'[x].next, heap'[x].child} \cap X # {}
                   PROVE  FALSE
      BY Zenon DEF Founded
    <2> DEFINE Y == X \cap Live(heap)
               T == {m \in S : f[m] \in X}
    <2>2. \A x \in Y : {heap[x].next, heap[x].child} \cap Y # {}
      <3> TAKE x \in Y
      <3>1. heap'[x] = heap[x] /\ {heap[x].next, heap[x].child} \subseteq Live(heap) \cup {NULL}
        BY <1>2, <1>3 DEF Allocated
      <3>2. NULL \notin X
        BY NullIsNoNode DEF Live
      <3>3. {heap[x].next, heap[x].child} \cap X # {}
        BY <2>1, <3>1
      <3> QED BY <3>1, <3>2, <3>3
    <2>3. \A m \in T : {heap[m].next, heap[m].child} \cap T # {}
      <3> TAKE m \in T
      <3>1. NULL \notin X
        BY NullIsNoNode DEF Live
      <3>2. heap'[f[m]].next \in X \/ heap'[f[m]].child \in X
        BY <2>1
      <3>3. \A x : To(x) \in X => x \in T
        BY <1>5, <3>1
      <3>4. heap[m].next \in T \/ heap[m].child \in T
        <4> HIDE DEF T
        <4>1. m \in S
          BY DEF T
        <4> QED BY <1>4, <3>1, <3>2, <3>3, <4>1
      <3> QED BY <3>4
    <2>4. Y # {} \/ T # {}
      BY <1>3, <2>1
    <2>5. Y \in SUBSET Live(heap) /\ T \in SUBSET Live(heap)
      BY <1>2
    <2> HIDE DEF Y, T
    <2> QED BY <2>2, <2>3, <2>4, <2>5 DEF OwnInv, Founded
  <1> QED BY <1>8, <1>9 DEF Kept

LEMMA OwnCorrect == Spec => []OwnInv
  <1>1. Init => OwnInv
    <2> SUFFICES ASSUME Init PROVE Hooked(heap, held) /\ Founded(heap)
      BY InitLists DEF OwnInv
    <2>1. Live(heap) = {}
      BY DEF Init, Live
    <2> QED BY <2>1 DEF Hooked, Founded
  <1>2. OwnInv /\ [Next]_vars => OwnInv'
    <2> SUFFICES ASSUME OwnInv, [Next]_vars PROVE OwnInv'
      OBVIOUS
    <2>1. LInv(heap, held)'
      BY NextLists DEF ListInv, OwnInv
    <2>2. CASE UNCHANGED vars
      BY <2>1, <2>2 DEF vars, OwnInv, Hooked, Founded, Live
    <2>3. ASSUME Next PROVE Kept
      BY <2>3, CreateKept, CreateNumbersKept, AddToArrayKept, AddToObjectKept, AddReferenceKept,
         DetachItemKept, DeleteItemKept, DeleteHeldKept, ReplaceInArrayKept,
         ReplaceInObjectKept, DuplicateKept
      DEF Next
    <2> QED BY <2>1, <2>2, <2>3 DEF OwnInv, Kept
  <1> QED BY <1>1, <1>2, PTL DEF Spec

(* Every item has one owner, the application or a list, however items are  *)
(* added, referred to, taken out, replaced, copied and deleted, and        *)
(* however many there are: one call frees each item, and only one.         *)
THEOREM ItemsHaveOneOwner == Spec => []OneOwner
  <1>1. ASSUME OwnInv, NEW n \in Live(heap)
        PROVE  Cardinality(Owners(n)) = IF n \in held THEN 0 ELSE 1
    <2>1. heap \in Heaps /\ LInv(heap, held) /\ Owned(heap, held)
      BY <1>1, HookedOwned, Heap DEF OwnInv
    <2>2. CASE n \in held
      <3>1. Owners(n) = {}
        BY <2>1, <2>2, NotHeld DEF Owners
      <3> QED BY <2>2, <3>1, FS_EmptySet
    <2>3. CASE n \notin held
      <3>1. PICK a \in Live(heap) : ~heap[a].ref /\ n \in Items(heap, a)
        BY <2>1, <2>3 DEF Owned
      <3>2. \A b \in Owners(n) : b = a
        BY <2>1, <3>1, OneList DEF Owners
      <3>3. Owners(n) = {a}
        BY <3>1, <3>2 DEF Owners
      <3> QED BY <2>3, <3>3, FS_Singleton
    <2> QED BY <2>2, <2>3
  <1>2. OwnInv => OneOwner
    BY <1>1 DEF OneOwner
  <1> QED BY <1>2, OwnCorrect, PTL

-----------------------------------------------------------------------------
(* The list from c on, as a sequence.                                      *)

IsList(h, c, s) ==
  /\ s \in Seq(Live(h))
  /\ IF Len(s) = 0 THEN c = NULL ELSE s[1] = c /\ h[s[Len(s)]].next = NULL
  /\ \A k \in 1..(Len(s) - 1) : h[s[k]].next = s[k + 1]

LEMMA ListCons ==
  ASSUME NEW h, NEW c \in Live(h), NEW t, IsList(h, h[c].next, t)
  PROVE  IsList(h, c, <<c>> \o t)
  <1> DEFINE s == <<c>> \o t
  <1>1. s \in Seq(Live(h)) /\ Len(s) = Len(t) + 1 /\ Len(t) \in Nat /\ s[1] = c
        /\ \A k \in 1..Len(t) : s[k + 1] = t[k]
    BY DEF IsList
  <1>2. h[s[Len(s)]].next = NULL
    BY <1>1 DEF IsList
  <1>3. ASSUME NEW k \in 1..(Len(s) - 1) PROVE h[s[k]].next = s[k + 1]
    <2>1. CASE k = 1
      BY <1>1, <2>1 DEF IsList
    <2>2. CASE k > 1
      <3>1. k - 1 \in 1..(Len(t) - 1)
        BY <1>1, <2>2
      <3>2. h[t[k - 1]].next = t[k]
        BY <3>1 DEF IsList
      <3>3. s[k] = t[k - 1] /\ s[k + 1] = t[k]
        BY <1>1, <3>1
      <3> QED BY <3>2, <3>3
    <2> QED BY <2>1, <2>2
  <1> HIDE DEF s
  <1> QED BY <1>1, <1>2, <1>3 DEF IsList

LEMMA ListTail ==
  ASSUME NEW h, NULL \notin Live(h), NEW c \in Live(h), NEW s, IsList(h, c, s)
  PROVE  IsList(h, h[c].next, Tail(s)) /\ s = <<c>> \o Tail(s)
  <1> DEFINE t == Tail(s)
  <1>1. s \in Seq(Live(h)) /\ Len(s) > 0 /\ s[1] = c /\ Len(s) \in Nat
    BY DEF IsList
  <1>2. t \in Seq(Live(h)) /\ Len(t) = Len(s) - 1 /\ \A k \in 1..Len(t) : t[k] = s[k + 1]
    BY <1>1
  <1>3. s = <<c>> \o t
    BY <1>1, <1>2
  <1> HIDE DEF t
  <1>4. Len(t) = 0 => h[c].next = NULL
    <2>1. h[s[Len(s)]].next = NULL
      BY <1>1 DEF IsList
    <2>2. Len(t) = 0 => Len(s) = 1
      BY <1>1, <1>2
    <2> QED BY <1>1, <2>1, <2>2
  <1>5. Len(t) # 0 => t[1] = h[c].next /\ h[t[Len(t)]].next = NULL
    BY <1>1, <1>2 DEF IsList
  <1>6. \A k \in 1..(Len(t) - 1) : h[t[k]].next = t[k + 1]
    <2> TAKE k \in 1..(Len(t) - 1)
    <2>1. k + 1 \in 1..(Len(s) - 1)
      BY <1>1, <1>2
    <2> QED BY <1>1, <1>2, <2>1 DEF IsList
  <1> QED BY <1>2, <1>3, <1>4, <1>5, <1>6 DEF IsList, t

(* Lists end, so what leads to more of the same kind without end is empty. *)
LEMMA NoneLeads ==
  ASSUME NEW h, Founded(h), NEW S \in SUBSET Live(h),
         \A m \in S : h[m].next \in S \/ h[m].child \in S
  PROVE  S = {}
  BY DEF Founded

LEMMA ListOfNull ==
  ASSUME NEW h, NULL \notin Live(h)
  PROVE  IsList(h, NULL, <<>>) /\ \A s : IsList(h, NULL, s) => s = <<>>
  <1>1. IsList(h, NULL, <<>>)
    BY DEF IsList
  <1>2. ASSUME NEW s, IsList(h, NULL, s) PROVE s = <<>>
    <2>1. s \in Seq(Live(h)) /\ (Len(s) # 0 => s[1] = NULL)
      BY <1>2 DEF IsList
    <2>2. Len(s) # 0 => s[1] \in Live(h)
      BY <2>1
    <2> QED BY <2>1, <2>2
  <1> QED BY <1>1, <1>2

LEMMA ListUnique ==
  ASSUME NEW h, NULL \notin Live(h), Allocated(h), Founded(h), NEW c, NEW s, NEW t,
         IsList(h, c, s), IsList(h, c, t)
  PROVE  s = t
  <1> DEFINE S == {m \in Live(h) : \E x, y \in Seq(Live(h)) :
                                     IsList(h, m, x) /\ IsList(h, m, y) /\ x # y}
  <1>1. ASSUME NEW m \in S PROVE h[m].next \in S
    <2>1. PICK x \in Seq(Live(h)), y \in Seq(Live(h)) :
            IsList(h, m, x) /\ IsList(h, m, y) /\ x # y
      OBVIOUS
    <2>2. m \in Live(h)
      OBVIOUS
    <2>3. /\ IsList(h, h[m].next, Tail(x)) /\ IsList(h, h[m].next, Tail(y))
          /\ Tail(x) # Tail(y)
      BY <2>1, <2>2, ListTail
    <2>4. h[m].next # NULL
      BY <2>3, ListOfNull
    <2>5. h[m].next \in Live(h)
      BY <2>2, <2>4 DEF Allocated
    <2>6. Tail(x) \in Seq(Live(h)) /\ Tail(y) \in Seq(Live(h))
      BY <2>3 DEF IsList
    <2> QED BY <2>3, <2>5, <2>6
  <1>2. S = {}
    <2>1. S \in SUBSET Live(h)
      OBVIOUS
    <2> HIDE DEF S
    <2> QED BY <1>1, <2>1, NoneLeads
  <1>3. s \in Seq(Live(h)) /\ t \in Seq(Live(h))
    BY DEF IsList
  <1>4. CASE Len(s) = 0
    <2>1. c = NULL
      BY <1>4 DEF IsList
    <2> QED BY <2>1, ListOfNull
  <1>5. CASE Len(s) # 0
    <2>1. c \in Live(h)
      BY <1>3, <1>5 DEF IsList
    <2> QED BY <1>2, <1>3, <2>1
  <1> QED BY <1>4, <1>5

LEMMA ListExists ==
  ASSUME NEW h, NULL \notin Live(h), Allocated(h), Founded(h), NEW c \in Live(h) \cup {NULL}
  PROVE  \E s : IsList(h, c, s)
  <1> DEFINE S == {m \in Live(h) : \A s : ~IsList(h, m, s)}
  <1>1. ASSUME NEW m \in S PROVE h[m].next \in S
    <2>1. \A t : ~IsList(h, h[m].next, t)
      <3> SUFFICES ASSUME NEW t, IsList(h, h[m].next, t) PROVE FALSE
        OBVIOUS
      <3>1. IsList(h, m, <<m>> \o t)
        BY ListCons
      <3> QED BY <3>1
    <2>2. h[m].next # NULL
      BY <2>1, ListOfNull
    <2>3. h[m].next \in Live(h)
      BY <2>2 DEF Allocated
    <2> QED BY <2>1, <2>3
  <1>2. S = {}
    <2>1. S \in SUBSET Live(h)
      OBVIOUS
    <2> HIDE DEF S
    <2> QED BY <1>1, <2>1, NoneLeads
  <1> QED BY <1>2, ListOfNull

LEMMA ListedIs ==
  ASSUME NEW h \in Heaps, Allocated(h), Founded(h), NEW c \in Live(h) \cup {NULL}
  PROVE  IsList(h, c, Listed(h, c))
  <1>0. NULL \notin Live(h) /\ Live(h) \cup {NULL} \subseteq Pointers
    BY NullIsNoNode DEF Live, Pointers
  <1> DEFINE L(m) == IF m \in Live(h) THEN CHOOSE s : IsList(h, m, s) ELSE <<>>
             f == [m \in Pointers |-> L(m)]
             E(g) == g = [m \in Pointers |->
                            IF m \in Live(h) THEN <<m>> \o g[h[m].next] ELSE <<>>]
             from == CHOOSE g : E(g)
  <1>1. \A m \in Live(h) \cup {NULL} : IsList(h, m, L(m))
    <2>1. IsList(h, NULL, L(NULL))
      BY <1>0, ListOfNull
    <2>2. \A m \in Live(h) : IsList(h, m, L(m))
      BY <1>0, ListExists
    <2> HIDE DEF L
    <2> QED BY <2>1, <2>2
  <1> HIDE DEF L
  <1>2. E(f)
    <2>1. ASSUME NEW m \in Pointers
          PROVE  f[m] = IF m \in Live(h) THEN <<m>> \o f[h[m].next] ELSE <<>>
      <3>1. CASE m \in Live(h)
        <4>1. h[m].next \in Live(h) \cup {NULL}
          BY <3>1 DEF Allocated
        <4>2. IsList(h, m, <<m>> \o L(h[m].next))
          BY <1>1, <3>1, <4>1, ListCons
        <4>3. IsList(h, m, L(m))
          BY <1>1, <3>1
        <4>4. L(m) = <<m>> \o L(h[m].next)
          BY <1>0, <4>2, <4>3, ListUnique
        <4>5. f[h[m].next] = L(h[m].next)
          BY <1>0, <4>1
        <4> QED BY <3>1, <4>4, <4>5
      <3>2. CASE m \notin Live(h)
        BY <3>2 DEF L
      <3> QED BY <3>1, <3>2
    <2> HIDE DEF f
    <2>2. f = [m \in Pointers |-> f[m]]
      BY DEF f
    <2> QED BY <2>1, <2>2, Zenon
  <1> HIDE DEF f
  <1>3. E(from)
    <2> HIDE DEF E
    <2> QED BY <1>2
  <1>4. Listed(h, c) = from[c]
    BY DEF Listed
  <1> HIDE DEF from
  <1>5. /\ from[NULL] = <<>>
        /\ \A m \in Live(h) : from[m] = <<m>> \o from[h[m].next]
    <2>1. from = [m \in Pointers |-> IF m \in Live(h) THEN <<m>> \o from[h[m].next] ELSE <<>>]
      BY <1>3
    <2> QED BY <1>0, <2>1 DEF Pointers
  <1> HIDE DEF E
  <1> DEFINE S == {m \in Live(h) : ~IsList(h, m, from[m])}
  <1>6. IsList(h, NULL, from[NULL])
    BY <1>0, <1>5, ListOfNull
  <1>7. ASSUME NEW m \in S PROVE h[m].next \in S
    <2>1. ~IsList(h, h[m].next, from[h[m].next])
      BY <1>5, ListCons
    <2>2. h[m].next # NULL
      BY <1>6, <2>1
    <2>3. h[m].next \in Live(h)
      BY <2>2 DEF Allocated
    <2> QED BY <2>1, <2>3
  <1>8. S = {}
    <2>1. S \in SUBSET Live(h)
      OBVIOUS
    <2> HIDE DEF S
    <2> QED BY <1>7, <2>1, NoneLeads
  <1> QED BY <1>4, <1>6, <1>8

LEMMA ListedOnly ==
  ASSUME NEW h \in Heaps, Allocated(h), Founded(h), NEW c \in Live(h) \cup {NULL}, NEW s,
         IsList(h, c, s)
  PROVE  Listed(h, c) = s
  <1>1. NULL \notin Live(h)
    BY NullIsNoNode DEF Live
  <1>2. IsList(h, c, Listed(h, c))
    BY ListedIs
  <1> QED BY <1>1, <1>2, ListUnique

LEMMA KeepsList ==
  ASSUME NEW h, NEW g, NEW c, NEW s, IsList(h, c, s), Live(h) \subseteq Live(g),
         \A k \in 1..Len(s) : g[s[k]].next = h[s[k]].next
  PROVE  IsList(g, c, s)
  <1>1. s \in Seq(Live(h)) /\ Len(s) \in Nat
    BY DEF IsList
  <1>2. s \in Seq(Live(g))
    BY <1>1
  <1>3. Len(s) # 0 => g[s[Len(s)]].next = h[s[Len(s)]].next
    BY <1>1
  <1>4. \A k \in 1..(Len(s) - 1) : g[s[k]].next = h[s[k]].next
    BY <1>1
  <1> QED BY <1>2, <1>3, <1>4 DEF IsList

-----------------------------------------------------------------------------
(* The children of an item, and the items of its list.                     *)

Sound(h, hd) == h \in Heaps /\ LInv(h, hd) /\ Founded(h)

Parent(h, a) == a \in Live(h) /\ ~h[a].ref

LEMMA ParentList ==
  ASSUME NEW h, NEW hd, Sound(h, hd), NEW a, Parent(h, a)
  PROVE  /\ IsList(h, h[a].child, Children(h)[a])
         /\ \A s : IsList(h, h[a].child, s) => Children(h)[a] = s
         /\ h[a].child \in Live(h) \cup {NULL}
  <1>1. a \in Nodes /\ Children(h)[a] = Listed(h, h[a].child)
    BY DEF Parent, Live, Children
  <1>2. h[a].child \in Live(h) \cup {NULL} /\ h \in Heaps /\ Allocated(h) /\ Founded(h)
    BY DEF Parent, Sound, LInv, Allocated
  <1> QED BY <1>1, <1>2, ListedIs, ListedOnly

LEMMA OtherList ==
  ASSUME NEW h, NEW a \in Nodes, ~Parent(h, a)
  PROVE  Children(h)[a] = <<>>
  BY DEF Parent, Children

LEMMA ListSet ==
  ASSUME NEW h, NEW hd, Sound(h, hd), NEW a, Parent(h, a), NEW s, s = Children(h)[a]
  PROVE  {s[k] : k \in 1..Len(s)} = Items(h, a)
  <1> DEFINE X(t) == {t[k] : k \in 1..Len(t)}
             T == Items(h, a)
             S == {m \in T : ~(X(Listed(h, m)) \subseteq T)}
  <1>0. h \in Heaps /\ Allocated(h) /\ Founded(h) /\ a \in Live(h) /\ NULL \notin Live(h)
    BY NullIsNoNode DEF Sound, LInv, Parent, Live
  <1>1. Closed(h, h[a].child, T)
    BY <1>0, ItemsClosed
  <1>2. IsList(h, h[a].child, s) /\ s = Listed(h, h[a].child)
        /\ h[a].child \in Live(h) \cup {NULL}
    <2>1. s = Listed(h, h[a].child)
      BY DEF Children, Parent, Live
    <2> QED BY <2>1, ParentList
  <1>3. X(s) \subseteq Live(h)
    BY <1>2 DEF IsList
  <1>4. Closed(h, h[a].child, X(s))
    <2>1. s \in Seq(Live(h)) /\ Len(s) \in Nat
      BY <1>2 DEF IsList
    <2>2. h[a].child \in X(s) \cup {NULL}
      BY <1>2, <2>1 DEF IsList
    <2>3. ASSUME NEW k \in 1..Len(s) PROVE h[s[k]].next \in X(s) \cup {NULL}
      <3>1. CASE k = Len(s)
        BY <1>2, <2>1, <3>1 DEF IsList
      <3>2. CASE k # Len(s)
        <4>1. k \in 1..(Len(s) - 1) /\ k + 1 \in 1..Len(s)
          BY <2>1, <3>2
        <4>2. h[s[k]].next = s[k + 1]
          BY <1>2, <4>1 DEF IsList
        <4> QED BY <4>1, <4>2
      <3> QED BY <3>1, <3>2
    <2> QED BY <1>3, <2>2, <2>3 DEF Closed
  <1>5. T \subseteq X(s)
    BY <1>4, ItemsLeast
  <1>6. ASSUME NEW m \in S PROVE h[m].next \in S
    <2>1. m \in T /\ m \in Live(h) /\ ~(X(Listed(h, m)) \subseteq T)
      BY <1>1 DEF Closed
    <2>2. h[m].next \in T \cup {NULL} /\ h[m].next \in Live(h) \cup {NULL}
      BY <1>0, <1>1, <2>1 DEF Closed, Allocated
    <2> DEFINE t == Listed(h, h[m].next)
    <2>3. Listed(h, m) = <<m>> \o t /\ t \in Seq(Live(h))
      <3>1. IsList(h, h[m].next, t)
        BY <1>0, <2>2, ListedIs
      <3>2. IsList(h, m, <<m>> \o t)
        BY <2>1, <3>1, ListCons
      <3> QED BY <1>0, <2>1, <3>1, <3>2, ListedOnly DEF IsList
    <2>4. h[m].next = NULL => t = <<>>
      BY <1>0, ListOfNull, ListedOnly
    <2> HIDE DEF t
    <2>5. X(<<m>> \o t) \subseteq {m} \cup X(t)
      BY <2>3
    <2>6. ~(X(t) \subseteq T)
      BY <2>1, <2>3, <2>5
    <2>7. h[m].next # NULL
      BY <2>4, <2>6
    <2> QED BY <2>2, <2>6, <2>7 DEF t
  <1>7. S = {}
    <2>1. S \in SUBSET Live(h)
      BY <1>1 DEF Closed
    <2> HIDE DEF S
    <2> QED BY <1>0, <1>6, <2>1, NoneLeads
  <1>8. X(s) \subseteq T
    <2>1. CASE h[a].child = NULL
      <3>1. s = <<>>
        BY <1>0, <1>2, <2>1, ListOfNull
      <3> QED BY <3>1
    <2>2. CASE h[a].child # NULL
      BY <1>1, <1>2, <1>7, <2>2 DEF Closed
    <2> QED BY <2>1, <2>2
  <1> QED BY <1>5, <1>8

(* No item is in a list twice. *)
LEMMA ListOnce ==
  ASSUME NEW h, Founded(h), NEW c, NEW s, IsList(h, c, s),
         NEW i \in 1..Len(s), NEW j \in 1..Len(s), s[i] = s[j]
  PROVE  i = j
  <1>1. s \in Seq(Live(h)) /\ Len(s) \in Nat
    BY DEF IsList
  <1>2. ASSUME NEW x \in 1..Len(s), NEW y \in 1..Len(s), x < y, s[x] = s[y] PROVE FALSE
    <2> DEFINE S == {s[k] : k \in x..(y - 1)}
    <2>1. ASSUME NEW k \in x..(y - 1) PROVE h[s[k]].next \in S
      <3>1. k \in 1..(Len(s) - 1)
        BY <1>1, <1>2
      <3>2. h[s[k]].next = s[k + 1]
        BY <3>1 DEF IsList
      <3>3. CASE k + 1 = y
        BY <1>2, <3>2, <3>3
      <3>4. CASE k + 1 # y
        <4>1. k + 1 \in x..(y - 1)
          BY <1>1, <1>2, <3>4
        <4> QED BY <3>2, <4>1
      <3> QED BY <3>3, <3>4
    <2>2. S \in SUBSET Live(h) /\ s[x] \in S
      BY <1>1, <1>2
    <2>3. \A m \in S : h[m].next \in S
      BY <2>1
    <2> HIDE DEF S
    <2> QED BY <2>2, <2>3, NoneLeads
  <1>3. i < j \/ j < i \/ i = j
    BY <1>1
  <1> QED BY <1>2, <1>3

LEMMA KidsSet ==
  ASSUME NEW h, NEW hd, Sound(h, hd), NEW n \in Nodes
  PROVE  /\ Children(h)[n] \in Seq(Live(h))
         /\ Forest!ToSet(Children(h)[n]) = IF Parent(h, n) THEN Items(h, n) ELSE {}
  <1>1. CASE Parent(h, n)
    <2> DEFINE s == Children(h)[n]
    <2>1. s \in Seq(Live(h))
      BY <1>1, ParentList DEF IsList
    <2>2. {s[k] : k \in 1..Len(s)} = Items(h, n)
      BY <1>1, ListSet
    <2> HIDE DEF s
    <2>3. DOMAIN s = 1..Len(s)
      BY <2>1
    <2>4. Forest!ToSet(s) = Items(h, n)
      BY <2>2, <2>3 DEF Forest!ToSet
    <2> QED BY <1>1, <2>1, <2>4 DEF s
  <1>2. CASE ~Parent(h, n)
    <2>1. Children(h)[n] = <<>>
      BY <1>2, OtherList
    <2> QED BY <1>2, <2>1 DEF Forest!ToSet
  <1> QED BY <1>1, <1>2

LEMMA KidsForest ==
  ASSUME NEW h, NEW hd, Sound(h, hd)
  PROVE  /\ Forest!IsForest(Children(h))
         /\ \A c \in hd, n \in Nodes : c \notin Forest!ToSet(Children(h)[n])
  <1>0. h \in Heaps /\ LInv(h, hd) /\ Founded(h)
    BY DEF Sound
  <1>1. ASSUME NEW m \in Nodes, NEW n \in Nodes,
               NEW i \in DOMAIN Children(h)[m], NEW j \in DOMAIN Children(h)[n],
               Children(h)[m][i] = Children(h)[n][j]
        PROVE  m = n /\ i = j
    <2>1. /\ Children(h)[m][i] \in Forest!ToSet(Children(h)[m])
          /\ Children(h)[n][j] \in Forest!ToSet(Children(h)[n])
      BY DEF Forest!ToSet
    <2>2. /\ Parent(h, m) /\ Children(h)[m][i] \in Items(h, m)
          /\ Parent(h, n) /\ Children(h)[n][j] \in Items(h, n)
      BY <2>1, KidsSet
    <2>3. m = n
      BY <1>0, <1>1, <2>2, OneList DEF Parent
    <2> DEFINE s == Children(h)[m]
    <2>4. IsList(h, h[m].child, s) /\ i \in 1..Len(s) /\ j \in 1..Len(s) /\ s[i] = s[j]
      <3>1. s \in Seq(Live(h))
        BY KidsSet
      <3>2. DOMAIN s = 1..Len(s)
        BY <3>1
      <3> QED BY <1>1, <2>2, <2>3, <3>2, ParentList
    <2> HIDE DEF s
    <2> QED BY <1>0, <2>3, <2>4, ListOnce
  <1>2. ASSUME NEW c \in hd, NEW n \in Nodes, c \in Forest!ToSet(Children(h)[n]) PROVE FALSE
    <2>1. Parent(h, n) /\ c \in Items(h, n)
      BY <1>2, KidsSet
    <2> QED BY <1>0, <2>1, NotHeld DEF Parent
  <1> QED BY <1>1, <1>2 DEF Forest!IsForest

-----------------------------------------------------------------------------
(* Trees.                                                                  *)

LEMMA TreeLeast ==
  ASSUME NEW k, NEW c, NEW S \in SUBSET Nodes, c \in S,
         \A m \in S : Forest!ToSet(k[m]) \subseteq S
  PROVE  Forest!Tree(k, c) \subseteq S
  BY DEF Forest!Tree

LEMMA TreeClosed ==
  ASSUME NEW k, \A n \in Nodes : Forest!ToSet(k[n]) \subseteq Nodes, NEW c \in Nodes
  PROVE  /\ Forest!Tree(k, c) \subseteq Nodes /\ c \in Forest!Tree(k, c)
         /\ \A m \in Forest!Tree(k, c) : Forest!ToSet(k[m]) \subseteq Forest!Tree(k, c)
  <1> DEFINE T == Forest!Tree(k, c)
             Shut(S) == c \in S /\ \A m \in S : Forest!ToSet(k[m]) \subseteq S
  <1>1. \A n : n \in T <=> n \in Nodes /\ \A S \in SUBSET Nodes : Shut(S) => n \in S
    BY DEF Forest!Tree
  <1> HIDE DEF T
  <1>2. \A n \in T : \A x \in Forest!ToSet(k[n]) : x \in T
    BY <1>1
  <1>3. c \in T /\ T \subseteq Nodes
    BY <1>1
  <1> QED BY <1>2, <1>3 DEF T

LEMMA TreeFrom ==
  ASSUME NEW k, \A n \in Nodes : Forest!ToSet(k[n]) \subseteq Nodes, NEW c \in Nodes,
         NEW n \in Forest!Tree(k, c), n # c
  PROVE  \E m \in Forest!Tree(k, c) : n \in Forest!ToSet(k[m])
  <1> DEFINE T == Forest!Tree(k, c)
  <1>1. /\ T \subseteq Nodes /\ c \in T /\ n \in T
        /\ \A m \in T : Forest!ToSet(k[m]) \subseteq T
    BY TreeClosed
  <1>2. \A S \in SUBSET Nodes :
          c \in S /\ (\A m \in S : Forest!ToSet(k[m]) \subseteq S) => T \subseteq S
    BY TreeLeast
  <1> HIDE DEF T
  <1> SUFFICES ASSUME \A m \in T : n \notin Forest!ToSet(k[m]) PROVE FALSE
    BY DEF T
  <1>3. T \subseteq T \ {n}
    <2> DEFINE S == T \ {n}
    <2>1. S \in SUBSET Nodes /\ c \in S /\ \A m \in S : Forest!ToSet(k[m]) \subseteq S
      BY <1>1
    <2> HIDE DEF S
    <2>2. T \subseteq S
      BY <1>2, <2>1
    <2> QED BY <2>2 DEF S
  <1> QED BY <1>1, <1>3

(* What cJSON_Delete frees is a tree. *)
LEMMA TreeFreed ==
  ASSUME NEW h, NEW hd, Sound(h, hd), NEW c \in Live(h), h[c].next = NULL
  PROVE  Forest!Tree(Children(h), c) = Freed(h, c)
  <1> DEFINE k == Children(h)
             T == Forest!Tree(k, c)
             F == Freed(h, c)
  <1>0. /\ h \in Heaps /\ Allocated(h) /\ LInv(h, hd) /\ Live(h) \subseteq Nodes
        /\ NULL \notin Live(h) /\ c \in Nodes
    BY NullIsNoNode DEF Sound, LInv, Live
  <1>1. \A n \in Nodes :
          Forest!ToSet(k[n]) = IF Parent(h, n) THEN Items(h, n) ELSE {}
    BY KidsSet
  <1>2. \A n \in Nodes : Parent(h, n) => Closed(h, h[n].child, Items(h, n))
    BY <1>0, ItemsClosed DEF Parent
  <1>3. \A n \in Nodes : Forest!ToSet(k[n]) \subseteq Live(h)
    BY <1>1, <1>2 DEF Closed
  <1>4. \A m \in F : /\ m \in Live(h)
                     /\ h[m].next \in F \cup {NULL}
                     /\ ~h[m].ref => h[m].child \in F \cup {NULL}
    BY <1>0, FreedClosed
  <1>5. c \in F
    BY <1>0 DEF Freed, Reach
  <1>6. \A n \in F : Parent(h, n) => Items(h, n) \subseteq F
    <2> HIDE DEF F
    <2> SUFFICES ASSUME NEW n \in F, Parent(h, n) PROVE Items(h, n) \subseteq F
      OBVIOUS
    <2>1. Closed(h, h[n].child, F)
      BY <1>4 DEF Closed, Parent
    <2> QED BY <2>1, ItemsLeast
  <1> HIDE DEF k
  <1>7. T \subseteq F
    <2> HIDE DEF F
    <2>1. F \in SUBSET Nodes /\ \A m \in F : Forest!ToSet(k[m]) \subseteq F
      BY <1>0, <1>1, <1>4, <1>6
    <2> QED BY <1>5, <2>1, TreeLeast
  <1>8. \A n \in Nodes : Forest!ToSet(k[n]) \subseteq Nodes
    BY <1>0, <1>3
  <1>9. /\ c \in T /\ T \subseteq Nodes
        /\ \A m \in T : Forest!ToSet(k[m]) \subseteq T
    BY <1>0, <1>8, TreeClosed
  <1>10. T \subseteq Live(h)
    <2>1. Live(h) \in SUBSET Nodes /\ \A m \in Live(h) : Forest!ToSet(k[m]) \subseteq Live(h)
      BY <1>0, <1>3
    <2> QED BY <2>1, TreeLeast
  <1>11. \A n \in T : n # c => \E m \in T : n \in Forest!ToSet(k[m])
    BY <1>0, <1>8, TreeFrom
  <1> HIDE DEF T
  <1>12. ASSUME NEW n \in T PROVE h[n].next \in T \cup {NULL}
    <2>1. CASE n = c
      BY <2>1
    <2>2. CASE n # c
      <3>1. PICK m \in T : n \in Forest!ToSet(k[m])
        BY <1>11, <2>2
      <3>2. Parent(h, m) /\ n \in Items(h, m) /\ m \in Nodes
        BY <1>1, <1>9, <3>1
      <3>3. h[n].next \in Items(h, m) \cup {NULL}
        BY <1>2, <3>2 DEF Closed
      <3> QED BY <1>1, <1>9, <3>2, <3>3
    <2> QED BY <2>1, <2>2
  <1>13. ASSUME NEW n \in T, ~h[n].ref PROVE h[n].child \in T \cup {NULL}
    <2>1. Parent(h, n) /\ n \in Nodes
      BY <1>0, <1>10, <1>13 DEF Parent
    <2>2. h[n].child \in Items(h, n) \cup {NULL}
      BY <1>2, <2>1 DEF Closed
    <2> QED BY <1>1, <1>9, <2>1, <2>2
  <1>14. F \subseteq T
    <2> SUFFICES ASSUME NEW n \in Freed(h, c) PROVE n \in T
      OBVIOUS
    <2>1. T \in SUBSET Live(h) /\ c \in T \cup {NULL}
      BY <1>9, <1>10
    <2>2. \A m \in T : (IF h[m].ref THEN {h[m].next} ELSE {h[m].next, h[m].child})
                        \subseteq T \cup {NULL}
      BY <1>12, <1>13
    <2> QED BY <2>1, <2>2 DEF Freed, Reach
  <1> QED BY <1>7, <1>14 DEF T, k

-----------------------------------------------------------------------------
(* What the list functions do to the sequences.                            *)

LEMMA SameCells ==
  ASSUME NEW h, NEW hd, Sound(h, hd), NEW g, NEW hdg, Sound(g, hdg), Live(g) = Live(h),
         \A n \in Live(h) : g[n].next = h[n].next /\ g[n].child = h[n].child /\ g[n].ref = h[n].ref
  PROVE  Children(g) = Children(h)
  <1>1. ASSUME NEW n \in Nodes PROVE Children(g)[n] = Children(h)[n]
    <2>1. CASE Parent(h, n)
      <3> DEFINE s == Children(h)[n]
      <3>1. IsList(h, h[n].child, s) /\ Parent(g, n) /\ g[n].child = h[n].child
        BY <2>1, ParentList DEF Parent
      <3> HIDE DEF s
      <3>2. \A i \in 1..Len(s) : s[i] \in Live(h)
        BY <3>1 DEF IsList
      <3>3. IsList(g, h[n].child, s)
        BY <3>1, <3>2, KeepsList
      <3> QED BY <3>1, <3>3, ParentList DEF s
    <2>2. CASE ~Parent(h, n)
      <3>1. ~Parent(g, n)
        BY <2>2 DEF Parent
      <3> QED BY <2>2, <3>1, OtherList
    <2> QED BY <2>1, <2>2
  <1> QED BY <1>1 DEF Children

LEMMA RenameKids ==
  ASSUME NEW h, NEW hd, Sound(h, hd), NEW i \in Live(h), NEW d \in Names \cup {NULL},
         NEW g, g = Rename(h, i, d)
  PROVE  Sound(g, hd) /\ Children(g) = Children(h) /\ Live(g) = Live(h)
         /\ \A a \in Live(h) : g[a].ref = h[a].ref /\ Items(g, a) = Items(h, a)
  <1> DEFINE r == String_(h[i], d)
  <1>0. h \in Heaps /\ LInv(h, hd) /\ Founded(h)
    BY DEF Sound
  <1>1. h[i] \in Cells
    BY <1>0, CellFields
  <1>2. r \in Cells /\ r.next = h[i].next /\ r.child = h[i].child /\ r.ref = h[i].ref
    BY <1>1, StringUpdate
  <1>3. g = Put(h, i, r)
    BY DEF Rename, Put, String_
  <1> HIDE DEF r
  <1>4. /\ g \in Heaps /\ Live(g) = Live(h) /\ g[i] = r
        /\ \A n \in Live(h) : n # i => g[n] = h[n]
    BY <1>0, <1>2, <1>3, LiveUpdate
  <1>5. \A n \in Live(h) : g[n].next = h[n].next /\ g[n].child = h[n].child /\ g[n].ref = h[n].ref
    BY <1>2, <1>4
  <1>6. LInv(g, hd) /\ \A a \in Live(h) : Items(g, a) = Items(h, a)
    BY <1>0, RenameKeeps
  <1>7. Founded(g)
    BY <1>0, <1>4, <1>5, FewerFounded
  <1>8. Sound(g, hd)
    BY <1>4, <1>6, <1>7 DEF Sound
  <1>9. Children(g) = Children(h)
    BY <1>4, <1>5, <1>8, SameCells
  <1> QED BY <1>4, <1>5, <1>6, <1>8, <1>9

(* A new item, without children of its own. *)
LEMMA NewKids ==
  ASSUME NEW h, NEW hd, Sound(h, hd), NEW r \in Nodes, r \notin Live(h),
         NEW g, NEW hdg, Sound(g, hdg), Live(g) = Live(h) \cup {r},
         \A n \in Live(h) : g[n] = h[n],
         g[r].ref \/ g[r].child = NULL
  PROVE  Children(g) = Children(h)
  <1>1. ASSUME NEW n \in Nodes PROVE Children(g)[n] = Children(h)[n]
    <2>1. CASE Parent(h, n)
      <3> DEFINE s == Children(h)[n]
      <3>1. IsList(h, h[n].child, s) /\ Parent(g, n) /\ g[n].child = h[n].child
        BY <2>1, ParentList DEF Parent
      <3> HIDE DEF s
      <3>2. \A i \in 1..Len(s) : s[i] \in Live(h)
        BY <3>1 DEF IsList
      <3>3. IsList(g, h[n].child, s)
        BY <3>1, <3>2, KeepsList
      <3> QED BY <3>1, <3>3, ParentList DEF s
    <2>2. CASE ~Parent(h, n) /\ Parent(g, n)
      <3>1. n = r /\ g[r].child = NULL
        BY <2>2 DEF Parent
      <3>2. IsList(g, NULL, <<>>)
        BY ListOfNull, NullIsNoNode DEF Live
      <3>3. Children(g)[n] = <<>>
        BY <2>2, <3>1, <3>2, ParentList
      <3> QED BY <2>2, <3>3, OtherList
    <2>3. CASE ~Parent(h, n) /\ ~Parent(g, n)
      BY <2>3, OtherList
    <2> QED BY <2>1, <2>2, <2>3
  <1> QED BY <1>1 DEF Children

WithoutKids(h, S) == [n \in Nodes |-> IF n \in S THEN <<>> ELSE Children(h)[n]]

DeletedKids(h, hd, c, g) ==
  /\ Sound(g, hd \ {c}) /\ Live(g) = Live(h) \ Freed(h, c)
  /\ Children(g) = WithoutKids(h, Freed(h, c))

LEMMA DeleteKids ==
  ASSUME NEW h, NEW hd, Sound(h, hd), NEW c \in hd, MayFree(h, c), NEW g, g = Delete(h, c)
  PROVE  DeletedKids(h, hd, c, g)
  <1> DEFINE F == Freed(h, c)
  <1>0. h \in Heaps /\ LInv(h, hd) /\ Founded(h)
    BY DEF Sound
  <1>1. Live(g) = Live(h) \ F /\ \A n \in Live(g) : g[n] = h[n]
    BY DEF Delete, Live
  <1>2. Sound(g, hd \ {c})
    <2>1. LInv(g, hd \ {c})
      BY <1>0, DeleteKeeps
    <2>2. Founded(g)
      BY <1>0, <1>1, FewerFounded
    <2> QED BY <2>1, <2>2 DEF Sound, LInv
  <1> HIDE DEF F
  <1>3. ASSUME NEW n \in Nodes
        PROVE  Children(g)[n] = IF n \in F THEN <<>> ELSE Children(h)[n]
    <2>1. CASE Parent(g, n)
      <3> DEFINE s == Children(g)[n]
      <3>1. IsList(g, g[n].child, s) /\ Parent(h, n) /\ g[n].child = h[n].child /\ n \notin F
        BY <1>1, <1>2, <2>1, ParentList DEF Parent
      <3> HIDE DEF s
      <3>2. \A i \in 1..Len(s) : s[i] \in Live(g)
        BY <3>1 DEF IsList
      <3>3. IsList(h, h[n].child, s)
        BY <1>1, <3>1, <3>2, KeepsList
      <3> QED BY <3>1, <3>3, ParentList DEF s
    <2>2. CASE ~Parent(g, n) /\ n \in F
      BY <2>2, OtherList
    <2>3. CASE ~Parent(g, n) /\ n \notin F
      <3>1. ~Parent(h, n)
        BY <1>1, <2>3 DEF Parent
      <3> QED BY <2>3, <3>1, OtherList
    <2> QED BY <2>1, <2>2, <2>3
  <1>4. Children(g) = [n \in Nodes |-> Children(g)[n]]
    BY DEF Children
  <1>5. Children(g) = [n \in Nodes |-> IF n \in F THEN <<>> ELSE Children(h)[n]]
    BY <1>3, <1>4
  <1> QED BY <1>1, <1>2, <1>5 DEF F, DeletedKids, WithoutKids

(* A list is as before when its items and its parent are. *)
LEMMA OtherKids ==
  ASSUME NEW h, NEW hd, Sound(h, hd), NEW g, NEW hdg, Sound(g, hdg), Live(g) = Live(h),
         NEW n \in Nodes, Parent(g, n) <=> Parent(h, n),
         Parent(h, n) => g[n].child = h[n].child,
         Parent(h, n) => \A x \in Items(h, n) : g[x].next = h[x].next
  PROVE  Children(g)[n] = Children(h)[n]
  <1>1. CASE Parent(h, n)
    <2> DEFINE s == Children(h)[n]
    <2>1. IsList(h, h[n].child, s) /\ {s[k] : k \in 1..Len(s)} = Items(h, n)
      BY <1>1, ParentList, ListSet
    <2> HIDE DEF s
    <2>2. IsList(g, h[n].child, s)
      BY <1>1, <2>1, KeepsList
    <2> QED BY <1>1, <2>2, ParentList DEF s
  <1>2. CASE ~Parent(h, n)
    BY <1>2, OtherList
  <1> QED BY <1>1, <1>2

WithKids(h, a, t) == [Children(h) EXCEPT ![a] = t]

LEMMA KidsChange ==
  ASSUME NEW h, NEW g, NEW a \in Nodes, NEW t, Children(g)[a] = t,
         \A n \in Nodes : n # a => Children(g)[n] = Children(h)[n]
  PROVE  Children(g) = WithKids(h, a, t)
  <1> DEFINE k == Children(h)
             l == Children(g)
  <1>1. k = [n \in Nodes |-> k[n]] /\ l = [n \in Nodes |-> l[n]]
    BY DEF Children
  <1> HIDE DEF k, l
  <1>2. l[a] = t /\ \A n \in Nodes : n # a => l[n] = k[n]
    BY DEF k, l
  <1>3. l = [k EXCEPT ![a] = t]
    BY <1>1, <1>2
  <1> QED BY <1>3 DEF k, l, WithKids

(* What is added had not the parent in it. *)
LEMMA AddBelow ==
  ASSUME NEW h, NEW hd, Sound(h, hd), NEW a, Parent(h, a), NEW i \in hd,
         NEW g, NEW hdg, Sound(g, hdg), Live(g) = Live(h),
         i \in Items(g, a),
         \A n \in Live(h) : n \notin Items(h, a) \cup {i} => g[n].next = h[n].next,
         \A n \in Live(h) : n # a => g[n].child = h[n].child,
         g[a].ref = h[a].ref
  PROVE  a \notin Forest!Tree(Children(h), i)
  <1>0. /\ h \in Heaps /\ Allocated(h) /\ Founded(h) /\ LInv(h, hd) /\ h[i].next = NULL
        /\ i \in Live(h) /\ a \in Live(h) /\ ~h[a].ref /\ NULL \notin Live(h)
        /\ g \in Heaps /\ Allocated(g) /\ Founded(g) /\ LInv(g, hdg)
    BY NullIsNoNode DEF Sound, LInv, BothWays, Parent, Live
  <1> DEFINE A == Content(h, a)
             C == Content(g, i)
             W == A \cup C \cup {i}
  <1>1. a \notin A /\ i \notin C
    BY <1>0, NotInItself
  <1>2. /\ A \subseteq Live(h) /\ h[a].child \in A \cup {NULL}
        /\ \A m \in A : {h[m].next, h[m].child} \subseteq A \cup {NULL}
    BY <1>0 DEF Content, Reach, Allocated
  <1>3. /\ C \subseteq Live(h) /\ g[i].child \in C \cup {NULL}
        /\ \A m \in C : {g[m].next, g[m].child} \subseteq C \cup {NULL}
    BY <1>0 DEF Content, Reach, Allocated
  <1> HIDE DEF A, C
  <1>4. Items(h, a) \subseteq A
    <2>1. Closed(h, h[a].child, A)
      BY <1>2 DEF Closed
    <2> QED BY <2>1, ItemsLeast
  <1>5. ASSUME a \in C \cup {i} PROVE FALSE
    <2>1. g[a].child \in C \cup {NULL}
      BY <1>3, <1>5
    <2>2. Closed(g, g[a].child, C)
      BY <1>3, <2>1 DEF Closed
    <2> QED BY <1>1, <2>2, ItemsLeast
  <1>6. ASSUME NEW m \in W PROVE h[m].next \in W \cup {NULL} /\ h[m].child \in W \cup {NULL}
    <2>1. CASE m \in A
      BY <1>2, <2>1
    <2>2. CASE m \notin A /\ m \in C
      <3>1. m # i /\ m # a /\ m \notin Items(h, a) /\ m \in Live(h)
        BY <1>1, <1>3, <1>4, <1>5, <2>2
      <3>2. h[m].next = g[m].next /\ h[m].child = g[m].child
        BY <3>1
      <3> QED BY <1>3, <2>2, <3>2
    <2>3. CASE m = i
      BY <1>0, <1>3, <1>5, <2>3
    <2> QED BY <2>1, <2>2, <2>3
  <1>7. Freed(h, i) \subseteq W
    <2> SUFFICES ASSUME NEW n \in Freed(h, i) PROVE n \in W
      OBVIOUS
    <2>1. W \in SUBSET Live(h) /\ i \in W \cup {NULL}
      BY <1>0, <1>2, <1>3
    <2>2. \A m \in W : (IF h[m].ref THEN {h[m].next} ELSE {h[m].next, h[m].child})
                        \subseteq W \cup {NULL}
      BY <1>6
    <2> HIDE DEF W
    <2> QED BY <2>1, <2>2 DEF Freed, Reach
  <1>8. Forest!Tree(Children(h), i) = Freed(h, i)
    BY <1>0, TreeFreed
  <1> QED BY <1>1, <1>5, <1>7, <1>8

AddedKids(h, hd, a, i, g) ==
  /\ Sound(g, hd \ {i}) /\ Live(g) = Live(h)
  /\ Children(g) = WithKids(h, a, Append(Children(h)[a], i))
  /\ a \notin Forest!Tree(Children(h), i)

LEMMA AddKids ==
  ASSUME NEW h, NEW hd, Sound(h, hd), NEW a, Parent(h, a), NEW i \in hd,
         NEW last \in IF h[a].child = NULL THEN {NULL} ELSE Lasts(h, a),
         NEW g, g = AddItemToArray(h, a, last, i), Founded(g)
  PROVE  AddedKids(h, hd, a, i, g)
  <1> DEFINE s == Children(h)[a]
  <1>0. /\ h \in Heaps /\ LInv(h, hd) /\ Founded(h) /\ a \in Live(h) /\ ~h[a].ref
        /\ i \in Live(h) /\ h[i].next = NULL /\ a \in Nodes
        /\ NULL \notin Live(h)
    BY NullIsNoNode DEF Sound, LInv, BothWays, Parent, Live
  <1>1. LInv(g, hd \ {i}) /\ Live(g) = Live(h)
    BY <1>0, AddKeeps
  <1>2. Sound(g, hd \ {i})
    BY <1>1 DEF Sound, LInv
  <1>3. /\ IsList(h, h[a].child, s) /\ s \in Seq(Live(h)) /\ Len(s) \in Nat
        /\ {s[k] : k \in 1..Len(s)} = Items(h, a)
    <2>1. IsList(h, h[a].child, s) /\ {s[k] : k \in 1..Len(s)} = Items(h, a)
      BY ParentList, ListSet
    <2> QED BY <2>1 DEF IsList
  <1>4. /\ \A n \in Live(h) : g[n].ref = h[n].ref /\ (n # a => g[n].child = h[n].child)
        /\ \A n \in Live(h) : n \notin Items(h, a) => g[n].next = h[n].next
        /\ Children(g)[a] = Append(s, i)
        /\ i \in Items(g, a)
    <2>1. CASE h[a].child = NULL
      <3>1. FirstAdded(h, a, i, g)
        <4>1. g = Enter(h, a, i)
          BY <2>1 DEF AddItemToArray, Enter
        <4> QED BY <1>0, <4>1, FirstCells
      <3>2. s = <<>>
        BY <1>0, <1>3, <2>1, ListOfNull
      <3>3. g[a].child = i /\ g[i].next = NULL /\ Parent(g, a)
        BY <1>0, <1>1, <3>1 DEF FirstAdded, Parent
      <3>4. IsList(g, i, <<i>>)
        BY <1>0, <1>1, <3>3 DEF IsList
      <3>5. Append(s, i) = <<i>>
        BY <3>2
      <3>6. Children(g)[a] = <<i>>
        BY <1>2, <3>3, <3>4, ParentList
      <3>7. i \in Items(g, a)
        BY <1>0, <1>1, <1>2, <3>3, ItemsClosed DEF Closed, Sound, LInv
      <3> QED BY <3>1, <3>5, <3>6, <3>7 DEF FirstAdded
    <2>2. CASE h[a].child # NULL
      <3>1. last \in Items(h, a) /\ h[last].next = NULL /\ last \in Live(h)
        BY <2>2 DEF Lasts, Items, Chain, Reach
      <3>2. LastAdded(h, last, i, g)
        <4>1. g = Suffix(h, last, i)
          BY <2>2 DEF AddItemToArray
        <4> QED BY <1>0, <3>1, <4>1, SuffixCells
      <3> HIDE DEF s
      <3>3. Len(s) > 0 /\ s[Len(s)] = last /\ s[1] = h[a].child
        <4>1. PICK k \in 1..Len(s) : s[k] = last
          BY <1>3, <3>1
        <4>2. k = Len(s)
          <5> SUFFICES ASSUME k # Len(s) PROVE FALSE
            OBVIOUS
          <5>1. k \in 1..(Len(s) - 1) /\ k + 1 \in 1..Len(s)
            BY <1>3
          <5>2. h[s[k]].next = s[k + 1] /\ s[k + 1] \in Live(h)
            BY <1>3, <5>1 DEF IsList
          <5> QED BY <1>0, <3>1, <4>1, <5>2
        <4> QED BY <1>3, <4>1, <4>2 DEF IsList
      <3> DEFINE t == Append(s, i)
      <3>4. t \in Seq(Live(h)) /\ Len(t) = Len(s) + 1 /\ t[Len(t)] = i
            /\ \A k \in 1..Len(s) : t[k] = s[k]
        BY <1>0, <1>3
      <3> HIDE DEF t
      <3>5. g[i].next = NULL
        <4>1. i # last
          BY <1>0, <3>1, NotHeld
        <4> QED BY <1>0, <3>2, <4>1 DEF LastAdded
      <3>6. ASSUME NEW k \in 1..(Len(t) - 1) PROVE g[t[k]].next = t[k + 1]
        <4>1. k \in 1..Len(s) /\ t[k] = s[k] /\ s[k] \in Live(h)
          BY <1>3, <3>4
        <4>2. CASE k = Len(s)
          BY <3>2, <3>3, <3>4, <4>1, <4>2 DEF LastAdded
        <4>3. CASE k # Len(s)
          <5>1. k \in 1..(Len(s) - 1) /\ k + 1 \in 1..Len(s) /\ Len(s) \in 1..Len(s)
            BY <1>3, <4>1, <4>3
          <5>2. s[k] # last
            BY <1>0, <1>3, <3>3, <4>1, <4>3, <5>1, ListOnce
          <5>3. g[s[k]].next = h[s[k]].next
            BY <3>2, <4>1, <5>2 DEF LastAdded
          <5>4. h[s[k]].next = s[k + 1]
            BY <1>3, <5>1 DEF IsList
          <5> QED BY <3>4, <4>1, <5>1, <5>3, <5>4
        <4> QED BY <4>2, <4>3
      <3>7. g[a].child = h[a].child /\ Parent(g, a)
        BY <1>0, <1>1, <3>2 DEF LastAdded, Parent
      <3>8. t[1] = h[a].child /\ Len(t) # 0
        BY <1>3, <3>3, <3>4
      <3>9. IsList(g, h[a].child, t)
        BY <1>1, <3>4, <3>5, <3>6, <3>8 DEF IsList
      <3>10. Children(g)[a] = t
        BY <1>2, <3>7, <3>9, ParentList
      <3>11. {t[k] : k \in 1..Len(t)} = Items(g, a)
        BY <1>2, <3>7, <3>10, ListSet
      <3>12. i \in Items(g, a)
        BY <1>3, <3>4, <3>11
      <3> QED BY <3>1, <3>2, <3>10, <3>12 DEF LastAdded, t
    <2> QED BY <2>1, <2>2
  <1> HIDE DEF s
  <1>5. ASSUME NEW n \in Nodes, n # a PROVE Children(g)[n] = Children(h)[n]
    <2>1. Parent(g, n) <=> Parent(h, n)
      BY <1>1, <1>4 DEF Parent
    <2>2. Parent(h, n) => g[n].child = h[n].child
      BY <1>4, <1>5 DEF Parent
    <2>3. ASSUME Parent(h, n), NEW x \in Items(h, n) PROVE g[x].next = h[x].next
      <3>1. x \notin Items(h, a) /\ x \in Live(h)
        BY <1>0, <1>5, <2>3, OneList DEF Parent, Items, Chain, Reach
      <3> QED BY <1>4, <3>1
    <2> QED BY <1>1, <1>2, <2>1, <2>2, <2>3, OtherKids
  <1>6. Children(g) = WithKids(h, a, Append(s, i))
    <2> DEFINE t == Append(s, i)
    <2>1. Children(g)[a] = t
      BY <1>4
    <2> HIDE DEF t
    <2>2. Children(g) = WithKids(h, a, t)
      BY <1>0, <1>5, <2>1, KidsChange
    <2> QED BY <2>2 DEF t
  <1>7. a \notin Forest!Tree(Children(h), i)
    BY <1>0, <1>1, <1>2, <1>4, AddBelow
  <1> QED BY <1>1, <1>2, <1>6, <1>7 DEF s, AddedKids

(* Item p of the list of a is c, between its neighbours. *)
Between(h, a, s, p, c) ==
  /\ s \in Seq(Live(h)) /\ Len(s) \in Nat /\ c \in Items(h, a) /\ c \in Live(h)
  /\ \A k \in 1..Len(s) : s[k] \in Items(h, a) /\ s[k] \in Live(h) /\ s[k] # NULL
  /\ \A k \in 1..(Len(s) - 1) : h[s[k]].next = s[k + 1]
  /\ h[s[Len(s)]].next = NULL /\ h[a].child = s[1]
  /\ \A k, j \in 1..Len(s) : s[k] = s[j] => k = j
  /\ h[c].prev = IF p = 1 THEN NULL ELSE s[p - 1]

LEMMA Neighbours ==
  ASSUME NEW h, NEW hd, Sound(h, hd), NEW a, Parent(h, a), NEW s, s = Children(h)[a],
         NEW p \in 1..Len(s), NEW c, c = s[p]
  PROVE  Between(h, a, s, p, c)
  <1>1. /\ IsList(h, h[a].child, s) /\ s \in Seq(Live(h)) /\ Len(s) \in Nat
        /\ {s[k] : k \in 1..Len(s)} = Items(h, a)
    <2>1. IsList(h, h[a].child, s) /\ {s[k] : k \in 1..Len(s)} = Items(h, a)
      BY ParentList, ListSet
    <2> QED BY <2>1 DEF IsList
  <1>2. NULL \notin Live(h) /\ BothWays(h, hd) /\ Founded(h) /\ a \in Live(h) /\ ~h[a].ref
    BY NullIsNoNode DEF Live, Sound, LInv, Parent
  <1>3. \A k \in 1..Len(s) : s[k] \in Items(h, a) /\ s[k] \in Live(h) /\ s[k] # NULL
    BY <1>1, <1>2
  <1>4. \A k \in 1..(Len(s) - 1) : h[s[k]].next = s[k + 1]
    BY <1>1 DEF IsList
  <1>5. h[s[Len(s)]].next = NULL /\ h[a].child = s[1]
    <2>1. Len(s) # 0
      BY <1>1
    <2> QED BY <1>1, <2>1 DEF IsList
  <1>6. \A k, j \in 1..Len(s) : s[k] = s[j] => k = j
    BY <1>1, <1>2, ListOnce
  <1>7. CASE p = 1
    BY <1>1, <1>2, <1>3, <1>4, <1>5, <1>6, <1>7 DEF BothWays, Between
  <1>8. CASE p # 1
    <2>1. p - 1 \in 1..(Len(s) - 1) /\ p - 1 \in 1..Len(s) /\ (p - 1) + 1 = p
      BY <1>1, <1>8
    <2>2. h[s[p - 1]].next = c /\ s[p - 1] \in Live(h) /\ c # NULL
      BY <1>3, <1>4, <2>1
    <2>3. h[c].prev = s[p - 1]
      BY <1>2, <2>2 DEF BothWays
    <2> QED BY <1>1, <1>3, <1>4, <1>5, <1>6, <1>8, <2>3 DEF Between
  <1> QED BY <1>7, <1>8

(* t is s without its item p. *)
Removed(A, s, p, t) ==
  /\ t \in Seq(A) /\ Len(t) = Len(s) - 1
  /\ \A k \in 1..(Len(s) - 1) : t[k] = IF k < p THEN s[k] ELSE s[k + 1]

LEMMA RemoveIs ==
  ASSUME NEW A, NEW s \in Seq(A), NEW p \in 1..Len(s), NEW t, t = Forest!RemoveAt(s, p)
  PROVE  Removed(A, s, p, t)
  <1> DEFINE x == SubSeq(s, 1, p - 1)
             y == SubSeq(s, p + 1, Len(s))
  <1>1. t = x \o y
    BY DEF Forest!RemoveAt
  <1>2. Len(s) \in Nat /\ p \in Nat
    OBVIOUS
  <1>3. x \in Seq(A) /\ Len(x) = p - 1 /\ \A k \in 1..(p - 1) : x[k] = s[k]
    BY <1>2
  <1>4. y \in Seq(A) /\ Len(y) = Len(s) - p /\ \A k \in 1..(Len(s) - p) : y[k] = s[p + k]
    BY <1>2
  <1> HIDE DEF x, y
  <1>5. /\ t \in Seq(A) /\ Len(t) = Len(x) + Len(y)
        /\ \A k \in 1..Len(x) : t[k] = x[k]
        /\ \A k \in 1..Len(y) : t[Len(x) + k] = y[k]
    <2>1. /\ x \o y \in Seq(A) /\ Len(x \o y) = Len(x) + Len(y)
          /\ \A k \in 1..(Len(x) + Len(y)) :
               (x \o y)[k] = IF k <= Len(x) THEN x[k] ELSE y[k - Len(x)]
      BY <1>3, <1>4, ConcatProperties
    <2>2. Len(x) \in Nat /\ Len(y) \in Nat
      BY <1>3, <1>4
    <2>3. \A k \in 1..Len(x) : t[k] = x[k]
      BY <1>1, <2>1, <2>2
    <2>4. \A k \in 1..Len(y) : t[Len(x) + k] = y[k]
      BY <1>1, <2>1, <2>2
    <2> QED BY <1>1, <2>1, <2>3, <2>4
  <1>6. ASSUME NEW k \in 1..(Len(s) - 1) PROVE t[k] = IF k < p THEN s[k] ELSE s[k + 1]
    <2>1. CASE k < p
      BY <1>2, <1>3, <1>5, <2>1
    <2>2. CASE k >= p
      <3>1. k - (p - 1) \in 1..(Len(s) - p) /\ p + (k - (p - 1)) = k + 1
        BY <1>2, <2>2
      <3> DEFINE j == k - (p - 1)
      <3>2. j \in 1..Len(y) /\ Len(x) + j = k /\ p + j = k + 1 /\ ~(k < p)
        BY <1>2, <1>3, <1>4, <2>2, <3>1
      <3> HIDE DEF j
      <3>3. t[k] = y[j] /\ y[j] = s[p + j]
        BY <1>4, <1>5, <3>2
      <3> QED BY <3>2, <3>3
    <2> QED BY <1>2, <2>1, <2>2
  <1> QED BY <1>2, <1>3, <1>4, <1>5, <1>6 DEF Removed

DetachedKids(h, hd, a, p, c, g) ==
  /\ Sound(g, hd \cup {c}) /\ Live(g) = Live(h)
  /\ Children(g) = WithKids(h, a, Forest!RemoveAt(Children(h)[a], p))

LEMMA DetachKids ==
  ASSUME NEW h, NEW hd, Sound(h, hd), NEW a, Parent(h, a), NEW s, s = Children(h)[a],
         NEW p \in 1..Len(s), NEW c, c = s[p], NEW g, g = Detach(h, a, c)
  PROVE  DetachedKids(h, hd, a, p, c, g)
  <1>0. /\ h \in Heaps /\ LInv(h, hd) /\ Founded(h) /\ a \in Live(h) /\ ~h[a].ref /\ a \in Nodes
        /\ NULL \notin Live(h) /\ Allocated(h)
    BY NullIsNoNode DEF Sound, LInv, Parent, Live
  <1>1. /\ s \in Seq(Live(h)) /\ Len(s) \in Nat /\ c \in Items(h, a) /\ c \in Live(h)
        /\ \A k \in 1..Len(s) : s[k] \in Items(h, a) /\ s[k] \in Live(h) /\ s[k] # NULL
        /\ \A k \in 1..(Len(s) - 1) : h[s[k]].next = s[k + 1]
        /\ h[s[Len(s)]].next = NULL /\ h[a].child = s[1]
        /\ \A k, j \in 1..Len(s) : s[k] = s[j] => k = j
        /\ h[c].prev = IF p = 1 THEN NULL ELSE s[p - 1]
    <2>1. Between(h, a, s, p, c)
      BY Neighbours
    <2> QED BY <2>1 DEF Between
  <1>2. Detached(h, a, c, g)
    BY <1>0, <1>1, DetachCells
  <1>3. Sound(g, hd \cup {c}) /\ Live(g) = Live(h)
    BY <1>0, <1>1, <1>2, DetachKeeps, DetachFounded DEF Sound, Detached
  <1> DEFINE t == Forest!RemoveAt(s, p)
  <1>4. /\ t \in Seq(Live(h)) /\ Len(t) = Len(s) - 1
        /\ \A k \in 1..(Len(s) - 1) : t[k] = IF k < p THEN s[k] ELSE s[k + 1]
    <2>1. s \in Seq(Live(h))
      BY <1>1
    <2>2. Removed(Live(h), s, p, t)
      <3> HIDE DEF t
      <3> QED BY <2>1, RemoveIs DEF t
    <2> QED BY <2>2 DEF Removed
  <1> HIDE DEF t
  <1>5. ASSUME NEW k \in 1..Len(s), k # p
        PROVE  g[s[k]].next = IF k + 1 = p THEN h[c].next ELSE h[s[k]].next
    <2>1. s[k] # c /\ s[k] \in Live(h)
      BY <1>1, <1>5
    <2>2. h[c].prev = s[k] <=> k + 1 = p
      <3>1. CASE p = 1
        BY <1>1, <3>1
      <3>2. CASE p # 1
        <4>1. p - 1 \in 1..Len(s)
          BY <1>1, <3>2
        <4>2. h[c].prev = s[p - 1]
          BY <1>1, <3>2
        <4>3. s[p - 1] = s[k] <=> p - 1 = k
          BY <1>1, <4>1
        <4> QED BY <4>2, <4>3
      <3> QED BY <3>1, <3>2
    <2> QED BY <1>2, <2>1, <2>2 DEF Detached
  <1>6. ASSUME Len(t) # 0 PROVE t[1] = g[a].child /\ g[t[Len(t)]].next = NULL
    <2>1. Len(s) >= 2 /\ 1 \in 1..(Len(s) - 1) /\ Len(s) - 1 \in 1..(Len(s) - 1)
      <3>1. Len(s) \in Nat /\ Len(t) = Len(s) - 1
        BY <1>1, <1>4
      <3>2. Len(s) # 1 /\ Len(s) >= 1
        BY <1>6, <3>1
      <3>3. \A n \in Nat : n # 1 /\ n >= 1 => n >= 2
        OBVIOUS
      <3>4. Len(s) >= 2
        BY <3>1, <3>2, <3>3
      <3> QED BY <3>1, <3>4
    <2>2. CASE p = 1
      <3>1. g[a].child = h[c].next /\ h[c].next = s[2] /\ t[1] = s[2]
        BY <1>0, <1>1, <1>2, <1>4, <2>1, <2>2 DEF Detached
      <3>2. t[Len(t)] = s[Len(s)]
        BY <1>1, <1>4, <2>1, <2>2
      <3>3. g[s[Len(s)]].next = NULL
        BY <1>1, <1>5, <2>1, <2>2
      <3> QED BY <3>1, <3>2, <3>3
    <2>3. CASE p # 1 /\ p # Len(s)
      <3>1. g[a].child = s[1] /\ t[1] = s[1]
        BY <1>0, <1>1, <1>2, <1>4, <2>1, <2>3 DEF Detached
      <3>2. t[Len(t)] = s[Len(s)]
        BY <1>1, <1>4, <2>1, <2>3
      <3>3. g[s[Len(s)]].next = NULL
        BY <1>1, <1>5, <2>1, <2>3
      <3> QED BY <3>1, <3>2, <3>3
    <2>4. CASE p # 1 /\ p = Len(s)
      <3>1. g[a].child = s[1] /\ t[1] = s[1]
        BY <1>0, <1>1, <1>2, <1>4, <2>1, <2>4 DEF Detached
      <3>2. t[Len(t)] = s[Len(s) - 1] /\ Len(s) - 1 \in 1..Len(s)
        BY <1>1, <1>4, <2>1, <2>4
      <3>3. g[s[Len(s) - 1]].next = NULL
        BY <1>1, <1>5, <2>1, <2>4, <3>2
      <3> QED BY <3>1, <3>2, <3>3
    <2> QED BY <2>2, <2>3, <2>4
  <1>7. Len(t) = 0 => g[a].child = NULL
    <2> SUFFICES ASSUME Len(t) = 0 PROVE g[a].child = NULL
      OBVIOUS
    <2>1. Len(s) = 1 /\ p = 1
      BY <1>1, <1>4
    <2> QED BY <1>0, <1>1, <1>2, <2>1 DEF Detached
  <1>8. ASSUME NEW k \in 1..(Len(t) - 1) PROVE g[t[k]].next = t[k + 1]
    <2>1. k \in 1..(Len(s) - 1) /\ k + 1 \in 1..(Len(s) - 1)
      BY <1>1, <1>4
    <2>2. CASE k + 1 < p
      <3>1. t[k] = s[k] /\ t[k + 1] = s[k + 1]
        BY <1>4, <2>1, <2>2
      <3>2. g[s[k]].next = h[s[k]].next
        BY <1>1, <1>5, <2>1, <2>2
      <3> QED BY <1>1, <2>1, <3>1, <3>2
    <2>3. CASE k + 1 = p
      <3>1. t[k] = s[k] /\ t[k + 1] = s[p + 1]
        BY <1>4, <2>1, <2>3
      <3>2. g[s[k]].next = h[c].next
        BY <1>1, <1>5, <2>1, <2>3
      <3> QED BY <1>1, <2>1, <2>3, <3>1, <3>2
    <2>4. CASE k >= p
      <3>1. t[k] = s[k + 1] /\ t[k + 1] = s[(k + 1) + 1]
        BY <1>1, <1>4, <2>1, <2>4
      <3>2. g[s[k + 1]].next = h[s[k + 1]].next
        BY <1>1, <1>5, <2>1, <2>4
      <3> QED BY <1>1, <2>1, <3>1, <3>2
    <2> QED BY <1>1, <2>1, <2>2, <2>3, <2>4
  <1>9. IsList(g, g[a].child, t)
    BY <1>3, <1>4, <1>6, <1>7, <1>8 DEF IsList
  <1>10. Parent(g, a)
    BY <1>0, <1>2 DEF Parent, Detached
  <1>11. Children(g)[a] = t
    BY <1>3, <1>9, <1>10, ParentList
  <1>12. ASSUME NEW n \in Nodes, n # a PROVE Children(g)[n] = Children(h)[n]
    <2>1. Parent(g, n) <=> Parent(h, n)
      BY <1>2, <1>3 DEF Parent, Detached
    <2>2. Parent(h, n) => g[n].child = h[n].child
      BY <1>2, <1>12 DEF Parent, Detached
    <2>3. ASSUME Parent(h, n), NEW x \in Items(h, n) PROVE g[x].next = h[x].next
      <3>1. x \notin Items(h, a) /\ x \in Live(h)
        BY <1>0, <1>12, <2>3, OneList DEF Parent, Items, Chain, Reach
      <3>2. h[c].prev # x
        <4>1. p # 1 => p - 1 \in 1..Len(s)
          BY <1>1
        <4> QED BY <1>0, <1>1, <3>1, <4>1
      <3> QED BY <1>1, <1>2, <3>1, <3>2 DEF Detached
    <2> QED BY <1>3, <2>1, <2>2, <2>3, OtherKids
  <1>13. Children(g) = WithKids(h, a, t)
    <2>1. a \in Nodes
      BY <1>0
    <2> QED BY <1>11, <1>12, <2>1, KidsChange
  <1> QED BY <1>3, <1>13 DEF t, DetachedKids

ReplacedKids(h, hd, a, p, c, i, g) ==
  /\ Sound(g, (hd \ {i}) \cup {c}) /\ Live(g) = Live(h)
  /\ Children(g) = WithKids(h, a, Forest!ReplaceAt(Children(h)[a], p, i))
  /\ a \notin Forest!Tree(Children(h), i)

LEMMA ReplaceKids ==
  ASSUME NEW h, NEW hd, Sound(h, hd), NEW a, Parent(h, a), NEW s, s = Children(h)[a],
         NEW p \in 1..Len(s), NEW c, c = s[p], NEW i \in hd,
         NEW g, g = Replace(h, a, c, i), Founded(g)
  PROVE  ReplacedKids(h, hd, a, p, c, i, g)
  <1>0. /\ h \in Heaps /\ LInv(h, hd) /\ Founded(h) /\ a \in Live(h) /\ ~h[a].ref /\ a \in Nodes
        /\ NULL \notin Live(h) /\ Allocated(h) /\ i \in Live(h)
    BY NullIsNoNode DEF Sound, LInv, Parent, Live
  <1>1. /\ s \in Seq(Live(h)) /\ Len(s) \in Nat /\ c \in Items(h, a) /\ c \in Live(h)
        /\ \A k \in 1..Len(s) : s[k] \in Items(h, a) /\ s[k] \in Live(h) /\ s[k] # NULL
        /\ \A k \in 1..(Len(s) - 1) : h[s[k]].next = s[k + 1]
        /\ h[s[Len(s)]].next = NULL /\ h[a].child = s[1]
        /\ \A k, j \in 1..Len(s) : s[k] = s[j] => k = j
        /\ h[c].prev = IF p = 1 THEN NULL ELSE s[p - 1]
    <2>1. Between(h, a, s, p, c)
      BY Neighbours
    <2> QED BY <2>1 DEF Between
  <1>2. i # c /\ \A n \in Live(h) : ~h[n].ref => i \notin Items(h, n)
    BY <1>0, <1>1, NotHeld
  <1>3. Replaced(h, a, c, i, g)
    BY <1>0, <1>1, <1>2, ReplaceCells
  <1>4. Sound(g, (hd \ {i}) \cup {c}) /\ Live(g) = Live(h)
    BY <1>0, <1>1, <1>3, ReplaceKeeps DEF Sound, Replaced
  <1> DEFINE t == Forest!ReplaceAt(s, p, i)
  <1>5. /\ t \in Seq(Live(h)) /\ Len(t) = Len(s)
        /\ \A k \in 1..Len(s) : t[k] = IF k = p THEN i ELSE s[k]
    <2>1. t = [s EXCEPT ![p] = i]
      BY DEF Forest!ReplaceAt
    <2> HIDE DEF t
    <2> QED BY <1>0, <1>1, <2>1
  <1> HIDE DEF t
  <1>6. ASSUME NEW k \in 1..Len(s), k # p
        PROVE  g[s[k]].next = IF k + 1 = p THEN i ELSE h[s[k]].next
    <2>1. s[k] # c /\ s[k] \in Live(h) /\ s[k] # i
      BY <1>0, <1>1, <1>2, <1>6
    <2>2. h[c].prev = s[k] <=> k + 1 = p
      <3>1. CASE p = 1
        BY <1>1, <3>1
      <3>2. CASE p # 1
        <4>1. p - 1 \in 1..Len(s)
          BY <1>1, <3>2
        <4>2. h[c].prev = s[p - 1]
          BY <1>1, <3>2
        <4>3. s[p - 1] = s[k] <=> p - 1 = k
          BY <1>1, <4>1
        <4> QED BY <4>2, <4>3
      <3> QED BY <3>1, <3>2
    <2> QED BY <1>3, <2>1, <2>2 DEF Replaced
  <1>7. t[1] = g[a].child
    <2>1. 1 \in 1..Len(s)
      BY <1>1
    <2>2. CASE p = 1
      BY <1>0, <1>1, <1>3, <1>5, <2>1, <2>2 DEF Replaced
    <2>3. CASE p # 1
      <3>1. h[a].child # c
        BY <1>1, <2>1, <2>3
      <3> QED BY <1>0, <1>1, <1>3, <1>5, <2>1, <2>3, <3>1 DEF Replaced
    <2> QED BY <2>2, <2>3
  <1>8. g[i].next = h[c].next
    BY <1>3 DEF Replaced
  <1>9. g[t[Len(t)]].next = NULL
    <2>1. Len(s) \in 1..Len(s)
      BY <1>1
    <2>2. CASE p = Len(s)
      BY <1>1, <1>5, <1>8, <2>1, <2>2
    <2>3. CASE p # Len(s)
      BY <1>1, <1>5, <1>6, <2>1, <2>3
    <2> QED BY <2>2, <2>3
  <1>10. ASSUME NEW k \in 1..(Len(t) - 1) PROVE g[t[k]].next = t[k + 1]
    <2>1. k \in 1..(Len(s) - 1) /\ k \in 1..Len(s) /\ k + 1 \in 1..Len(s)
      BY <1>1, <1>5
    <2>2. CASE k = p
      BY <1>1, <1>5, <1>8, <2>1, <2>2
    <2>3. CASE k + 1 = p
      BY <1>1, <1>5, <1>6, <2>1, <2>3
    <2>4. CASE k # p /\ k + 1 # p
      BY <1>1, <1>5, <1>6, <2>1, <2>4
    <2> QED BY <2>2, <2>3, <2>4
  <1>11. IsList(g, g[a].child, t)
    <2>1. Len(t) # 0
      BY <1>1, <1>5
    <2> QED BY <1>4, <1>5, <1>7, <1>9, <1>10, <2>1 DEF IsList
  <1>12. Parent(g, a)
    BY <1>0, <1>3 DEF Parent, Replaced
  <1>13. Children(g)[a] = t
    BY <1>4, <1>11, <1>12, ParentList
  <1>14. ASSUME NEW x \in Live(h), x \notin Items(h, a) \cup {i} PROVE g[x].next = h[x].next
    <2>1. h[c].prev # x
      <3>1. p # 1 => p - 1 \in 1..Len(s)
        BY <1>1
      <3> QED BY <1>0, <1>1, <1>14, <3>1
    <2> QED BY <1>1, <1>3, <1>14, <2>1 DEF Replaced
  <1>15. ASSUME NEW n \in Nodes, n # a PROVE Children(g)[n] = Children(h)[n]
    <2>1. Parent(g, n) <=> Parent(h, n)
      BY <1>3, <1>4 DEF Parent, Replaced
    <2>2. Parent(h, n) => g[n].child = h[n].child
      BY <1>3, <1>15 DEF Parent, Replaced
    <2>3. ASSUME Parent(h, n), NEW x \in Items(h, n) PROVE g[x].next = h[x].next
      <3>1. x \notin Items(h, a) /\ x \in Live(h) /\ x # i
        BY <1>0, <1>2, <1>15, <2>3, OneList DEF Parent, Items, Chain, Reach
      <3> QED BY <1>14, <3>1
    <2> QED BY <1>4, <2>1, <2>2, <2>3, OtherKids
  <1>16. Children(g) = WithKids(h, a, t)
    <2>1. a \in Nodes
      BY <1>0
    <2> QED BY <1>13, <1>15, <2>1, KidsChange
  <1>17. i \in Items(g, a)
    <2>1. {t[k] : k \in 1..Len(t)} = Items(g, a)
      BY <1>4, <1>12, <1>13, ListSet
    <2> QED BY <1>1, <1>5, <2>1
  <1>18. a \notin Forest!Tree(Children(h), i)
    <2>1. /\ \A n \in Live(h) : n # a => g[n].child = h[n].child
          /\ g[a].ref = h[a].ref
      BY <1>0, <1>3 DEF Replaced
    <2> QED BY <1>4, <1>14, <1>17, <2>1, AddBelow
  <1> QED BY <1>4, <1>16, <1>18 DEF t, ReplacedKids

-----------------------------------------------------------------------------
(* The actions, as steps of the forest.                                    *)

LEMMA SoundNow == OwnInv => Sound(heap, held)
  BY Heap DEF OwnInv, Sound

(* What is new is one tree. *)
LEMMA PlantStep ==
  ASSUME Sound(heap, held), Sound(heap', held'), NEW root \in Nodes, root \notin Live(heap),
         held' = held \cup {root}, Freed(heap', root) \cap Live(heap) = {},
         Live(heap') = Live(heap) \cup Freed(heap', root),
         \A n \in Live(heap) : heap'[n] = heap[n]
  PROVE  Forest!Plant
  <1> DEFINE tree == Forest!Tree(Children(heap'), root)
  <1>1. root \in Live(heap') /\ heap'[root].next = NULL
    BY DEF Sound, LInv, BothWays
  <1>2. tree = Freed(heap', root)
    BY <1>1, TreeFreed
  <1>3. ASSUME NEW n \in Nodes \ tree PROVE Children(heap')[n] = Children(heap)[n]
    <2>1. CASE Parent(heap, n)
      <3> DEFINE s == Children(heap)[n]
      <3>1. IsList(heap, heap[n].child, s) /\ Parent(heap', n) /\ heap'[n].child = heap[n].child
        BY <2>1, ParentList DEF Parent
      <3> HIDE DEF s
      <3>2. \A i \in 1..Len(s) : s[i] \in Live(heap)
        BY <3>1 DEF IsList
      <3>3. IsList(heap', heap[n].child, s)
        BY <3>1, <3>2, KeepsList
      <3> QED BY <3>1, <3>3, ParentList DEF s
    <2>2. CASE ~Parent(heap, n)
      <3>1. ~Parent(heap', n)
        BY <1>2, <2>2 DEF Parent
      <3> QED BY <2>2, <3>1, OtherList
    <2> QED BY <2>1, <2>2
  <1>4. /\ Forest!IsForest(Children(heap'))
        /\ \A n \in Nodes : root \notin Forest!ToSet(Children(heap')[n])
    BY KidsForest
  <1> HIDE DEF tree
  <1> QED BY <1>2, <1>3, <1>4 DEF Forest!Plant, tree

LEMMA AddStep ==
  ASSUME NEW h, NEW hd, Sound(h, hd), Children(h) = Children(heap), NEW a \in Live(heap),
         NEW i \in hd, i \in held \cup (Nodes \ Live(heap)), Live(h) = Live(heap) \cup {i},
         Attach(h, a, i), held' = held \ {i}
  PROVE  Forest!Add
  <1>1. Parent(h, a) /\ Founded(heap')
    BY DEF Attach, MayHold, Parent
  <1>2. PICK last \in IF h[a].child = NULL THEN {NULL} ELSE Lasts(h, a) :
          heap' = AddItemToArray(h, a, last, i)
    BY DEF Attach
  <1>3. AddedKids(h, hd, a, i, heap')
    BY <1>1, <1>2, AddKids
  <1>4. /\ Live(heap') = Live(heap) \cup {i}
        /\ Children(heap') = [Children(heap) EXCEPT ![a] = Append(Children(heap)[a], i)]
        /\ a \notin Forest!Tree(Children(heap), i)
    BY <1>3 DEF AddedKids, WithKids
  <1> QED BY <1>4 DEF Forest!Add

LEMMA ItemPlace ==
  ASSUME NEW h, NEW hd, Sound(h, hd), NEW a \in Live(h), ~h[a].ref, NEW c \in Items(h, a)
  PROVE  /\ Parent(h, a)
         /\ \E p \in 1..Len(Children(h)[a]) : Children(h)[a][p] = c
         /\ DOMAIN Children(h)[a] = 1..Len(Children(h)[a])
  <1> DEFINE s == Children(h)[a]
  <1>1. Parent(h, a)
    BY DEF Parent
  <1>2. {s[k] : k \in 1..Len(s)} = Items(h, a) /\ IsList(h, h[a].child, s)
    BY <1>1, ListSet, ParentList
  <1> HIDE DEF s
  <1>3. DOMAIN s = 1..Len(s)
    BY <1>2 DEF IsList
  <1> QED BY <1>1, <1>2, <1>3 DEF s

LEMMA FellStep ==
  ASSUME NEW h, NEW hd, Sound(h, hd), NEW c \in hd, MayFree(h, c), Live(h) = Live(heap),
         heap' = Delete(h, c)
  PROVE  Forest!Fell(Children(h), c)
  <1>1. c \in Live(h) /\ h[c].next = NULL
    BY DEF Sound, LInv, BothWays
  <1>2. Forest!Tree(Children(h), c) = Freed(h, c)
    BY <1>1, TreeFreed
  <1>3. DeletedKids(h, hd, c, heap')
    BY DeleteKids
  <1>4. /\ Live(heap') = Live(heap) \ Freed(h, c)
        /\ Children(heap') = WithoutKids(h, Freed(h, c))
    BY <1>3 DEF DeletedKids
  <1> QED BY <1>2, <1>4 DEF Forest!Fell, WithoutKids

LEMMA ReplaceStep ==
  ASSUME NEW h, Sound(h, held), Children(h) = Children(heap), Live(h) = Live(heap),
         NEW a \in Live(h), ~h[a].ref, NEW i \in held, NEW c \in Items(h, a),
         Founded(Replace(h, a, c, i)), MayFree(Replace(h, a, c, i), c),
         heap' = Delete(Replace(h, a, c, i), c), held' = held \ {i}
  PROVE  Forest!Replace
  <1> DEFINE s == Children(h)[a]
             g == Replace(h, a, c, i)
  <1>1. PICK p \in 1..Len(s) : s[p] = c
    BY ItemPlace
  <1>2. Parent(h, a) /\ DOMAIN s = 1..Len(s)
    BY ItemPlace
  <1> HIDE DEF g, s
  <1>3. /\ Sound(g, (held \ {i}) \cup {c}) /\ Live(g) = Live(h)
        /\ Children(g) = WithKids(h, a, Forest!ReplaceAt(s, p, i))
        /\ a \notin Forest!Tree(Children(h), i)
    <2>1. Founded(g) /\ g = Replace(h, a, c, i) /\ s = Children(h)[a] /\ c = s[p]
      BY <1>1 DEF g, s
    <2>2. ReplacedKids(h, held, a, p, c, i, g)
      BY <1>1, <1>2, <2>1, ReplaceKids
    <2> QED BY <2>1, <2>2 DEF ReplacedKids
  <1>4. Forest!Fell(Children(g), c)
    <2>1. c \in (held \ {i}) \cup {c}
      OBVIOUS
    <2> QED BY <1>3, <2>1, FellStep DEF g
  <1>5. Children(g) = [Children(heap) EXCEPT ![a] = Forest!ReplaceAt(@, p, i)]
    BY <1>3 DEF WithKids, s
  <1>6. p \in DOMAIN Children(heap)[a] /\ Children(heap)[a][p] = c
    BY <1>1, <1>2 DEF s
  <1> QED BY <1>3, <1>4, <1>5, <1>6 DEF Forest!Replace

LEMMA FreedWithin ==
  ASSUME NEW h, NEW S \in SUBSET Live(h), NEW c \in S,
         \A m \in S : {h[m].next, h[m].child} \subseteq S \cup {NULL}
  PROVE  Freed(h, c) \subseteq S /\ c \in Freed(h, c)
  <1>1. c \in Live(h) /\ c # NULL
    BY NullIsNoNode DEF Live
  <1>2. \A m \in S : (IF h[m].ref THEN {h[m].next} ELSE {h[m].next, h[m].child})
                       \subseteq S \cup {NULL}
    OBVIOUS
  <1> QED BY <1>1, <1>2 DEF Freed, Reach

LEMMA CreateForest == OwnInv /\ Sound(heap', held') /\ Create => Forest!Plant
  <1> SUFFICES ASSUME OwnInv, Sound(heap', held'), Create PROVE Forest!Plant
    OBVIOUS
  <1>1. PICK n \in Free : heap' = Put(heap, n, Blank) /\ held' = held \cup {n}
    BY DEF Create, Put
  <1>2. n \in Nodes /\ n \notin Live(heap) /\ heap \in Heaps /\ LInv(heap, held)
    BY Heap DEF Free, OwnInv
  <1>3. /\ Live(heap') = Live(heap) \cup {n} /\ heap'[n] = Blank
        /\ \A m \in Live(heap) : heap'[m] = heap[m]
    BY <1>1, <1>2, BlankCell, HeapUpdate DEF Live
  <1>4. Freed(heap', n) \subseteq {n} /\ n \in Freed(heap', n)
    <2> DEFINE new == {n}
    <2>1. new \in SUBSET Live(heap') /\ n \in new
      BY <1>3
    <2>2. \A m \in new : {heap'[m].next, heap'[m].child} \subseteq new \cup {NULL}
      BY <1>3, BlankCell
    <2> HIDE DEF new
    <2>3. Freed(heap', n) \subseteq new /\ n \in Freed(heap', n)
      BY <2>1, <2>2, FreedWithin
    <2> QED BY <2>3 DEF new
  <1>5. Freed(heap', n) = {n}
    BY <1>4
  <1> QED BY <1>1, <1>2, <1>3, <1>5, SoundNow, PlantStep

LEMMA CreateNumbersForest == OwnInv /\ Sound(heap', held') /\ CreateNumbers => Forest!Plant
  <1> SUFFICES ASSUME OwnInv, Sound(heap', held'), CreateNumbers PROVE Forest!Plant
    OBVIOUS
  <1>1. PICK a \in Free, m \in Free, n \in Free :
          /\ a # m /\ m # n /\ a # n
          /\ heap' = Numbers(heap, a, m, n)
          /\ held' = held \cup {a}
    BY DEF CreateNumbers, Numbers
  <1>2. /\ a \in Nodes /\ m \in Nodes /\ n \in Nodes /\ heap \in Heaps /\ Live(heap) \subseteq Nodes
        /\ a \notin Live(heap) /\ m \notin Live(heap) /\ n \notin Live(heap) /\ NULL \notin Nodes
        /\ Live(heap') \subseteq Nodes
        /\ heap' \in Heaps /\ Allocated(heap') /\ held' \subseteq Live(heap')
    BY NullIsNoNode, Heap DEF Free, Live, OwnInv, Sound, LInv
  <1>3. /\ \A x \in Nodes : x \notin {a, m, n} => heap'[x] = heap[x]
        /\ heap'[a].child = m /\ heap'[a].next = NULL /\ ~heap'[a].ref
        /\ heap'[m].child = NULL /\ heap'[m].next = n
        /\ heap'[n].child = NULL /\ heap'[n].next = NULL /\ heap'[n].prev = m
    BY <1>1, <1>2, NumberCells
  <1>4. a \in Live(heap') /\ m \in Live(heap') /\ n \in Live(heap')
    <2>1. a \in Live(heap') /\ a # NULL /\ m # NULL /\ n # NULL
      BY <1>1, <1>2
    <2> QED BY <1>2, <1>3, <2>1 DEF Allocated
  <1>5. Live(heap') = Live(heap) \cup {a, m, n} /\ \A x \in Live(heap) : heap'[x] = heap[x]
    BY <1>2, <1>3, <1>4 DEF Live
  <1>6. Freed(heap', a) \subseteq {a, m, n} /\ a \in Freed(heap', a)
    <2> DEFINE new == {a, m, n}
    <2>1. new \in SUBSET Live(heap') /\ a \in new
      BY <1>4
    <2>2. \A x \in new : {heap'[x].next, heap'[x].child} \subseteq new \cup {NULL}
      BY <1>3
    <2> HIDE DEF new
    <2>3. Freed(heap', a) \subseteq new /\ a \in Freed(heap', a)
      BY <2>1, <2>2, FreedWithin
    <2> QED BY <2>3 DEF new
  <1>7. m \in Freed(heap', a)
    BY <1>2, <1>3, <1>6, FreedClosed
  <1>8. n \in Freed(heap', a)
    BY <1>2, <1>3, <1>7, FreedClosed
  <1>9. Freed(heap', a) = {a, m, n}
    BY <1>6, <1>7, <1>8
  <1> QED BY <1>1, <1>2, <1>5, <1>9, SoundNow, PlantStep

LEMMA DuplicateForest == OwnInv /\ Sound(heap', held') /\ Duplicate => Forest!Plant
  <1> SUFFICES ASSUME OwnInv, Sound(heap', held'), Duplicate PROVE Forest!Plant
    OBVIOUS
  <1>1. PICK item, S, f : Copies(item, S, f)
    BY DuplicateCells DEF OwnInv
  <1> DEFINE D == {f[m] : m \in S}
             F == Freed(heap', f[item])
             To(x) == CopyOf(x, item, S, f)
             C == Content(heap, item)
  <1>2. /\ heap \in Heaps /\ Allocated(heap) /\ NULL \notin Live(heap)
        /\ item \in S /\ S \subseteq Live(heap) /\ item \in Live(heap)
        /\ S = {item} \/ S = {item} \cup C
        /\ held' = held \cup {f[item]} /\ f[item] \in Nodes
        /\ heap' \in Heaps /\ Allocated(heap')
    BY <1>1, NullIsNoNode DEF OwnInv, LInv, Live, Copies, Sound
  <1>3. /\ \A m \in S : f[m] \notin Live(heap) /\ f[m] # NULL
        /\ \A m, n \in S : f[m] = f[n] => m = n
        /\ Live(heap') = Live(heap) \cup D
        /\ \A n \in Live(heap) : n \notin D /\ heap'[n] = heap[n]
    BY <1>1 DEF Copies
  <1>4. \A m \in S :
          /\ heap'[f[m]].next = IF m = item THEN NULL ELSE To(heap[m].next)
          /\ heap'[f[m]].child = To(heap[m].child) /\ ~heap'[f[m]].ref
    BY <1>1 DEF Copies
  <1>5. \A x : To(x) = IF x \in S \ {item} THEN f[x] ELSE NULL
    BY DEF CopyOf
  <1> HIDE DEF To
  <1>6. F \subseteq D /\ f[item] \in F
    <2>1. D \in SUBSET Live(heap') /\ f[item] \in D
      BY <1>2, <1>3
    <2>2. ASSUME NEW x \in D PROVE {heap'[x].next, heap'[x].child} \subseteq D \cup {NULL}
      <3>1. PICK m \in S : x = f[m]
        OBVIOUS
      <3> QED BY <1>4, <1>5, <3>1
    <2> HIDE DEF D
    <2> QED BY <2>1, <2>2, FreedWithin
  <1>7. ASSUME NEW m \in S, f[m] \in F
        PROVE  {To(heap[m].child), heap'[f[m]].next} \subseteq F \cup {NULL}
    BY <1>2, <1>4, <1>7, FreedClosed
  <1>8. \A m \in S : f[m] \in F
    <2>1. CASE S = {item}
      BY <1>6, <2>1
    <2>2. CASE S = {item} \cup C
      <3> DEFINE X == {m \in C : f[m] \in F}
      <3>1. C \subseteq Live(heap) /\ C \subseteq S /\ item \notin C
        BY <1>2, <2>2, NotInItself DEF Content, Reach, OwnInv
      <3>2. /\ heap[item].child \in C \cup {NULL}
            /\ \A k \in C : {heap[k].next, heap[k].child} \subseteq C \cup {NULL}
        BY <1>2, <3>1 DEF Content, Reach, Allocated
      <3>3. heap[item].child \in X \cup {NULL}
        <4>1. CASE heap[item].child \in C
          BY <1>2, <1>3, <1>5, <1>6, <1>7, <3>1, <4>1
        <4> QED BY <3>2, <4>1
      <3>4. ASSUME NEW k \in X PROVE {heap[k].next, heap[k].child} \subseteq X \cup {NULL}
        <4>1. k \in C /\ k \in S /\ f[k] \in F /\ k # item
          BY <3>1
        <4>2. heap[k].next \in C => heap[k].next \in X
          BY <1>3, <1>4, <1>5, <1>7, <3>1, <4>1
        <4>3. heap[k].child \in C => heap[k].child \in X
          BY <1>3, <1>5, <1>7, <3>1, <4>1
        <4> QED BY <3>2, <4>1, <4>2, <4>3
      <3>5. X \in SUBSET Live(heap)
        BY <3>1
      <3>6. \A T \in SUBSET Live(heap) :
              /\ heap[item].child \in T \cup {NULL}
              /\ \A k \in T : {heap[k].next, heap[k].child} \subseteq T \cup {NULL}
              => C \subseteq T
        BY DEF Content, Reach
      <3> HIDE DEF X
      <3>7. C \subseteq X
        BY <3>3, <3>4, <3>5, <3>6
      <3> QED BY <1>6, <2>2, <3>7 DEF X
    <2> QED BY <1>2, <2>1, <2>2
  <1>9. F = D
    BY <1>6, <1>8
  <1>10. /\ f[item] \notin Live(heap) /\ F \cap Live(heap) = {}
         /\ Live(heap') = Live(heap) \cup F /\ \A n \in Live(heap) : heap'[n] = heap[n]
    BY <1>2, <1>3, <1>9
  <1> HIDE DEF D
  <1> QED BY <1>2, <1>10, SoundNow, PlantStep

LEMMA AddToArrayForest == OwnInv /\ AddToArray => Forest!Add
  <1> SUFFICES ASSUME OwnInv, AddToArray PROVE Forest!Add
    OBVIOUS
  <1>1. PICK a \in Live(heap), i \in held : Attach(heap, a, i) /\ held' = held \ {i}
    BY DEF AddToArray
  <1>2. Sound(heap, held) /\ Live(heap) = Live(heap) \cup {i}
    BY SoundNow, Heap DEF OwnInv
  <1> QED BY <1>1, <1>2, AddStep

LEMMA AddToObjectForest == OwnInv /\ AddToObject => Forest!Add
  <1> SUFFICES ASSUME OwnInv, AddToObject PROVE Forest!Add
    OBVIOUS
  <1>1. PICK a \in Live(heap), i \in held, d \in Names \cup {NULL} :
          Attach(Rename(heap, i, d), a, i) /\ held' = held \ {i}
    BY Strings DEF AddToObject, Rename
  <1> DEFINE h == Rename(heap, i, d)
  <1>2. i \in Live(heap) /\ Sound(heap, held)
    BY SoundNow, Heap DEF OwnInv
  <1>3. Sound(h, held) /\ Children(h) = Children(heap) /\ Live(h) = Live(heap)
    BY <1>2, RenameKids
  <1>4. Attach(h, a, i)
    BY <1>1
  <1> HIDE DEF h
  <1>5. Live(h) = Live(heap) \cup {i}
    BY <1>2, <1>3
  <1> QED BY <1>1, <1>3, <1>4, <1>5, AddStep

LEMMA AddReferenceForest == OwnInv /\ AddReference => Forest!Add
  <1> SUFFICES ASSUME OwnInv, AddReference PROVE Forest!Add
    OBVIOUS
  <1> DEFINE With(item, r, d) ==
               [heap EXCEPT ![r] = [Reference(heap, item) EXCEPT !.string = d]]
  <1>0. /\ heap \in Heaps /\ LInv(heap, held) /\ held \subseteq Live(heap)
        /\ Allocated(heap) /\ Founded(heap)
    BY Heap DEF OwnInv, LInv
  <1>1. PICK a \in Live(heap), item \in Live(heap), r \in Free, d \in Names \cup {NULL} :
          Attach(With(item, r, d), a, r) /\ held' = held
    <2>1. \A item \in Live(heap) : Reference(heap, item).string = NULL
      BY <1>0, CellFields DEF Reference, Cells
    <2> HIDE DEF With
    <2>2. PICK a \in Live(heap), item \in Live(heap), r \in Free :
            \E d \in {Reference(heap, item).string} \cup UNION {Strdup(s) : s \in Names} :
              Attach(With(item, r, d), a, r) /\ held' = held
      BY Zenon DEF AddReference, With
    <2>3. {Reference(heap, item).string} \cup UNION {Strdup(s) : s \in Names}
            \subseteq Names \cup {NULL}
      BY <2>1, Strings
    <2> QED BY <2>2, <2>3
  <1> DEFINE c == heap[item]
             q == String_(Refer(c), d)
             h == Put(heap, r, q)
  <1>2. c \in Cells /\ c.child \in Live(heap) \cup {NULL} /\ r \in Nodes /\ r \notin Live(heap)
    BY <1>0, CellFields DEF Allocated, Free
  <1>3. Attach(h, a, r)
    BY <1>1 DEF Put, String_, Refer, Reference
  <1> HIDE DEF h
  <1> HIDE DEF q
  <1> HIDE DEF c
  <1>4. q \in Cells /\ q.next = NULL /\ q.prev = NULL /\ q.child = c.child /\ q.ref = TRUE
    BY <1>2, ReferCell DEF q
  <1>5. /\ LInv(h, held \cup {r}) /\ Live(h) = Live(heap) \cup {r} /\ h[r] = q
        /\ \A n \in Live(heap) : h[n] = heap[n]
    <2>1. q.child = NULL \/ (q.child \in Live(heap) /\ q.ref)
      BY <1>2, <1>4
    <2> QED BY <1>0, <1>2, <1>4, <2>1, NewKeeps DEF h
  <1>6. Founded(h)
    BY <1>0, <1>2, <1>4, <1>5, NewFounded
  <1>7. Sound(h, held \cup {r}) /\ Sound(heap, held)
    BY <1>5, <1>6, SoundNow DEF Sound, LInv
  <1>8. Children(h) = Children(heap)
    BY <1>2, <1>4, <1>5, <1>7, NewKids
  <1>9. held' = (held \cup {r}) \ {r}
    BY <1>0, <1>1, <1>2
  <1> QED BY <1>2, <1>3, <1>5, <1>7, <1>8, <1>9, AddStep

LEMMA DetachItemForest == OwnInv /\ DetachItem => Forest!Take
  <1> SUFFICES ASSUME OwnInv, DetachItem PROVE Forest!Take
    OBVIOUS
  <1>0. PICK a \in Live(heap) : \E c \in Items(heap, a) :
          ~heap[a].ref /\ heap' = Detach(heap, a, c) /\ held' = held \cup {c}
    BY DEF DetachItem
  <1>1. PICK c \in Items(heap, a) :
          ~heap[a].ref /\ heap' = Detach(heap, a, c) /\ held' = held \cup {c}
    BY <1>0
  <1> DEFINE s == Children(heap)[a]
  <1>2. Sound(heap, held)
    BY SoundNow
  <1>3. Parent(heap, a) /\ DOMAIN s = 1..Len(s) /\ \E p \in 1..Len(s) : s[p] = c
    BY <1>1, <1>2, ItemPlace
  <1>4. PICK p \in 1..Len(s) : s[p] = c
    BY <1>3
  <1>5. DetachedKids(heap, held, a, p, c, heap')
    BY <1>1, <1>2, <1>3, <1>4, DetachKids
  <1>6. /\ Live(heap') = Live(heap)
        /\ Children(heap') = [Children(heap) EXCEPT ![a] = Forest!RemoveAt(s, p)]
    BY <1>5 DEF DetachedKids, WithKids
  <1> QED BY <1>1, <1>3, <1>4, <1>6 DEF Forest!Take

LEMMA DeleteHeldForest == OwnInv /\ DeleteHeld => Forest!Delete
  <1> SUFFICES ASSUME OwnInv, DeleteHeld PROVE Forest!Delete
    OBVIOUS
  <1>1. PICK c \in held : MayFree(heap, c) /\ heap' = Delete(heap, c) /\ held' = held \ {c}
    BY DEF DeleteHeld, DeleteIn
  <1>2. Forest!Fell(Children(heap), c)
    BY <1>1, SoundNow, FellStep
  <1> QED BY <1>1, <1>2 DEF Forest!Delete

LEMMA DeleteItemForest == OwnInv /\ DeleteItem => Forest!Delete
  <1> SUFFICES ASSUME OwnInv, DeleteItem PROVE Forest!Delete
    OBVIOUS
  <1> DEFINE To(a, c) == Detach(heap, a, c)
  <1>0. PICK a \in Live(heap) : \E c \in Items(heap, a) :
          ~heap[a].ref /\ MayFree(To(a, c), c) /\ heap' = Delete(To(a, c), c) /\ held' = held
    BY DEF DeleteItem, DeleteIn
  <1>1. PICK c \in Items(heap, a) :
          ~heap[a].ref /\ MayFree(To(a, c), c) /\ heap' = Delete(To(a, c), c) /\ held' = held
    BY <1>0
  <1> DEFINE s == Children(heap)[a]
             g == To(a, c)
  <1>2. Sound(heap, held)
    BY SoundNow
  <1>3. Parent(heap, a) /\ DOMAIN s = 1..Len(s) /\ \E p \in 1..Len(s) : s[p] = c
    BY <1>1, <1>2, ItemPlace
  <1>4. PICK p \in 1..Len(s) : s[p] = c
    BY <1>3
  <1>5. DetachedKids(heap, held, a, p, c, g)
    BY <1>1, <1>2, <1>3, <1>4, DetachKids
  <1>6. MayFree(g, c) /\ heap' = Delete(g, c)
    BY <1>1
  <1> HIDE DEF g
  <1>7. /\ Sound(g, held \cup {c}) /\ Live(g) = Live(heap)
        /\ Children(g) = [Children(heap) EXCEPT ![a] = Forest!RemoveAt(s, p)]
    BY <1>5 DEF DetachedKids, WithKids
  <1>8. Forest!Fell(Children(g), c)
    <2>1. c \in held \cup {c}
      OBVIOUS
    <2> QED BY <1>6, <1>7, <2>1, FellStep
  <1> QED BY <1>1, <1>3, <1>4, <1>7, <1>8 DEF Forest!Delete

LEMMA ReplaceInArrayForest == OwnInv /\ ReplaceInArray => Forest!Replace
  <1> SUFFICES ASSUME OwnInv, ReplaceInArray PROVE Forest!Replace
    OBVIOUS
  <1> DEFINE To(a, i, c) == Replace(heap, a, c, i)
  <1>0. PICK a \in Live(heap), i \in held : \E c \in Items(heap, a) :
          /\ ~heap[a].ref /\ Founded(To(a, i, c)) /\ MayFree(To(a, i, c), c)
          /\ heap' = Delete(To(a, i, c), c) /\ held' = held \ {i}
    BY DEF ReplaceInArray, DeleteIn, MayHold
  <1>1. PICK c \in Items(heap, a) :
          /\ ~heap[a].ref /\ Founded(To(a, i, c)) /\ MayFree(To(a, i, c), c)
          /\ heap' = Delete(To(a, i, c), c) /\ held' = held \ {i}
    BY <1>0
  <1> QED BY <1>1, SoundNow, ReplaceStep

LEMMA ReplaceInObjectForest == OwnInv /\ ReplaceInObject => Forest!Replace
  <1> SUFFICES ASSUME OwnInv, ReplaceInObject PROVE Forest!Replace
    OBVIOUS
  <1> DEFINE To(a, i, c, d) == Replace(Rename(heap, i, d), a, c, i)
  <1>0. PICK a \in Live(heap), i \in held, s \in Names :
          \E c \in Items(heap, a), d \in Strdup(s) :
            /\ ~heap[a].ref /\ Founded(To(a, i, c, d)) /\ MayFree(To(a, i, c, d), c)
            /\ heap' = Delete(To(a, i, c, d), c) /\ held' = held \ {i}
    BY DEF ReplaceInObject, Rename, MayHold
  <1>1. PICK c \in Items(heap, a), d \in Names \cup {NULL} :
            /\ ~heap[a].ref /\ Founded(To(a, i, c, d)) /\ MayFree(To(a, i, c, d), c)
            /\ heap' = Delete(To(a, i, c, d), c) /\ held' = held \ {i}
    BY <1>0, Strings
  <1> DEFINE h == Rename(heap, i, d)
  <1>2. /\ Sound(h, held) /\ Children(h) = Children(heap) /\ Live(h) = Live(heap)
        /\ h[a].ref = heap[a].ref /\ Items(h, a) = Items(heap, a)
    <2>1. i \in Live(heap) /\ Sound(heap, held)
      BY SoundNow, Heap DEF OwnInv
    <2> QED BY <2>1, RenameKids
  <1>3. /\ Founded(Replace(h, a, c, i)) /\ MayFree(Replace(h, a, c, i), c)
        /\ heap' = Delete(Replace(h, a, c, i), c)
    BY <1>1
  <1> HIDE DEF h
  <1>4. ~h[a].ref /\ c \in Items(h, a) /\ a \in Live(h)
    BY <1>1, <1>2
  <1> QED BY <1>1, <1>2, <1>3, <1>4, ReplaceStep

(* The linked lists are sequences: each call of the library changes the    *)
(* children of one item, or plants or deletes one tree, and leaves the     *)
(* order and the children of all other items alone, however many there are.*)
THEOREM ListsAreSequences == Spec => ImplementsForest
  <1>1. Init => Forest!Init
    <2> SUFFICES ASSUME Init PROVE Live(heap) = {} /\ Children(heap) = Forest!None /\ held = {}
      BY DEF Forest!Init
    <2>1. Live(heap) = {} /\ held = {}
      BY DEF Init, Live
    <2>2. Children(heap) = [n \in Nodes |-> <<>>]
      BY <2>1 DEF Children
    <2> QED BY <2>1, <2>2 DEF Forest!None
  <1>2. OwnInv /\ OwnInv' /\ [Next]_vars => [Forest!Next]_(Forest!vars)
    <2> SUFFICES ASSUME OwnInv, OwnInv', [Next]_vars PROVE [Forest!Next]_(Forest!vars)
      OBVIOUS
    <2>1. Sound(heap', held')
      BY DEF OwnInv, Sound, LInv
    <2>2. CASE UNCHANGED vars
      BY <2>2 DEF vars, Forest!vars
    <2>3. ASSUME Next PROVE Forest!Next
      BY <2>1, <2>3, CreateForest, CreateNumbersForest, DuplicateForest, AddToArrayForest,
         AddToObjectForest, AddReferenceForest, DetachItemForest, DeleteItemForest,
         DeleteHeldForest, ReplaceInArrayForest, ReplaceInObjectForest
      DEF Next, Forest!Next
    <2> QED BY <2>2, <2>3
  <1> QED BY <1>1, <1>2, OwnCorrect, PTL DEF Spec, ImplementsForest, Forest!Spec
=============================================================================
