--------------------------- MODULE JsonTree_proofs ---------------------------
(***************************************************************************)
(* The lists of JsonTree stay linked (ListsLinked), and every name that is *)
(* allocated is counted (ItemsTyped, NamesAreCounted).                     *)
(*                                                                         *)
(* Linked alone is not inductive.  LInv adds that no two arrays or objects *)
(* have the same first item and that no first item is held; then an item   *)
(* in a list is known not to be held (NotHeld), what cJSON_Delete frees is *)
(* not pointed at from outside (DeleteKeeps), and so on.  The lemmas are   *)
(* about any heap h and set hd of items that are held, for the actions put *)
(* several list functions together: the heap between two of them keeps     *)
(* LInv too.  What a call does to the names is shown in the second half.   *)
(***************************************************************************)
EXTENDS JsonTree, FiniteSetTheorems, FunctionTheorems, TLAPS

Heaps == [Nodes -> Cells \cup {NULL}]

(* The head of a list is reached by child only, from one array or object,  *)
(* and not from the application.                                           *)
HeadsOwned(h, hd) ==
  /\ \A a, b \in Live(h) :
       ~h[a].ref /\ ~h[b].ref /\ h[a].child = h[b].child /\ h[a].child # NULL => a = b
  /\ \A a \in Live(h) : ~h[a].ref => h[a].child \notin hd

(* The pointers of every item lead to items. *)
Allocated(h) ==
  \A n \in Live(h) : {h[n].next, h[n].prev, h[n].child} \subseteq Live(h) \cup {NULL}

BothWays(h, hd) ==
  \A n \in Live(h) :
    /\ h[n].next # NULL => h[h[n].next].prev = n
    /\ h[n].prev # NULL => h[h[n].prev].next = n
    /\ n \in hd => h[n].next = NULL /\ h[n].prev = NULL
    /\ h[n].child # NULL /\ ~h[n].ref => h[h[n].child].prev = NULL

LInv(h, hd) ==
  /\ h \in Heaps
  /\ hd \subseteq Live(h)
  /\ Allocated(h)
  /\ BothWays(h, hd)
  /\ HeadsOwned(h, hd)

-----------------------------------------------------------------------------
(* What an operator does to each cell.                                     *)

LEMMA NullIsNoNode == NULL \notin Nodes
  BY NodesType

LEMMA CellFields ==
  ASSUME NEW h \in Heaps, NEW n \in Live(h)
  PROVE  /\ n \in Nodes /\ n # NULL /\ h[n] \in Cells
         /\ h[n].next \in Pointers /\ h[n].prev \in Pointers /\ h[n].child \in Pointers
         /\ h[n].ref \in BOOLEAN /\ h[n].string \in Names \cup {NULL}
  BY NodesType DEF Live, Heaps, Cells

(* A list is closed under next. *)
LEMMA ChainClosed ==
  ASSUME NEW h \in Heaps, Allocated(h), NEW c, NEW m \in Chain(h, c)
  PROVE  m \in Live(h) /\ h[m].next \in Chain(h, c) \cup {NULL}
  BY DEF Chain, Reach, Allocated

LEMMA FreedClosed ==
  ASSUME NEW h \in Heaps, Allocated(h), NEW c, NEW m \in Freed(h, c)
  PROVE  /\ m \in Live(h) /\ h[m].next \in Freed(h, c) \cup {NULL}
         /\ ~h[m].ref => h[m].child \in Freed(h, c) \cup {NULL}
  BY DEF Freed, Reach, Allocated

(* The assignments, as operators: the lemmas about them are cited where    *)
(* they occur in one another.                                              *)
Next_(r, x) == [r EXCEPT !.next = x]
Prev_(r, x) == [r EXCEPT !.prev = x]
Child_(r, x) == [r EXCEPT !.child = x]
String_(r, s) == [r EXCEPT !.string = s]
Put(h, p, r) == [h EXCEPT ![p] = r]

LEMMA CellUpdate ==
  ASSUME NEW r \in Cells, NEW x \in Pointers
  PROVE  /\ Next_(r, x) \in Cells
         /\ Next_(r, x).next = x /\ Next_(r, x).prev = r.prev
         /\ Next_(r, x).child = r.child /\ Next_(r, x).ref = r.ref
         /\ Prev_(r, x) \in Cells
         /\ Prev_(r, x).next = r.next /\ Prev_(r, x).prev = x
         /\ Prev_(r, x).child = r.child /\ Prev_(r, x).ref = r.ref
         /\ Child_(r, x) \in Cells
         /\ Child_(r, x).next = r.next /\ Child_(r, x).prev = r.prev
         /\ Child_(r, x).child = x /\ Child_(r, x).ref = r.ref
  BY DEF Cells, Next_, Prev_, Child_

LEMMA StringUpdate ==
  ASSUME NEW r \in Cells, NEW s \in Names \cup {NULL}
  PROVE  /\ String_(r, s) \in Cells
         /\ String_(r, s).next = r.next /\ String_(r, s).prev = r.prev
         /\ String_(r, s).child = r.child /\ String_(r, s).ref = r.ref
  BY DEF Cells, String_

LEMMA HeapUpdate ==
  ASSUME NEW h \in Heaps, NEW p \in Nodes, NEW r \in Cells
  PROVE  /\ Put(h, p, r) \in Heaps
         /\ Live(Put(h, p, r)) = Live(h) \cup {p}
         /\ Put(h, p, r)[p] = r
         /\ \A n \in Nodes \ {p} : Put(h, p, r)[n] = h[n]
  BY CellsType DEF Live, Heaps, Put

LEMMA LiveUpdate ==
  ASSUME NEW h \in Heaps, NEW p \in Live(h), NEW r \in Cells, NEW g, g = Put(h, p, r)
  PROVE  /\ g \in Heaps
         /\ Live(g) = Live(h)
         /\ g[p] = r
         /\ \A n \in Live(h) : n # p => g[n] = h[n]
  <1>1. p \in Nodes /\ Live(h) \cup {p} = Live(h) /\ Live(h) \subseteq Nodes
    BY DEF Live
  <1>2. /\ g \in Heaps /\ Live(g) = Live(h) \cup {p} /\ g[p] = r
        /\ \A n \in Nodes \ {p} : g[n] = h[n]
    BY <1>1, HeapUpdate
  <1> QED BY <1>1, <1>2

(* The pointers of a cell are overwritten. *)
LEMMA CellPatch ==
  ASSUME NEW r \in Cells, NEW x \in Pointers, NEW y \in Pointers
  PROVE  LET s == Prev_(Next_(r, x), y) IN
         s \in Cells /\ s.next = x /\ s.prev = y /\ s.child = r.child /\ s.ref = r.ref
  <1> DEFINE q == Next_(r, x)
             s == Prev_(q, y)
  <1>1. q \in Cells /\ q.next = x /\ q.prev = r.prev /\ q.child = r.child /\ q.ref = r.ref
    BY CellUpdate
  <1> HIDE DEF q
  <1>2. s \in Cells /\ s.next = q.next /\ s.prev = y /\ s.child = q.child /\ s.ref = q.ref
    BY <1>1, CellUpdate
  <1> QED BY <1>1, <1>2 DEF q

LEMMA CellChange ==
  ASSUME NEW r \in Cells, NEW x \in Pointers, NEW y \in Pointers, NEW z \in Pointers
  PROVE  LET t == Child_(Prev_(Next_(r, x), y), z) IN
         t \in Cells /\ t.next = x /\ t.prev = y /\ t.child = z /\ t.ref = r.ref
  <1> DEFINE s == Prev_(Next_(r, x), y)
             t == Child_(s, z)
  <1>1. s \in Cells /\ s.next = x /\ s.prev = y /\ s.ref = r.ref
    BY CellPatch
  <1> HIDE DEF s
  <1>2. t \in Cells /\ t.next = s.next /\ t.prev = s.prev /\ t.child = z /\ t.ref = s.ref
    BY <1>1, CellUpdate
  <1> QED BY <1>1, <1>2 DEF s

(* What is different in a heap g where i is behind p.                      *)
LastAdded(h, p, i, g) ==
  /\ g \in Heaps
  /\ Live(g) = Live(h)
  /\ \A n \in Live(h) :
       /\ g[n].next = IF n = p THEN i ELSE h[n].next
       /\ g[n].prev = IF n = i THEN p ELSE h[n].prev
       /\ g[n].child = h[n].child /\ g[n].ref = h[n].ref

LEMMA SuffixCells ==
  ASSUME NEW h \in Heaps, NEW p \in Live(h), NEW i \in Live(h), NEW g, g = Suffix(h, p, i)
  PROVE  LastAdded(h, p, i, g)
  <1> DEFINE r == Next_(h[p], i)
             f == Put(h, p, r)
             q == Prev_(f[i], p)
  <1>1. h[p] \in Cells /\ p \in Pointers /\ i \in Pointers
    BY CellFields DEF Pointers
  <1>2. /\ r \in Cells /\ r.next = i /\ r.prev = h[p].prev
        /\ r.child = h[p].child /\ r.ref = h[p].ref
    BY <1>1, CellUpdate
  <1>3. /\ f \in Heaps /\ Live(f) = Live(h) /\ f[p] = r
        /\ \A n \in Live(h) : n # p => f[n] = h[n]
    <2> HIDE DEF r
    <2> QED BY <1>2, LiveUpdate
  <1>4. g = Put(f, i, q)
    BY DEF Suffix, Put, Next_, Prev_
  <1> HIDE DEF r, f
  <1>5. f[i] \in Cells
    BY <1>3, CellFields
  <1>6. /\ q \in Cells /\ q.next = f[i].next /\ q.prev = p
        /\ q.child = f[i].child /\ q.ref = f[i].ref
    BY <1>1, <1>5, CellUpdate
  <1> HIDE DEF q
  <1>7. /\ g \in Heaps /\ Live(g) = Live(h) /\ g[i] = q
        /\ \A n \in Live(h) : n # i => g[n] = f[n]
    BY <1>3, <1>4, <1>6, LiveUpdate
  <1> QED BY <1>2, <1>3, <1>6, <1>7 DEF LastAdded

(* What is different in a heap g where the neighbours of c lead past it.   *)
Relinked(h, a, c, x, y, g) ==
  /\ g \in Heaps
  /\ Live(g) = Live(h)
  /\ \A n \in Live(h) :
       /\ g[n].next = IF h[c].prev = n THEN x ELSE h[n].next
       /\ g[n].prev = IF h[c].next = n THEN y ELSE h[n].prev
       /\ g[n].child = IF a = n /\ h[a].child = c THEN x ELSE h[n].child
       /\ g[n].ref = h[n].ref

LEMMA RelinkCells ==
  ASSUME NEW h \in Heaps, NEW a \in Live(h), NEW c \in Live(h),
         NEW x \in Pointers, NEW y \in Pointers, NEW g, g = Relink(h, a, c, x, y)
  PROVE  Relinked(h, a, c, x, y, g)
  <1> DEFINE X(n) == IF h[c].prev = n THEN x ELSE h[n].next
             Y(n) == IF h[c].next = n THEN y ELSE h[n].prev
             Z(n) == IF a = n /\ h[a].child = c THEN x ELSE h[n].child
             R(n) == Child_(Prev_(Next_(h[n], X(n)), Y(n)), Z(n))
  <1>1. g = [n \in Nodes |-> IF h[n] = NULL THEN NULL ELSE R(n)]
    BY DEF Relink, Next_, Prev_, Child_
  <1>2. \A n \in Live(h) : X(n) \in Pointers /\ Y(n) \in Pointers /\ Z(n) \in Pointers
    BY CellFields
  <1>3. \A n \in Live(h) :
          /\ R(n) \in Cells
          /\ R(n).next = X(n) /\ R(n).prev = Y(n) /\ R(n).child = Z(n) /\ R(n).ref = h[n].ref
    <2> HIDE DEF X, Y, Z
    <2> TAKE n \in Live(h)
    <2>1. h[n] \in Cells /\ X(n) \in Pointers /\ Y(n) \in Pointers /\ Z(n) \in Pointers
      BY <1>2, CellFields
    <2> DEFINE r == h[n]
               u == X(n)
               v == Y(n)
               w == Z(n)
    <2>2. r \in Cells /\ u \in Pointers /\ v \in Pointers /\ w \in Pointers
      BY <2>1
    <2> HIDE DEF r, u, v, w
    <2>3. LET t == Child_(Prev_(Next_(r, u), v), w) IN
          t \in Cells /\ t.next = u /\ t.prev = v /\ t.child = w /\ t.ref = r.ref
      BY <2>2, CellChange
    <2> QED BY <2>3 DEF r, u, v, w
  <1>4. g \in Heaps /\ Live(g) = Live(h) /\ \A n \in Live(h) : g[n] = R(n)
    <2> HIDE DEF R
    <2>1. g \in Heaps
      BY <1>1, <1>3 DEF Live, Heaps
    <2>2. \A n \in Live(h) : g[n] = R(n) /\ R(n) # NULL
      BY <1>1, <1>3, CellsType DEF Live
    <2>3. \A n \in Nodes : n \notin Live(h) => g[n] = NULL
      BY <1>1 DEF Live
    <2>4. Live(g) = Live(h)
      BY <2>2, <2>3 DEF Live
    <2> QED BY <2>1, <2>2, <2>4
  <1> QED BY <1>3, <1>4 DEF Relinked

(* A cell whose next and prev are overwritten. *)
Patch(h, c, x, y) == [h EXCEPT ![c].next = x, ![c].prev = y]

Patched(h, c, x, y, g) ==
  /\ g \in Heaps
  /\ Live(g) = Live(h)
  /\ g[c].next = x /\ g[c].prev = y /\ g[c].child = h[c].child /\ g[c].ref = h[c].ref
  /\ \A n \in Live(h) : n # c => g[n] = h[n]

LEMMA PatchCells ==
  ASSUME NEW h \in Heaps, NEW c \in Live(h), NEW x \in Pointers, NEW y \in Pointers,
         NEW g, g = Patch(h, c, x, y)
  PROVE  Patched(h, c, x, y, g)
  <1> DEFINE r == Prev_(Next_(h[c], x), y)
  <1>1. c \in Nodes /\ h[c] \in Cells
    BY CellFields
  <1>2. r \in Cells /\ r.next = x /\ r.prev = y /\ r.child = h[c].child /\ r.ref = h[c].ref
    BY <1>1, CellPatch
  <1>3. g = Put(h, c, r)
    BY <1>1 DEF Heaps, Patch, Put, Next_, Prev_
  <1> HIDE DEF r
  <1>4. g \in Heaps /\ Live(g) = Live(h) /\ g[c] = r /\ \A n \in Live(h) : n # c => g[n] = h[n]
    BY <1>2, <1>3, LiveUpdate
  <1> QED BY <1>2, <1>4 DEF Patched

(* What is different in a heap g where c was taken out of the list of a.   *)
Detached(h, a, c, g) ==
  /\ g \in Heaps
  /\ Live(g) = Live(h)
  /\ g[c].next = NULL /\ g[c].prev = NULL
  /\ \A n \in Live(h) :
       /\ n # c => /\ g[n].next = IF h[c].prev = n THEN h[c].next ELSE h[n].next
                   /\ g[n].prev = IF h[c].next = n THEN h[c].prev ELSE h[n].prev
       /\ g[n].child = IF a = n /\ h[a].child = c THEN h[c].next ELSE h[n].child
       /\ g[n].ref = h[n].ref

LEMMA DetachCells ==
  ASSUME NEW h \in Heaps, NEW a \in Live(h), NEW c \in Live(h), NEW g, g = Detach(h, a, c)
  PROVE  Detached(h, a, c, g)
  <1> DEFINE f == Relink(h, a, c, h[c].next, h[c].prev)
  <1>1. h[c].next \in Pointers /\ h[c].prev \in Pointers
    BY CellFields
  <1>2. Relinked(h, a, c, h[c].next, h[c].prev, f)
    BY <1>1, RelinkCells, Zenon
  <1>3. g = Patch(f, c, NULL, NULL)
    BY DEF Detach, Patch
  <1> HIDE DEF f
  <1>4. NULL \in Pointers /\ f \in Heaps /\ c \in Live(f)
    BY <1>2 DEF Pointers, Relinked
  <1>5. Patched(f, c, NULL, NULL, g)
    BY <1>3, <1>4, PatchCells, Zenon
  <1> QED BY <1>2, <1>5 DEF Detached, Relinked, Patched

(* What is different in a heap g where i is in the place of c.             *)
Replaced(h, a, c, i, g) ==
  /\ g \in Heaps
  /\ Live(g) = Live(h)
  /\ g[c].next = NULL /\ g[c].prev = NULL
  /\ g[i].next = h[c].next /\ g[i].prev = h[c].prev
  /\ \A n \in Live(h) :
       /\ n \notin {c, i} => /\ g[n].next = IF h[c].prev = n THEN i ELSE h[n].next
                             /\ g[n].prev = IF h[c].next = n THEN i ELSE h[n].prev
       /\ g[n].child = IF a = n /\ h[a].child = c THEN i ELSE h[n].child
       /\ g[n].ref = h[n].ref

LEMMA ReplaceCells ==
  ASSUME NEW h \in Heaps, NEW a \in Live(h), NEW c \in Live(h), NEW i \in Live(h), i # c,
         NEW g, g = Replace(h, a, c, i)
  PROVE  Replaced(h, a, c, i, g)
  <1> DEFINE f == Relink(h, a, c, i, i)
             e == Patch(f, i, h[c].next, h[c].prev)
  <1>1. h[c].next \in Pointers /\ h[c].prev \in Pointers /\ i \in Pointers /\ NULL \in Pointers
    BY CellFields DEF Pointers
  <1>2. Relinked(h, a, c, i, i, f)
    BY <1>1, RelinkCells, Zenon
  <1>3. g = Patch(e, c, NULL, NULL)
    BY DEF Replace, Patch
  <1> HIDE DEF f
  <1>4. f \in Heaps /\ i \in Live(f) /\ c \in Live(f)
    BY <1>2 DEF Relinked
  <1>5. Patched(f, i, h[c].next, h[c].prev, e)
    BY <1>1, <1>4, PatchCells, Zenon
  <1> HIDE DEF e
  <1>6. e \in Heaps /\ c \in Live(e)
    BY <1>4, <1>5 DEF Patched
  <1>7. Patched(e, c, NULL, NULL, g)
    BY <1>1, <1>3, <1>6, PatchCells, Zenon
  <1> QED BY <1>2, <1>5, <1>7 DEF Replaced, Relinked, Patched

(* The item a list is entered through, or one that another item leads to. *)
LEMMA HasPrevious ==
  ASSUME NEW h \in Heaps, NEW hd, LInv(h, hd), NEW a \in Live(h), NEW c \in Items(h, a),
         c # h[a].child
  PROVE  h[c].prev \notin {NULL, c}
  <1>1. c \in Live(h) /\ Allocated(h) /\ BothWays(h, hd)
    BY DEF Items, Chain, Reach, LInv
  <1>2. PICK m \in Live(h) : m # c /\ h[m].next = c
    <2> SUFFICES ASSUME \A m \in Live(h) : m # c => h[m].next # c
                 PROVE  FALSE
      OBVIOUS
    <2> DEFINE S == Items(h, a) \ {c}
    <2>1. S \in SUBSET Live(h)
      BY DEF Items, Chain, Reach
    <2>2. h[a].child \in S \cup {NULL}
      BY <1>1 DEF Items, Chain, Reach, Allocated
    <2>3. \A m \in S : {h[m].next} \subseteq S \cup {NULL}
      BY <1>1, ChainClosed DEF Items
    <2> HIDE DEF S
    <2>4. c \in S
      BY <2>1, <2>2, <2>3 DEF Items, Chain, Reach
    <2> QED BY <2>4 DEF S
  <1>3. h[c].prev = m /\ m # NULL
    BY <1>1, <1>2, NullIsNoNode DEF BothWays, Live
  <1> QED BY <1>1, <1>2, <1>3

-----------------------------------------------------------------------------
(* What the list functions keep.                                           *)

LEMMA DetachKeeps ==
  ASSUME NEW h \in Heaps, NEW hd, LInv(h, hd), NEW a \in Live(h), ~h[a].ref, NEW c \in Items(h, a),
         NEW g, g = Detach(h, a, c)
  PROVE  LInv(g, hd \cup {c}) /\ Live(g) = Live(h)
  <1>1. /\ h \in Heaps /\ hd \subseteq Live(h) /\ Allocated(h) /\ BothWays(h, hd)
        /\ HeadsOwned(h, hd) /\ c \in Live(h) /\ NULL \notin Live(h)
    BY NullIsNoNode DEF LInv, Items, Chain, Reach, Live
  <1>2. Detached(h, a, c, g)
    BY <1>1, DetachCells
  <1>3. c # h[a].child => h[c].prev # NULL
    BY <1>1, HasPrevious
  <1>4. Allocated(g)
    BY <1>1, <1>2 DEF Detached, Allocated
  <1>5. BothWays(g, hd \cup {c})
    <2> SUFFICES ASSUME NEW n \in Live(h)
                 PROVE  /\ g[n].next # NULL => g[g[n].next].prev = n
                        /\ g[n].prev # NULL => g[g[n].prev].next = n
                        /\ n \in hd \cup {c} => g[n].next = NULL /\ g[n].prev = NULL
                        /\ g[n].child # NULL /\ ~g[n].ref => g[g[n].child].prev = NULL
      BY <1>2 DEF Detached, BothWays
    <2>1. g[n].next # NULL => g[g[n].next].prev = n
      BY <1>1, <1>2 DEF Detached, BothWays, Allocated
    <2>2. g[n].prev # NULL => g[g[n].prev].next = n
      BY <1>1, <1>2 DEF Detached, BothWays, Allocated
    <2>3. n \in hd \cup {c} => g[n].next = NULL /\ g[n].prev = NULL
      BY <1>1, <1>2 DEF Detached, BothWays, Allocated
    <2>4. g[n].child # NULL /\ ~g[n].ref => g[g[n].child].prev = NULL
      BY <1>1, <1>2 DEF Detached, BothWays, Allocated
    <2> QED BY <2>1, <2>2, <2>3, <2>4
  <1>6. HeadsOwned(g, hd \cup {c})
    <2>1. ASSUME NEW m \in Live(h), NEW n \in Live(h), ~g[m].ref, ~g[n].ref,
                 g[m].child = g[n].child, g[m].child # NULL
          PROVE  m = n
      BY <1>1, <1>2, <2>1 DEF Detached, HeadsOwned, BothWays, Allocated
    <2>2. ASSUME NEW n \in Live(h), ~g[n].ref
          PROVE  g[n].child \notin hd \cup {c}
      BY <1>1, <1>2, <1>3, <2>2 DEF Detached, HeadsOwned, BothWays, Allocated
    <2> QED BY <1>2, <2>1, <2>2 DEF Detached, HeadsOwned
  <1> QED BY <1>1, <1>2, <1>4, <1>5, <1>6 DEF Detached, LInv

LEMMA NotHeld ==
  ASSUME NEW h \in Heaps, NEW hd, LInv(h, hd), NEW a \in Live(h), ~h[a].ref, NEW c \in Items(h, a)
  PROVE  c \in Live(h) /\ c \notin hd /\ h[c].next # c
  <1>1. c \in Live(h) /\ BothWays(h, hd) /\ HeadsOwned(h, hd)
    BY DEF LInv, Items, Chain, Reach
  <1>2. CASE c = h[a].child
    BY <1>1, <1>2, NullIsNoNode DEF BothWays, HeadsOwned, Live
  <1>3. CASE c # h[a].child
    <2>1. h[c].prev \notin {NULL, c}
      BY <1>3, HasPrevious
    <2> QED BY <1>1, <2>1, NullIsNoNode DEF BothWays, Live
  <1> QED BY <1>2, <1>3

LEMMA ReplaceKeeps ==
  ASSUME NEW h \in Heaps, NEW hd, LInv(h, hd), NEW a \in Live(h), ~h[a].ref, NEW c \in Items(h, a),
         NEW i \in hd, NEW g, g = Replace(h, a, c, i)
  PROVE  LInv(g, (hd \ {i}) \cup {c}) /\ Live(g) = Live(h) /\ c \in Live(h) /\ c # i
  <1>1. /\ h \in Heaps /\ hd \subseteq Live(h) /\ Allocated(h) /\ BothWays(h, hd)
        /\ HeadsOwned(h, hd) /\ c \in Live(h) /\ NULL \notin Live(h) /\ i \in Live(h)
    BY NullIsNoNode DEF LInv, Items, Chain, Reach, Live
  <1>2. c \notin hd /\ h[c].next # c /\ h[c].prev # c
    BY <1>1, NotHeld DEF BothWays
  <1>3. Replaced(h, a, c, i, g)
    BY <1>1, <1>2, ReplaceCells
  <1>4. c # h[a].child => h[c].prev # NULL
    BY <1>1, HasPrevious
  <1> DEFINE hdg == (hd \ {i}) \cup {c}
  <1>5. Allocated(g)
    BY <1>1, <1>3 DEF Replaced, Allocated
  <1>6. BothWays(g, hdg)
    <2> SUFFICES ASSUME NEW n \in Live(h)
                 PROVE  /\ g[n].next # NULL => g[g[n].next].prev = n
                        /\ g[n].prev # NULL => g[g[n].prev].next = n
                        /\ n \in hdg => g[n].next = NULL /\ g[n].prev = NULL
                        /\ g[n].child # NULL /\ ~g[n].ref => g[g[n].child].prev = NULL
      BY <1>3 DEF Replaced, BothWays
    <2>1. g[n].next # NULL => g[g[n].next].prev = n
      BY <1>1, <1>2, <1>3 DEF Replaced, BothWays, Allocated
    <2>2. g[n].prev # NULL => g[g[n].prev].next = n
      BY <1>1, <1>2, <1>3 DEF Replaced, BothWays, Allocated
    <2>3. n \in hdg => g[n].next = NULL /\ g[n].prev = NULL
      BY <1>1, <1>2, <1>3 DEF Replaced, BothWays, Allocated
    <2>4. g[n].child # NULL /\ ~g[n].ref => g[g[n].child].prev = NULL
      BY <1>1, <1>2, <1>3 DEF Replaced, BothWays, Allocated, HeadsOwned
    <2> QED BY <2>1, <2>2, <2>3, <2>4
  <1>7. HeadsOwned(g, hdg)
    <2>1. ASSUME NEW m \in Live(h), NEW n \in Live(h), ~g[m].ref, ~g[n].ref,
                 g[m].child = g[n].child, g[m].child # NULL
          PROVE  m = n
      BY <1>1, <1>2, <1>3, <2>1 DEF Replaced, HeadsOwned, BothWays, Allocated
    <2>2. ASSUME NEW n \in Live(h), ~g[n].ref
          PROVE  g[n].child \notin hdg
      BY <1>1, <1>2, <1>3, <1>4, <2>2 DEF Replaced, HeadsOwned, BothWays, Allocated
    <2> QED BY <1>3, <2>1, <2>2 DEF Replaced, HeadsOwned
  <1> QED BY <1>1, <1>2, <1>3, <1>5, <1>6, <1>7 DEF LInv, Replaced

(* What is different in a heap g where a got its first item, i.            *)
FirstAdded(h, a, i, g) ==
  /\ g \in Heaps
  /\ Live(g) = Live(h)
  /\ \A n \in Live(h) :
       /\ g[n].next = h[n].next /\ g[n].prev = h[n].prev /\ g[n].ref = h[n].ref
       /\ g[n].child = IF n = a THEN i ELSE h[n].child

Enter(h, a, i) == [h EXCEPT ![a].child = i]

LEMMA FirstCells ==
  ASSUME NEW h \in Heaps, NEW a \in Live(h), NEW i \in Live(h), NEW g, g = Enter(h, a, i)
  PROVE  FirstAdded(h, a, i, g)
  <1> DEFINE r == Child_(h[a], i)
  <1>1. h[a] \in Cells /\ i \in Pointers
    BY CellFields DEF Pointers
  <1>2. r \in Cells /\ r.next = h[a].next /\ r.prev = h[a].prev /\ r.child = i /\ r.ref = h[a].ref
    BY <1>1, CellUpdate
  <1>3. g = Put(h, a, r)
    BY DEF Enter, Put, Child_
  <1> HIDE DEF r
  <1>4. /\ g \in Heaps /\ Live(g) = Live(h) /\ g[a] = r
        /\ \A n \in Live(h) : n # a => g[n] = h[n]
    BY <1>2, <1>3, LiveUpdate
  <1> QED BY <1>2, <1>4 DEF FirstAdded

LEMMA AddKeeps ==
  ASSUME NEW h \in Heaps, NEW hd, LInv(h, hd), NEW a \in Live(h), ~h[a].ref, NEW i \in hd,
         NEW last \in IF h[a].child = NULL THEN {NULL} ELSE Lasts(h, a),
         NEW g, g = AddItemToArray(h, a, last, i)
  PROVE  LInv(g, hd \ {i}) /\ Live(g) = Live(h)
  <1>1. /\ hd \subseteq Live(h) /\ Allocated(h) /\ BothWays(h, hd)
        /\ HeadsOwned(h, hd) /\ NULL \notin Live(h) /\ i \in Live(h)
    BY NullIsNoNode DEF LInv, Live
  <1>2. CASE h[a].child = NULL
    <2>1. FirstAdded(h, a, i, g)
      <3>1. g = Enter(h, a, i)
        BY <1>2 DEF AddItemToArray, Enter
      <3> QED BY <1>1, <3>1, FirstCells
    <2>2. Allocated(g)
      BY <1>1, <2>1 DEF FirstAdded, Allocated
    <2>3. BothWays(g, hd \ {i})
      BY <1>1, <2>1 DEF FirstAdded, Allocated, BothWays
    <2>4. HeadsOwned(g, hd \ {i})
      BY <1>1, <2>1 DEF FirstAdded, HeadsOwned
    <2> QED BY <1>1, <2>1, <2>2, <2>3, <2>4 DEF LInv, FirstAdded
  <1>3. CASE h[a].child # NULL
    <2>1. last \in Items(h, a) /\ last \in Live(h) /\ last \notin hd /\ h[last].next = NULL
      <3>1. last \in Items(h, a) /\ h[last].next = NULL
        BY <1>3 DEF Lasts
      <3> QED BY <3>1, NotHeld
    <2>2. LastAdded(h, last, i, g)
      <3>1. g = Suffix(h, last, i)
        BY <1>3 DEF AddItemToArray
      <3> QED BY <1>1, <2>1, <3>1, SuffixCells
    <2>3. Allocated(g)
      BY <1>1, <2>1, <2>2 DEF LastAdded, Allocated
    <2>4. BothWays(g, hd \ {i})
      <3> SUFFICES ASSUME NEW n \in Live(h)
                   PROVE  /\ g[n].next # NULL => g[g[n].next].prev = n
                          /\ g[n].prev # NULL => g[g[n].prev].next = n
                          /\ n \in hd \ {i} => g[n].next = NULL /\ g[n].prev = NULL
                          /\ g[n].child # NULL /\ ~g[n].ref => g[g[n].child].prev = NULL
        BY <2>2 DEF LastAdded, BothWays
      <3>1. g[n].next # NULL => g[g[n].next].prev = n
        BY <1>1, <2>1, <2>2 DEF LastAdded, BothWays, Allocated
      <3>2. g[n].prev # NULL => g[g[n].prev].next = n
        BY <1>1, <2>1, <2>2 DEF LastAdded, BothWays, Allocated
      <3>3. n \in hd \ {i} => g[n].next = NULL /\ g[n].prev = NULL
        BY <1>1, <2>1, <2>2 DEF LastAdded, BothWays, Allocated
      <3>4. g[n].child # NULL /\ ~g[n].ref => g[g[n].child].prev = NULL
        BY <1>1, <2>1, <2>2 DEF LastAdded, BothWays, Allocated, HeadsOwned
      <3> QED BY <3>1, <3>2, <3>3, <3>4
    <2>5. HeadsOwned(g, hd \ {i})
      BY <1>1, <2>2 DEF LastAdded, HeadsOwned
    <2> QED BY <1>1, <2>2, <2>3, <2>4, <2>5 DEF LInv, LastAdded
  <1> QED BY <1>2, <1>3

(* An item that is freed is the first, or the code gets to it from another *)
(* item it frees.                                                          *)
LEMMA FreedFrom ==
  ASSUME NEW h \in Heaps, Allocated(h), NEW c \in Live(h), NEW m \in Freed(h, c), m # c
  PROVE  \E k \in Freed(h, c) : k # m /\ (h[k].next = m \/ (~h[k].ref /\ h[k].child = m))
  <1> SUFFICES ASSUME \A k \in Freed(h, c) :
                        k # m => h[k].next # m /\ (h[k].ref \/ h[k].child # m)
               PROVE  FALSE
    OBVIOUS
  <1> DEFINE S == Freed(h, c) \ {m}
  <1>1. S \in SUBSET Live(h)
    BY DEF Freed, Reach
  <1>2. c \in S \cup {NULL}
    BY DEF Freed, Reach
  <1>3. \A k \in S : (IF h[k].ref THEN {h[k].next} ELSE {h[k].next, h[k].child})
                       \subseteq S \cup {NULL}
    BY FreedClosed
  <1> HIDE DEF S
  <1>4. m \in S
    BY <1>1, <1>2, <1>3 DEF Freed, Reach
  <1> QED BY <1>4 DEF S

LEMMA DeleteKeeps ==
  ASSUME NEW h \in Heaps, NEW hd, LInv(h, hd), NEW c \in hd, MayFree(h, c),
         NEW g, g = Delete(h, c)
  PROVE  LInv(g, hd \ {c})
  <1> DEFINE F == Freed(h, c)
  <1>1. /\ hd \subseteq Live(h) /\ Allocated(h) /\ BothWays(h, hd)
        /\ HeadsOwned(h, hd) /\ NULL \notin Live(h)
    BY NullIsNoNode DEF LInv, Live
  <1>2. \A m \in F : /\ m \in Live(h)
                     /\ h[m].next \in F \cup {NULL}
                     /\ ~h[m].ref => h[m].child \in F \cup {NULL}
    BY <1>1, FreedClosed
  <1>3. \A m \in F : m # c => \E k \in F : h[k].next = m \/ (~h[k].ref /\ h[k].child = m)
    BY <1>1, FreedFrom
  <1>4. \A r \in Live(h) \ F : h[r].ref => h[r].child \notin F
    BY DEF MayFree
  <1> HIDE DEF F
  <1>5. /\ g \in Heaps
        /\ Live(g) = Live(h) \ F
        /\ \A n \in Live(h) \ F : g[n] = h[n]
    <2>1. g = [n \in Nodes |-> IF n \in F THEN NULL ELSE h[n]]
      BY DEF Delete, F
    <2> QED BY <2>1 DEF Live, Heaps
  <1>6. \A n \in Live(h) \ F : h[n].next \notin F /\ h[n].prev \notin F
    BY <1>1, <1>2, <1>3 DEF BothWays
  <1>7. \A n \in Live(h) \ F : h[n].child \notin F
    BY <1>1, <1>2, <1>3, <1>4 DEF BothWays, HeadsOwned
  <1>8. \A n \in hd : n # c => n \notin F
    BY <1>1, <1>2, <1>3 DEF BothWays, HeadsOwned
  <1>9. Allocated(g)
    BY <1>1, <1>5, <1>6, <1>7 DEF Allocated
  <1>10. BothWays(g, hd \ {c})
    BY <1>1, <1>5, <1>6, <1>7 DEF BothWays, Allocated
  <1>11. HeadsOwned(g, hd \ {c})
    BY <1>1, <1>5 DEF HeadsOwned
  <1> QED BY <1>1, <1>5, <1>8, <1>9, <1>10, <1>11 DEF LInv

(* Another name, or none: the lists are as before.                         *)
Rename(h, i, d) == [h EXCEPT ![i].string = d]

LEMMA RenameKeeps ==
  ASSUME NEW h \in Heaps, NEW hd, LInv(h, hd), NEW i \in Live(h), NEW d \in Names \cup {NULL},
         NEW g, g = Rename(h, i, d)
  PROVE  /\ LInv(g, hd) /\ Live(g) = Live(h)
         /\ \A a \in Live(h) : g[a].ref = h[a].ref /\ Items(g, a) = Items(h, a)
  <1> DEFINE r == String_(h[i], d)
  <1>1. h[i] \in Cells
    BY CellFields
  <1>2. /\ r \in Cells /\ r.next = h[i].next /\ r.prev = h[i].prev
        /\ r.child = h[i].child /\ r.ref = h[i].ref
    BY <1>1, StringUpdate
  <1>3. g = Put(h, i, r)
    BY DEF Rename, Put, String_
  <1> HIDE DEF r
  <1>4. /\ g \in Heaps /\ Live(g) = Live(h) /\ g[i] = r
        /\ \A n \in Live(h) : n # i => g[n] = h[n]
    BY <1>2, <1>3, LiveUpdate
  <1>5. \A n \in Live(h) : /\ g[n].next = h[n].next /\ g[n].prev = h[n].prev
                           /\ g[n].child = h[n].child /\ g[n].ref = h[n].ref
    BY <1>2, <1>4
  <1>6. LInv(g, hd)
    BY <1>4, <1>5 DEF LInv, Allocated, BothWays, HeadsOwned
  <1>7. ASSUME NEW a \in Live(h)
        PROVE  Items(g, a) = Items(h, a)
    BY <1>4, <1>5 DEF Items, Chain, Reach
  <1> QED BY <1>4, <1>5, <1>6, <1>7

(* A new cell, which shows nothing, or is a reference.                     *)
LEMMA NewKeeps ==
  ASSUME NEW h \in Heaps, NEW hd, LInv(h, hd), NEW r \in Nodes, r \notin Live(h),
         NEW q \in Cells, q.next = NULL, q.prev = NULL,
         q.child = NULL \/ (q.child \in Live(h) /\ q.ref),
         NEW g, g = Put(h, r, q)
  PROVE  /\ LInv(g, hd \cup {r}) /\ Live(g) = Live(h) \cup {r} /\ g[r] = q
         /\ \A n \in Live(h) : g[n] = h[n]
  <1>1. /\ hd \subseteq Live(h) /\ Allocated(h) /\ BothWays(h, hd)
        /\ HeadsOwned(h, hd) /\ NULL \notin Live(h) /\ Live(h) \subseteq Nodes /\ r # NULL
    BY NullIsNoNode DEF LInv, Live
  <1>2. /\ g \in Heaps /\ Live(g) = Live(h) \cup {r} /\ g[r] = q
        /\ \A n \in Nodes \ {r} : g[n] = h[n]
    BY HeapUpdate
  <1>3. \A n \in Live(h) : g[n] = h[n]
    BY <1>1, <1>2
  <1>4. Allocated(g)
    BY <1>1, <1>2, <1>3 DEF Allocated
  <1>5. BothWays(g, hd \cup {r})
    BY <1>1, <1>2, <1>3 DEF BothWays, Allocated
  <1>6. HeadsOwned(g, hd \cup {r})
    BY <1>1, <1>2, <1>3 DEF HeadsOwned, Allocated
  <1> QED BY <1>1, <1>2, <1>3, <1>4, <1>5, <1>6 DEF LInv

Ref_(r) == [r EXCEPT !.ref = TRUE]

LEMMA RefUpdate ==
  ASSUME NEW r \in Cells
  PROVE  /\ Ref_(r) \in Cells
         /\ Ref_(r).next = r.next /\ Ref_(r).prev = r.prev
         /\ Ref_(r).child = r.child /\ Ref_(r).ref = TRUE
  BY DEF Cells, Ref_

Refer(r) == [r EXCEPT !.string = NULL, !.ref = TRUE, !.next = NULL, !.prev = NULL]

LEMMA ReferCell ==
  ASSUME NEW r \in Cells, NEW d \in Names \cup {NULL}, NEW q, q = String_(Refer(r), d)
  PROVE  /\ q \in Cells /\ q.next = NULL /\ q.prev = NULL /\ q.child = r.child /\ q.ref = TRUE
  <1> DEFINE s == String_(r, NULL)
             t == Ref_(s)
             u == Prev_(Next_(t, NULL), NULL)
  <1>1. s \in Cells /\ s.child = r.child
    BY StringUpdate
  <1>2. Refer(r) = u
    BY DEF Refer, String_, Ref_, Next_, Prev_
  <1> HIDE DEF s
  <1>3. t \in Cells /\ t.child = r.child /\ t.ref = TRUE
    BY <1>1, RefUpdate
  <1> HIDE DEF t
  <1>4. NULL \in Pointers
    BY DEF Pointers
  <1>5. u \in Cells /\ u.next = NULL /\ u.prev = NULL /\ u.child = r.child /\ u.ref = TRUE
    BY <1>3, <1>4, CellPatch
  <1> HIDE DEF u
  <1>6. q = String_(u, d)
    BY <1>2
  <1> QED BY <1>5, <1>6, StringUpdate

LEMMA BlankCell ==
  /\ Blank \in Cells /\ Blank.next = NULL /\ Blank.prev = NULL /\ Blank.child = NULL
  BY DEF Blank, Cells, Pointers

-----------------------------------------------------------------------------
(* The actions.                                                            *)

LEMMA Heap == ASSUME LInv(heap, held) PROVE heap \in Heaps /\ held \subseteq Live(heap)
  BY DEF LInv

LEMMA InitLists == Init => LInv(heap, held)
  BY DEF Init, LInv, Heaps, Live, Allocated, BothWays, HeadsOwned

LEMMA CreateLists == LInv(heap, held) /\ Create => LInv(heap', held')
  <1> SUFFICES ASSUME LInv(heap, held), Create
               PROVE  LInv(heap', held')
    OBVIOUS
  <1>1. PICK n \in Free : heap' = Put(heap, n, Blank) /\ held' = held \cup {n}
    BY DEF Create, Put
  <1>2. n \in Nodes /\ n \notin Live(heap)
    BY DEF Free
  <1> QED BY <1>1, <1>2, Heap, BlankCell, NewKeeps

LEMMA AttachLists ==
  ASSUME NEW h \in Heaps, NEW hd, LInv(h, hd), NEW a \in Live(h), NEW i \in hd, Attach(h, a, i)
  PROVE  LInv(heap', hd \ {i})
  <1>1. ~h[a].ref
    BY DEF Attach, MayHold
  <1>2. PICK last \in IF h[a].child = NULL THEN {NULL} ELSE Lasts(h, a) :
          heap' = AddItemToArray(h, a, last, i)
    BY DEF Attach
  <1> QED BY <1>1, <1>2, AddKeeps

LEMMA AddToArrayLists == LInv(heap, held) /\ AddToArray => LInv(heap', held')
  <1> SUFFICES ASSUME LInv(heap, held), AddToArray
               PROVE  LInv(heap', held')
    OBVIOUS
  <1>1. PICK a \in Live(heap), i \in held : Attach(heap, a, i) /\ held' = held \ {i}
    BY DEF AddToArray
  <1> QED BY <1>1, Heap, AttachLists

LEMMA Strings == \A s : Strdup(s) \subseteq {s, NULL}
  BY DEF Strdup

LEMMA AddToObjectLists == LInv(heap, held) /\ AddToObject => LInv(heap', held')
  <1> SUFFICES ASSUME LInv(heap, held), AddToObject
               PROVE  LInv(heap', held')
    OBVIOUS
  <1>1. PICK a \in Live(heap), i \in held, d \in Names \cup {NULL} :
          Attach(Rename(heap, i, d), a, i) /\ held' = held \ {i}
    BY Strings DEF AddToObject, Rename
  <1> DEFINE h == Rename(heap, i, d)
  <1>2. i \in Live(heap) /\ d \in Names \cup {NULL}
    BY Heap
  <1>3. LInv(h, held) /\ Live(h) = Live(heap)
    BY <1>2, Heap, RenameKeeps
  <1> HIDE DEF h
  <1>4. h \in Heaps /\ a \in Live(h)
    BY <1>3 DEF LInv
  <1>5. Attach(h, a, i)
    BY <1>1 DEF h
  <1> QED BY <1>1, <1>3, <1>4, <1>5, AttachLists

LEMMA AddReferenceLists == LInv(heap, held) /\ AddReference => LInv(heap', held')
  <1> SUFFICES ASSUME LInv(heap, held), AddReference
               PROVE  LInv(heap', held')
    OBVIOUS
  <1> DEFINE With(item, r, d) ==
               [heap EXCEPT ![r] = [Reference(heap, item) EXCEPT !.string = d]]
  <1>0. \A item \in Live(heap) : Reference(heap, item).string = NULL
    BY Heap, CellFields DEF Reference, Cells
  <1>1. PICK a \in Live(heap), item \in Live(heap), r \in Free, d \in Names \cup {NULL} :
          Attach(With(item, r, d), a, r) /\ UNCHANGED held
    <2> HIDE DEF With
    <2>1. PICK a \in Live(heap), item \in Live(heap), r \in Free :
            \E d \in {Reference(heap, item).string} \cup UNION {Strdup(s) : s \in Names} :
              Attach(With(item, r, d), a, r) /\ UNCHANGED held
      BY Zenon DEF AddReference, With
    <2>2. {Reference(heap, item).string} \cup UNION {Strdup(s) : s \in Names}
            \subseteq Names \cup {NULL}
      BY <1>0, Strings
    <2> QED BY <2>1, <2>2
  <1> DEFINE c == heap[item]
             q == String_(Refer(c), d)
             h == Put(heap, r, q)
  <1>2. c \in Cells /\ c.child \in Live(heap) \cup {NULL} /\ r \in Nodes /\ r \notin Live(heap)
    BY Heap, CellFields DEF LInv, Allocated, Free
  <1>4. Attach(h, a, r)
    BY <1>1 DEF Put, String_, Refer, Reference
  <1> HIDE DEF h
  <1> HIDE DEF q
  <1> HIDE DEF c
  <1>5. q \in Cells /\ q.next = NULL /\ q.prev = NULL /\ q.child = c.child /\ q.ref = TRUE
    BY <1>2, ReferCell DEF q
  <1>6. LInv(h, held \cup {r}) /\ Live(h) = Live(heap) \cup {r}
    <2>1. /\ q \in Cells /\ q.next = NULL /\ q.prev = NULL
          /\ q.child = NULL \/ (q.child \in Live(heap) /\ q.ref)
      BY <1>2, <1>5
    <2>2. heap \in Heaps /\ r \in Nodes /\ r \notin Live(heap)
      BY <1>2, Heap
    <2> QED BY <2>1, <2>2, NewKeeps DEF h
  <1>7. h \in Heaps /\ a \in Live(h) /\ r \in held \cup {r}
    BY <1>6 DEF LInv
  <1>8. LInv(heap', (held \cup {r}) \ {r})
    BY <1>4, <1>6, <1>7, AttachLists
  <1>9. (held \cup {r}) \ {r} = held
    BY <1>2, Heap
  <1> QED BY <1>1, <1>8, <1>9

LEMMA DetachItemLists == LInv(heap, held) /\ DetachItem => LInv(heap', held')
  <1> SUFFICES ASSUME LInv(heap, held), DetachItem
               PROVE  LInv(heap', held')
    OBVIOUS
  <1>1. PICK a \in Live(heap) : \E c \in Items(heap, a) :
          ~heap[a].ref /\ heap' = Detach(heap, a, c) /\ held' = held \cup {c}
    BY DEF DetachItem
  <1> QED BY <1>1, Heap, DetachKeeps

LEMMA DeleteItemLists == LInv(heap, held) /\ DeleteItem => LInv(heap', held')
  <1> SUFFICES ASSUME LInv(heap, held), DeleteItem
               PROVE  LInv(heap', held')
    OBVIOUS
  <1>0. PICK a \in Live(heap) : \E c \in Items(heap, a) :
          ~heap[a].ref /\ DeleteIn(Detach(heap, a, c), c) /\ UNCHANGED held
    BY DEF DeleteItem
  <1>1. PICK c \in Items(heap, a) :
          ~heap[a].ref /\ DeleteIn(Detach(heap, a, c), c) /\ UNCHANGED held
    BY <1>0
  <1> DEFINE h == Detach(heap, a, c)
  <1>2. LInv(h, held \cup {c})
    BY <1>1, Heap, DetachKeeps
  <1>3. MayFree(h, c) /\ heap' = Delete(h, c)
    BY <1>1 DEF DeleteIn
  <1>4. c \notin held
    BY <1>1, Heap, NotHeld
  <1> HIDE DEF h
  <1>5. h \in Heaps /\ c \in held \cup {c}
    BY <1>2 DEF LInv
  <1>6. LInv(heap', (held \cup {c}) \ {c})
    BY <1>2, <1>3, <1>5, DeleteKeeps
  <1>7. (held \cup {c}) \ {c} = held
    BY <1>4
  <1> QED BY <1>1, <1>6, <1>7

LEMMA DeleteHeldLists == LInv(heap, held) /\ DeleteHeld => LInv(heap', held')
  <1> SUFFICES ASSUME LInv(heap, held), DeleteHeld
               PROVE  LInv(heap', held')
    OBVIOUS
  <1>1. PICK c \in held : MayFree(heap, c) /\ heap' = Delete(heap, c) /\ held' = held \ {c}
    BY DEF DeleteHeld, DeleteIn
  <1> QED BY <1>1, Heap, DeleteKeeps

LEMMA SwapLists ==
  ASSUME NEW h \in Heaps, NEW hd, LInv(h, hd), NEW a \in Live(h), ~h[a].ref, NEW i \in hd,
         NEW c \in Items(h, a), NEW g, g = Replace(h, a, c, i), MayFree(g, c)
  PROVE  LInv(Delete(g, c), hd \ {i})
  <1>1. LInv(g, (hd \ {i}) \cup {c})
    BY ReplaceKeeps
  <1>2. g \in Heaps /\ c \in (hd \ {i}) \cup {c}
    BY <1>1 DEF LInv
  <1>3. LInv(Delete(g, c), ((hd \ {i}) \cup {c}) \ {c})
    BY <1>1, <1>2, DeleteKeeps
  <1>4. c \notin hd
    BY NotHeld
  <1>5. ((hd \ {i}) \cup {c}) \ {c} = hd \ {i}
    BY <1>4
  <1> QED BY <1>3, <1>5

LEMMA ReplaceInArrayLists == LInv(heap, held) /\ ReplaceInArray => LInv(heap', held')
  <1> SUFFICES ASSUME LInv(heap, held), ReplaceInArray
               PROVE  LInv(heap', held')
    OBVIOUS
  <1>1. PICK a \in Live(heap), i \in held : \E c \in Items(heap, a) :
          /\ ~heap[a].ref /\ DeleteIn(Replace(heap, a, c, i), c) /\ held' = held \ {i}
    BY DEF ReplaceInArray, MayHold
  <1>2. PICK c \in Items(heap, a) :
          /\ ~heap[a].ref /\ DeleteIn(Replace(heap, a, c, i), c) /\ held' = held \ {i}
    BY <1>1
  <1> DEFINE g == Replace(heap, a, c, i)
  <1>3. MayFree(g, c) /\ heap' = Delete(g, c)
    BY <1>2 DEF DeleteIn
  <1>4. LInv(Delete(g, c), held \ {i})
    BY <1>2, <1>3, Heap, SwapLists
  <1> QED BY <1>2, <1>3, <1>4

LEMMA ReplaceInObjectLists == LInv(heap, held) /\ ReplaceInObject => LInv(heap', held')
  <1> SUFFICES ASSUME LInv(heap, held), ReplaceInObject
               PROVE  LInv(heap', held')
    OBVIOUS
  <1> DEFINE To(a, i, c, d) == Replace(Rename(heap, i, d), a, c, i)
  <1>1. PICK a \in Live(heap), i \in held, s \in Names :
          \E c \in Items(heap, a), d \in Strdup(s) :
            /\ ~heap[a].ref /\ MayFree(To(a, i, c, d), c)
            /\ heap' = Delete(To(a, i, c, d), c) /\ held' = held \ {i}
    BY DEF ReplaceInObject, Rename, MayHold
  <1>2. PICK c \in Items(heap, a), d \in Names \cup {NULL} :
            /\ ~heap[a].ref /\ MayFree(To(a, i, c, d), c)
            /\ heap' = Delete(To(a, i, c, d), c) /\ held' = held \ {i}
    BY <1>1, Strings
  <1> DEFINE h == Rename(heap, i, d)
             g == Replace(h, a, c, i)
  <1>3. MayFree(g, c) /\ heap' = Delete(g, c)
    BY <1>2
  <1>4. /\ LInv(h, held) /\ Live(h) = Live(heap)
        /\ h[a].ref = heap[a].ref /\ Items(h, a) = Items(heap, a)
    <2>1. i \in Live(heap)
      BY Heap
    <2> QED BY <2>1, Heap, RenameKeeps
  <1>5. ~h[a].ref /\ c \in Items(h, a) /\ h \in Heaps /\ a \in Live(h)
    BY <1>2, <1>4 DEF LInv
  <1> HIDE DEF h
  <1>6. LInv(Delete(g, c), held \ {i})
    BY <1>3, <1>4, <1>5, SwapLists
  <1> QED BY <1>2, <1>3, <1>6

LEMMA CreateNumbersLists == LInv(heap, held) /\ CreateNumbers => LInv(heap', held')
  <1> SUFFICES ASSUME LInv(heap, held), CreateNumbers
               PROVE  LInv(heap', held')
    OBVIOUS
  <1> DEFINE Cell(m) == [Blank EXCEPT !.child = m]
             Three(a, m, n) == [heap EXCEPT ![a] = Cell(m), ![m] = Blank, ![n] = Blank]
  <1>1. PICK a \in Free, m \in Free, n \in Free :
          /\ a # m /\ m # n /\ a # n
          /\ heap' = Suffix(Three(a, m, n), m, n)
          /\ held' = held \cup {a}
    BY DEF CreateNumbers
  <1>2. /\ {a, m, n} \subseteq Nodes
        /\ a \notin Live(heap) /\ m \notin Live(heap) /\ n \notin Live(heap)
    BY DEF Free
  <1> DEFINE e == Put(heap, m, Blank)
             f == Put(e, n, Blank)
             g == Put(f, a, Blank)
             h == Enter(g, a, m)
  <1>3. h = Three(a, m, n)
    <2>1. heap \in Heaps
      BY Heap
    <2> QED BY <1>1, <1>2, <2>1 DEF Put, Enter, Heaps
  <1> HIDE DEF e, f, g, h, Three
  <1>4. LInv(e, held \cup {m}) /\ Live(e) = Live(heap) \cup {m}
    BY <1>2, Heap, BlankCell, NewKeeps DEF e
  <1>5. LInv(f, held \cup {m, n}) /\ Live(f) = Live(heap) \cup {m, n}
    <2>1. e \in Heaps /\ n \notin Live(e)
      BY <1>1, <1>2, <1>4 DEF LInv
    <2>2. LInv(f, (held \cup {m}) \cup {n}) /\ Live(f) = Live(e) \cup {n}
      BY <1>2, <1>4, <2>1, BlankCell, NewKeeps DEF f
    <2>3. (held \cup {m}) \cup {n} = held \cup {m, n}
      OBVIOUS
    <2> QED BY <1>4, <2>2, <2>3
  <1>6. LInv(g, held \cup {a, m, n}) /\ Live(g) = Live(heap) \cup {a, m, n} /\ g[a] = Blank
        /\ g[m].next = NULL
    <2> DEFINE hd == held \cup {m, n}
    <2>1. f \in Heaps /\ a \in Nodes /\ a \notin Live(f) /\ LInv(f, hd)
      BY <1>1, <1>2, <1>5 DEF LInv
    <2> HIDE DEF hd
    <2>2. LInv(g, hd \cup {a}) /\ Live(g) = Live(f) \cup {a}
      BY <2>1, BlankCell, NewKeeps DEF g
    <2>3. g[a] = Blank
      BY <2>1, BlankCell, HeapUpdate DEF g
    <2>4. hd \cup {a} = held \cup {a, m, n}
      BY DEF hd
    <2>5. LInv(g, held \cup {a, m, n}) /\ Live(g) = Live(heap) \cup {a, m, n} /\ g[a] = Blank
      BY <1>5, <2>2, <2>4, <2>3
    <2> QED BY <2>5 DEF LInv, BothWays
  <1>7. /\ LInv(h, held \cup {a, n}) /\ Live(h) = Live(g)
        /\ h[a].child = m /\ ~h[a].ref /\ h[m].next = NULL
    <2>1. /\ g \in Heaps /\ a \in Live(g) /\ m \in Live(g) /\ m \in held \cup {a, m, n}
          /\ ~g[a].ref /\ g[a].child = NULL
      BY <1>6 DEF LInv, Blank
    <2>2. h = AddItemToArray(g, a, NULL, m)
      BY <2>1 DEF h, AddItemToArray, Enter
    <2>3. NULL \in IF g[a].child = NULL THEN {NULL} ELSE Lasts(g, a)
      BY <2>1
    <2>4. LInv(h, (held \cup {a, m, n}) \ {m}) /\ Live(h) = Live(g)
      BY <1>6, <2>1, <2>2, <2>3, AddKeeps
    <2>5. (held \cup {a, m, n}) \ {m} = held \cup {a, n}
      BY <1>1, <1>2, Heap
    <2>6. FirstAdded(g, a, m, h)
      BY <2>1, FirstCells DEF h
    <2> QED BY <1>6, <2>1, <2>4, <2>5, <2>6 DEF FirstAdded
  <1>8. m \in Lasts(h, a)
    <2>1. m \in Live(h) /\ m # NULL
      BY <1>6, <1>7, NullIsNoNode, <1>2
    <2> QED BY <1>7, <2>1 DEF Lasts, Items, Chain, Reach
  <1>9. LInv(heap', held \cup {a})
    <2>1. heap' = AddItemToArray(h, a, m, n)
      BY <1>1, <1>2, <1>3, <1>7, NullIsNoNode DEF AddItemToArray
    <2>2. h \in Heaps /\ a \in Live(h) /\ n \in held \cup {a, n} /\ h[a].child # NULL
      BY <1>2, <1>6, <1>7, NullIsNoNode DEF LInv
    <2>3. m \in IF h[a].child = NULL THEN {NULL} ELSE Lasts(h, a)
      BY <1>8, <2>2
    <2>4. LInv(heap', (held \cup {a, n}) \ {n})
      BY <1>7, <2>1, <2>2, <2>3, AddKeeps
    <2>5. (held \cup {a, n}) \ {n} = held \cup {a}
      BY <1>1, <1>2, Heap
    <2> QED BY <2>4, <2>5
  <1> QED BY <1>1, <1>9

(* A copy: in the cells of Free, and linked as the original is.            *)
CopyOf(x, item, S, f) == IF x \in S \ {item} THEN f[x] ELSE NULL

Copies(item, S, f) ==
  /\ item \in S /\ S \subseteq Live(heap) /\ MetOnce(item, S)
  /\ S = {item} \/ S = {item} \cup Content(heap, item)
  /\ \A m \in S : f[m] \in Nodes /\ f[m] \notin Live(heap) /\ f[m] # NULL
  /\ \A m, n \in S : f[m] = f[n] => m = n
  /\ heap' \in Heaps /\ Live(heap') = Live(heap) \cup {f[m] : m \in S}
  /\ held' = held \cup {f[item]}
  /\ \A n \in Live(heap) : heap'[n] = heap[n]
  /\ \A m \in S :
       /\ heap'[f[m]].next = IF m = item THEN NULL ELSE CopyOf(heap[m].next, item, S, f)
       /\ heap'[f[m]].prev = IF m = item THEN NULL ELSE CopyOf(heap[m].prev, item, S, f)
       /\ heap'[f[m]].child = CopyOf(heap[m].child, item, S, f) /\ ~heap'[f[m]].ref
       /\ heap'[f[m]].string = heap[m].string
  /\ names + Named(heap, S) <= MaxNames /\ names' = names + Named(heap, S) /\ lost' = lost

LEMMA DuplicateCells == LInv(heap, held) /\ Duplicate => \E item, S, f : Copies(item, S, f)
  <1> SUFFICES ASSUME LInv(heap, held), Duplicate
               PROVE  \E item, S, f : Copies(item, S, f)
    OBVIOUS
  <1> DEFINE Copy(f, item, S) ==
               [n \in Nodes |-> IF \E m \in S : f[m] = n
                                THEN Copied(item, S, f)[CHOOSE m \in S : f[m] = n]
                                ELSE heap[n]]
             Counts(S) ==
               names + Named(heap, S) <= MaxNames /\ names' = names + Named(heap, S) /\ lost' = lost
  <1>1. PICK item \in Live(heap), S \in SUBSET Live(heap) :
          /\ item \in S /\ MetOnce(item, S)
          /\ S = {item} \/ S = {item} \cup Content(heap, item)
          /\ Counts(S)
          /\ \E f \in [S -> Free] :
               /\ \A m, n \in S : f[m] = f[n] => m = n
               /\ heap' = Copy(f, item, S)
               /\ held' = held \cup {f[item]}
    <2>1. PICK item \in Live(heap), recurse \in BOOLEAN :
            LET S == {item} \cup (IF recurse THEN Content(heap, item) ELSE {}) IN
            /\ MetOnce(item, S)
            /\ Counts(S)
            /\ \E f \in [S -> Free] :
                 /\ \A m, n \in S : f[m] = f[n] => m = n
                 /\ heap' = Copy(f, item, S)
                 /\ held' = held \cup {f[item]}
      BY Zenon DEF Duplicate
    <2> DEFINE S == {item} \cup (IF recurse THEN Content(heap, item) ELSE {})
    <2>2. S \in SUBSET Live(heap) /\ item \in S
      BY DEF Content, Reach
    <2>3. S = {item} \/ S = {item} \cup Content(heap, item)
      OBVIOUS
    <2> HIDE DEF Copy, Counts
    <2> QED BY <2>1, <2>2, <2>3
  <1>2. PICK f \in [S -> Free] :
          /\ \A m, n \in S : f[m] = f[n] => m = n
          /\ heap' = Copy(f, item, S)
          /\ held' = held \cup {f[item]}
    BY <1>1
  <1>3. heap \in Heaps /\ NULL \notin Live(heap) /\ Live(heap) \subseteq Nodes
    BY NullIsNoNode DEF LInv, Live
  <1>4. \A m \in S : f[m] \in Nodes /\ f[m] \notin Live(heap) /\ f[m] # NULL /\ m \in Live(heap)
    BY <1>2, NullIsNoNode DEF Free
  <1> DEFINE To(m) == IF m \in S \ {item} THEN f[m] ELSE NULL
             C(m) == [next |-> IF m = item THEN NULL ELSE To(heap[m].next),
                      prev |-> IF m = item THEN NULL ELSE To(heap[m].prev),
                      child |-> To(heap[m].child),
                      ref |-> FALSE,
                      string |-> heap[m].string]
             D == {f[m] : m \in S}
  <1>5. \A m \in S : C(m) \in Cells
    <2> TAKE m \in S
    <2>1. /\ heap[m].string \in Names \cup {NULL}
          /\ \A x : To(x) \in Pointers
      BY <1>3, <1>4, CellFields DEF Pointers
    <2> HIDE DEF To
    <2> QED BY <2>1 DEF Cells, Pointers
  <1>6. \A m \in S : heap'[f[m]] = C(m)
    <2> TAKE m \in S
    <2>1. (CHOOSE k \in S : f[k] = f[m]) = m
      BY <1>2
    <2>2. heap'[f[m]] = Copied(item, S, f)[m]
      BY <1>2, <1>4, <2>1
    <2>3. Copied(item, S, f)[m] = C(m)
      BY DEF Copied
    <2> QED BY <2>2, <2>3
  <1>7. \A n \in Nodes \ D : heap'[n] = heap[n]
    BY <1>2
  <1>8. heap' \in Heaps
    <2>1. heap' = [n \in Nodes |-> heap'[n]]
      BY <1>2
    <2>2. \A n \in Nodes : heap'[n] \in Cells \cup {NULL}
      <3> HIDE DEF C
      <3> QED BY <1>3, <1>5, <1>6, <1>7 DEF Heaps
    <2> QED BY <2>1, <2>2 DEF Heaps
  <1>9. /\ Live(heap') = Live(heap) \cup D
        /\ \A n \in Live(heap) : n \notin D /\ heap'[n] = heap[n]
    <2> HIDE DEF C
    <2> QED BY <1>3, <1>4, <1>5, <1>6, <1>7, CellsType DEF Live
  <1>10. \A m \in S :
           /\ heap'[f[m]].next = IF m = item THEN NULL ELSE To(heap[m].next)
           /\ heap'[f[m]].prev = IF m = item THEN NULL ELSE To(heap[m].prev)
           /\ heap'[f[m]].child = To(heap[m].child) /\ ~heap'[f[m]].ref
           /\ heap'[f[m]].string = heap[m].string
    <2> TAKE m \in S
    <2>1. heap'[f[m]] = C(m)
      BY <1>6
    <2>2. /\ C(m).next = IF m = item THEN NULL ELSE To(heap[m].next)
          /\ C(m).prev = IF m = item THEN NULL ELSE To(heap[m].prev)
          /\ C(m).child = To(heap[m].child) /\ ~C(m).ref /\ C(m).string = heap[m].string
      <3> HIDE DEF To
      <3> QED OBVIOUS
    <2> HIDE DEF C, To
    <2> QED BY <2>1, <2>2
  <1>11. \A x : To(x) = CopyOf(x, item, S, f)
    BY DEF CopyOf
  <1> HIDE DEF C, To
  <1>12. Copies(item, S, f)
    BY <1>1, <1>2, <1>4, <1>8, <1>9, <1>10, <1>11 DEF Copies
  <1> QED BY <1>12

LEMMA DuplicateLists == LInv(heap, held) /\ Duplicate => LInv(heap', held')
  <1> SUFFICES ASSUME LInv(heap, held), Duplicate
               PROVE  LInv(heap', held')
    OBVIOUS
  <1>1. PICK item, S, f : Copies(item, S, f)
    BY DuplicateCells
  <1> DEFINE To(x) == IF x \in S \ {item} THEN f[x] ELSE NULL
             D == {f[m] : m \in S}
  <1>3. /\ heap \in Heaps /\ held \subseteq Live(heap) /\ Allocated(heap) /\ BothWays(heap, held)
        /\ HeadsOwned(heap, held) /\ NULL \notin Live(heap) /\ Live(heap) \subseteq Nodes
    BY NullIsNoNode DEF LInv, Live
  <1>4. \A m \in S : f[m] \in Nodes /\ f[m] \notin Live(heap) /\ f[m] # NULL /\ m \in Live(heap)
    BY <1>1 DEF Copies
  <1>8. heap' \in Heaps
    BY <1>1 DEF Copies
  <1>9. /\ Live(heap') = Live(heap) \cup D
        /\ \A n \in Live(heap) : n \notin D /\ heap'[n] = heap[n]
    BY <1>1 DEF Copies
  <1>10. \A m \in S :
           /\ heap'[f[m]].next = IF m = item THEN NULL ELSE To(heap[m].next)
           /\ heap'[f[m]].prev = IF m = item THEN NULL ELSE To(heap[m].prev)
           /\ heap'[f[m]].child = To(heap[m].child) /\ ~heap'[f[m]].ref
    BY <1>1 DEF Copies, CopyOf
  <1>11. /\ \A m, n \in S : f[m] = f[n] => m = n
         /\ \A n \in Live(heap) : n \in held' <=> n \in held
         /\ \A m \in S : f[m] \in held' <=> m = item
         /\ NULL \notin held' /\ MetOnce(item, S)
         /\ item \in S /\ held' = held \cup {f[item]}
    BY <1>1, <1>3, <1>4 DEF Copies
  <1> HIDE DEF D
  <1>12. Allocated(heap')
    <2>1. ASSUME NEW n \in Live(heap)
          PROVE  {heap'[n].next, heap'[n].prev, heap'[n].child} \subseteq Live(heap') \cup {NULL}
      BY <1>3, <1>9 DEF Allocated
    <2>2. ASSUME NEW m \in S
          PROVE  {heap'[f[m]].next, heap'[f[m]].prev, heap'[f[m]].child}
                   \subseteq Live(heap') \cup {NULL}
      BY <1>9, <1>10 DEF D
    <2> QED BY <1>9, <2>1, <2>2 DEF Allocated, D
  <1>13. BothWays(heap', held')
    <2>1. ASSUME NEW n \in Live(heap)
          PROVE  /\ heap'[n].next # NULL => heap'[heap'[n].next].prev = n
                 /\ heap'[n].prev # NULL => heap'[heap'[n].prev].next = n
                 /\ n \in held' => heap'[n].next = NULL /\ heap'[n].prev = NULL
                 /\ heap'[n].child # NULL /\ ~heap'[n].ref => heap'[heap'[n].child].prev = NULL
      BY <1>3, <1>9, <1>11 DEF Allocated, BothWays
    <2>2. ASSUME NEW m \in S
          PROVE  /\ heap'[f[m]].next # NULL => heap'[heap'[f[m]].next].prev = f[m]
                 /\ heap'[f[m]].prev # NULL => heap'[heap'[f[m]].prev].next = f[m]
      BY <1>3, <1>4, <1>10 DEF BothWays
    <2>3. ASSUME NEW m \in S, f[m] \in held'
          PROVE  heap'[f[m]].next = NULL /\ heap'[f[m]].prev = NULL
      BY <1>10, <1>11, <2>3
    <2>4. ASSUME NEW m \in S, heap'[f[m]].child # NULL
          PROVE  heap'[heap'[f[m]].child].prev = NULL
      <3>1. heap[m].child \in S \ {item} /\ heap'[f[m]].child = f[heap[m].child]
        BY <1>10, <2>4
      <3>2. heap[heap[m].child].prev \notin S \ {item}
        BY <1>3, <1>4, <1>11, <3>1 DEF MetOnce, BothWays
      <3> QED BY <1>10, <3>1, <3>2
    <2> QED BY <1>9, <2>1, <2>2, <2>3, <2>4 DEF BothWays, D
  <1>14. HeadsOwned(heap', held')
    <2>1. ASSUME NEW m \in S, NEW n \in S, heap'[f[m]].child = heap'[f[n]].child,
                 heap'[f[m]].child # NULL
          PROVE  m = n
      <3>1. \A k \in {m, n} : /\ heap[k].child \in S \ {item}
                              /\ heap'[f[k]].child = f[heap[k].child]
        BY <1>10, <2>1
      <3>2. heap[m].child = heap[n].child
        BY <1>11, <2>1, <3>1
      <3> QED BY <1>11, <3>1, <3>2 DEF MetOnce
    <2>2. ASSUME NEW m \in S
          PROVE  heap'[f[m]].child \notin held' /\ heap'[f[m]].child \notin Live(heap)
      BY <1>3, <1>4, <1>10, <1>11
    <2>3. ASSUME NEW n \in Live(heap), ~heap'[n].ref
          PROVE  heap'[n].child \notin held' /\ heap'[n].child \in Live(heap) \cup {NULL}
      BY <1>3, <1>9, <1>11, <2>3 DEF HeadsOwned, Allocated
    <2>4. ASSUME NEW m \in Live(heap), NEW n \in Live(heap), ~heap'[m].ref, ~heap'[n].ref,
                 heap'[m].child = heap'[n].child, heap'[m].child # NULL
          PROVE  m = n
      BY <1>3, <1>9, <2>4 DEF HeadsOwned
    <2> QED BY <1>9, <2>1, <2>2, <2>3, <2>4 DEF HeadsOwned, D
  <1>15. held' \subseteq Live(heap')
    BY <1>3, <1>9, <1>11 DEF D
  <1> QED BY <1>8, <1>12, <1>13, <1>14, <1>15 DEF LInv

-----------------------------------------------------------------------------
ListInv == LInv(heap, held)

LEMMA NextLists == ListInv /\ [Next]_vars => ListInv'
  <1> SUFFICES ASSUME LInv(heap, held), [Next]_vars
               PROVE  LInv(heap', held')
    BY DEF ListInv
  <1>1. CASE Create            BY <1>1, CreateLists
  <1>2. CASE CreateNumbers     BY <1>2, CreateNumbersLists
  <1>3. CASE AddToArray        BY <1>3, AddToArrayLists
  <1>4. CASE AddToObject       BY <1>4, AddToObjectLists
  <1>5. CASE AddReference      BY <1>5, AddReferenceLists
  <1>6. CASE DetachItem        BY <1>6, DetachItemLists
  <1>7. CASE DeleteItem        BY <1>7, DeleteItemLists
  <1>8. CASE DeleteHeld        BY <1>8, DeleteHeldLists
  <1>9. CASE ReplaceInArray    BY <1>9, ReplaceInArrayLists
  <1>10. CASE ReplaceInObject  BY <1>10, ReplaceInObjectLists
  <1>11. CASE Duplicate        BY <1>11, DuplicateLists
  <1>12. CASE UNCHANGED vars
    BY <1>12 DEF vars, LInv, Heaps, Live, Allocated, BothWays, HeadsOwned
  <1> QED BY <1>1, <1>2, <1>3, <1>4, <1>5, <1>6, <1>7, <1>8, <1>9, <1>10, <1>11, <1>12 DEF Next

(* Every execution of JsonTree has its lists linked both ways, holds only  *)
(* what is in no list, and has no pointer to a structure that was freed:   *)
(* the property the run checks, for any number of items and names.         *)
THEOREM ListsLinked == Spec => []Linked
  <1>1. Init => ListInv
    BY InitLists DEF ListInv
  <1>2. ListInv => Linked
    BY DEF ListInv, LInv, Linked, Allocated, BothWays, Live
  <1> QED BY <1>1, <1>2, NextLists, PTL DEF Spec

-----------------------------------------------------------------------------
(* Names.  What an operator does to the name of each item.                 *)

SameNames(h, g) == Live(g) = Live(h) /\ \A n \in Live(h) : g[n].string = h[n].string

LEMMA UpdateKeepsName ==
  ASSUME NEW r \in Cells, NEW x \in Pointers
  PROVE  /\ Next_(r, x).string = r.string /\ Prev_(r, x).string = r.string
         /\ Child_(r, x).string = r.string
  BY DEF Cells, Next_, Prev_, Child_

(* A cell of a live item is replaced by one with the same name. *)
LEMMA PutKeepsNames ==
  ASSUME NEW h \in Heaps, NEW p \in Live(h), NEW r \in Cells, r.string = h[p].string,
         NEW g, g = Put(h, p, r)
  PROVE  g \in Heaps /\ SameNames(h, g)
  BY LiveUpdate DEF SameNames

LEMMA SuffixNames ==
  ASSUME NEW h \in Heaps, NEW p \in Live(h), NEW i \in Live(h), NEW g, g = Suffix(h, p, i)
  PROVE  SameNames(h, g)
  <1> DEFINE r == Next_(h[p], i)
             f == Put(h, p, r)
             q == Prev_(f[i], p)
  <1>1. h[p] \in Cells /\ p \in Pointers /\ i \in Pointers /\ p \in Nodes /\ i \in Nodes
    BY CellFields DEF Pointers
  <1>2. r \in Cells /\ r.string = h[p].string
    BY <1>1, CellUpdate, UpdateKeepsName
  <1>3. f \in Heaps /\ SameNames(h, f)
    BY <1>2, PutKeepsNames
  <1>4. f[i] \in Cells /\ i \in Live(f)
    BY <1>3, CellFields DEF SameNames
  <1>5. q \in Cells /\ q.string = f[i].string
    BY <1>1, <1>4, CellUpdate, UpdateKeepsName
  <1>6. SameNames(f, Put(f, i, q))
    <2> HIDE DEF q, f
    <2> QED BY <1>3, <1>4, <1>5, PutKeepsNames
  <1>7. g = Put(f, i, q)
    BY <1>1 DEF Suffix, Put, Next_, Prev_, Heaps
  <1> QED BY <1>3, <1>6, <1>7 DEF SameNames

LEMMA EnterNames ==
  ASSUME NEW h \in Heaps, NEW a \in Live(h), NEW i \in Live(h), NEW g, g = Enter(h, a, i)
  PROVE  SameNames(h, g)
  <1>1. h[a] \in Cells /\ i \in Pointers
    BY CellFields DEF Pointers
  <1>2. Child_(h[a], i) \in Cells /\ Child_(h[a], i).string = h[a].string
    BY <1>1, CellUpdate, UpdateKeepsName
  <1>3. g = Put(h, a, Child_(h[a], i))
    BY DEF Enter, Put, Child_, Heaps
  <1> QED BY <1>2, <1>3, PutKeepsNames

LEMMA AddNames ==
  ASSUME NEW h \in Heaps, NEW a \in Live(h), NEW i \in Live(h),
         NEW last \in IF h[a].child = NULL THEN {NULL} ELSE Lasts(h, a),
         NEW g, g = AddItemToArray(h, a, last, i)
  PROVE  SameNames(h, g)
  <1>1. CASE h[a].child = NULL
    BY <1>1, EnterNames DEF AddItemToArray, Enter
  <1>2. CASE h[a].child # NULL
    <2>1. last \in Live(h)
      BY <1>2 DEF Lasts, Items, Chain, Reach
    <2> QED BY <1>2, <2>1, SuffixNames DEF AddItemToArray
  <1> QED BY <1>1, <1>2

LEMMA RelinkNames ==
  ASSUME NEW h \in Heaps, NEW a \in Live(h), NEW c \in Live(h),
         NEW x \in Pointers, NEW y \in Pointers, NEW g, g = Relink(h, a, c, x, y)
  PROVE  g \in Heaps /\ SameNames(h, g)
  <1> DEFINE X(n) == IF h[c].prev = n THEN x ELSE h[n].next
             Y(n) == IF h[c].next = n THEN y ELSE h[n].prev
             Z(n) == IF a = n /\ h[a].child = c THEN x ELSE h[n].child
             R(n) == Child_(Prev_(Next_(h[n], X(n)), Y(n)), Z(n))
  <1>1. \A n \in Live(h) : g[n] = R(n)
    BY DEF Relink, Child_, Prev_, Next_, Live
  <1>2. ASSUME NEW n \in Live(h) PROVE R(n).string = h[n].string
    <2>1. h[n] \in Cells /\ X(n) \in Pointers /\ Y(n) \in Pointers /\ Z(n) \in Pointers
      BY CellFields
    <2> HIDE DEF X, Y, Z
    <2>2. Next_(h[n], X(n)) \in Cells /\ Next_(h[n], X(n)).string = h[n].string
      BY <2>1, CellUpdate, UpdateKeepsName
    <2> DEFINE s == Next_(h[n], X(n))
               t == Prev_(s, Y(n))
    <2>3. s \in Cells /\ s.string = h[n].string
      BY <2>2
    <2> HIDE DEF s
    <2>4. t \in Cells /\ t.string = s.string
      BY <2>1, <2>3, CellUpdate, UpdateKeepsName
    <2> HIDE DEF t
    <2>5. Child_(t, Z(n)).string = t.string
      BY <2>1, <2>4, CellUpdate, UpdateKeepsName
    <2> QED BY <2>3, <2>4, <2>5 DEF s, t
  <1>3. g \in Heaps /\ Live(g) = Live(h)
    BY RelinkCells DEF Relinked
  <1> HIDE DEF R
  <1> QED BY <1>1, <1>2, <1>3 DEF SameNames

LEMMA PatchNames ==
  ASSUME NEW h \in Heaps, NEW c \in Live(h), NEW x \in Pointers, NEW y \in Pointers,
         NEW g, g = Patch(h, c, x, y)
  PROVE  g \in Heaps /\ SameNames(h, g)
  <1> DEFINE s == Next_(h[c], x)
             r == Prev_(s, y)
  <1>1. h[c] \in Cells /\ c \in Nodes
    BY CellFields
  <1>2. s \in Cells /\ s.string = h[c].string
    BY <1>1, CellUpdate, UpdateKeepsName
  <1> HIDE DEF s
  <1>3. r \in Cells /\ r.string = h[c].string
    BY <1>2, CellUpdate, UpdateKeepsName
  <1>4. g = Put(h, c, r)
    BY <1>1 DEF Patch, Put, Next_, Prev_, Heaps, s
  <1> HIDE DEF r
  <1> QED BY <1>3, <1>4, PutKeepsNames

LEMMA DetachNames ==
  ASSUME NEW h \in Heaps, NEW a \in Live(h), NEW c \in Live(h), NEW g, g = Detach(h, a, c)
  PROVE  g \in Heaps /\ SameNames(h, g)
  <1> DEFINE f == Relink(h, a, c, h[c].next, h[c].prev)
  <1>1. h[c].next \in Pointers /\ h[c].prev \in Pointers /\ NULL \in Pointers
    BY CellFields DEF Pointers
  <1>2. f \in Heaps /\ SameNames(h, f)
    BY <1>1, RelinkNames, Zenon
  <1>3. g = Patch(f, c, NULL, NULL)
    BY DEF Detach, Patch
  <1> HIDE DEF f
  <1>4. c \in Live(f)
    BY <1>2 DEF SameNames
  <1>5. g \in Heaps /\ SameNames(f, g)
    BY <1>1, <1>2, <1>3, <1>4, PatchNames, Zenon
  <1> QED BY <1>2, <1>5 DEF SameNames

LEMMA ReplaceNames ==
  ASSUME NEW h \in Heaps, NEW a \in Live(h), NEW c \in Live(h), NEW i \in Live(h),
         NEW g, g = Replace(h, a, c, i)
  PROVE  g \in Heaps /\ SameNames(h, g)
  <1> DEFINE f == Relink(h, a, c, i, i)
             e == Patch(f, i, h[c].next, h[c].prev)
  <1>1. h[c].next \in Pointers /\ h[c].prev \in Pointers /\ i \in Pointers /\ NULL \in Pointers
    BY CellFields DEF Pointers
  <1>2. f \in Heaps /\ SameNames(h, f)
    BY <1>1, RelinkNames, Zenon
  <1>3. g = Patch(e, c, NULL, NULL)
    BY DEF Replace, Patch
  <1> HIDE DEF f
  <1>4. i \in Live(f) /\ c \in Live(f)
    BY <1>2 DEF SameNames
  <1>5. e \in Heaps /\ SameNames(f, e)
    BY <1>1, <1>2, <1>4, PatchNames, Zenon
  <1> HIDE DEF e
  <1>6. c \in Live(e)
    BY <1>4, <1>5 DEF SameNames
  <1>7. g \in Heaps /\ SameNames(e, g)
    BY <1>1, <1>3, <1>5, <1>6, PatchNames, Zenon
  <1> QED BY <1>2, <1>5, <1>7 DEF SameNames

-----------------------------------------------------------------------------
(* How many items have a name.                                             *)

HasName(h, S) == {n \in S : h[n].string # NULL}

Total(h) == Named(h, Live(h))

LEMMA NamedIsCount == \A h, S : Named(h, S) = Cardinality(HasName(h, S))
  BY DEF Named, HasName

LEMMA FiniteNames ==
  ASSUME NEW h, NEW S \in SUBSET Live(h)
  PROVE  /\ IsFiniteSet(S) /\ IsFiniteSet(HasName(h, S)) /\ Named(h, S) \in Nat
  <1>1. S \subseteq Nodes
    BY DEF Live
  <1>2. IsFiniteSet(S) /\ IsFiniteSet(HasName(h, S))
    BY <1>1, NodesType, FS_Subset DEF HasName
  <1> QED BY <1>2, NamedIsCount, FS_CardinalityType

LEMMA SameTotal ==
  ASSUME NEW h, NEW g, SameNames(h, g)
  PROVE  Total(g) = Total(h)
  <1>1. HasName(g, Live(g)) = HasName(h, Live(h))
    BY DEF SameNames, HasName
  <1> QED BY <1>1, NamedIsCount DEF Total

(* An item gets another name, or its first, or none. *)
LEMMA RenameTotal ==
  ASSUME NEW h \in Heaps, NEW i \in Live(h), NEW d \in Names \cup {NULL}, NEW g, g = Rename(h, i, d)
  PROVE  Total(g) = (Total(h) - Count(h[i].string)) + Count(d)
  <1> DEFINE r == String_(h[i], d)
             R == HasName(h, Live(h) \ {i})
  <1>1. h[i] \in Cells
    BY CellFields
  <1>2. r \in Cells /\ r.string = d
    BY <1>1 DEF Cells, String_
  <1>3. g = Put(h, i, r)
    BY DEF Rename, Put, String_, Heaps
  <1> HIDE DEF r
  <1>4. Live(g) = Live(h) /\ g[i].string = d /\ \A n \in Live(h) : n # i => g[n] = h[n]
    BY <1>2, <1>3, LiveUpdate
  <1>5. IsFiniteSet(R) /\ i \notin R /\ Cardinality(R) \in Nat
    BY FiniteNames, FS_CardinalityType DEF HasName
  <1>6. HasName(h, Live(h)) = IF h[i].string = NULL THEN R ELSE R \cup {i}
    BY DEF HasName
  <1>7. HasName(g, Live(g)) = IF d = NULL THEN R ELSE R \cup {i}
    BY <1>4 DEF HasName
  <1>8. Cardinality(R \cup {i}) = Cardinality(R) + 1
    BY <1>5, FS_AddElement
  <1> HIDE DEF R
  <1>9. Total(h) = Cardinality(R) + Count(h[i].string)
    BY <1>5, <1>6, <1>8, NamedIsCount DEF Total, Count
  <1>10. Total(g) = Cardinality(R) + Count(d)
    BY <1>5, <1>7, <1>8, NamedIsCount DEF Total, Count
  <1> QED BY <1>5, <1>9, <1>10 DEF Count

LEMMA NewTotal ==
  ASSUME NEW h \in Heaps, NEW r \in Nodes, r \notin Live(h), NEW q \in Cells,
         NEW g, g = Put(h, r, q)
  PROVE  Total(g) = Total(h) + Count(q.string)
  <1> DEFINE R == HasName(h, Live(h))
  <1>1. /\ Live(g) = Live(h) \cup {r} /\ g[r] = q
        /\ \A n \in Live(h) : g[n] = h[n]
    BY HeapUpdate DEF Live
  <1>2. HasName(g, Live(g)) = IF q.string = NULL THEN R ELSE R \cup {r}
    BY <1>1 DEF HasName
  <1>3. IsFiniteSet(R) /\ r \notin R /\ Cardinality(R) \in Nat
    BY FiniteNames, FS_CardinalityType DEF HasName
  <1>4. Cardinality(R \cup {r}) = Cardinality(R) + 1
    BY <1>3, FS_AddElement
  <1>5. Total(h) = Cardinality(R)
    BY NamedIsCount DEF Total
  <1>6. Total(g) = Cardinality(HasName(g, Live(g)))
    BY NamedIsCount DEF Total
  <1> HIDE DEF R
  <1>7. Total(g) = IF q.string = NULL THEN Cardinality(R) ELSE Cardinality(R) + 1
    BY <1>2, <1>4, <1>6
  <1> QED BY <1>3, <1>5, <1>7 DEF Count

LEMMA DeleteTotal ==
  ASSUME NEW h \in Heaps, NEW c, NEW g, g = Delete(h, c)
  PROVE  Total(g) = Total(h) - NamesFreed(h, c) /\ NamesFreed(h, c) \in Nat
  <1> DEFINE F == Freed(h, c)
             R == HasName(h, Live(h) \ F)
             Q == HasName(h, F)
  <1>1. F \subseteq Live(h)
    BY DEF Freed, Reach
  <1>2. Live(g) = Live(h) \ F /\ \A n \in Live(h) \ F : g[n] = h[n]
    BY DEF Delete, Live
  <1>3. HasName(g, Live(g)) = R
    BY <1>2 DEF HasName
  <1>4. HasName(h, Live(h)) = R \cup Q /\ R \cap Q = {}
    BY <1>1 DEF HasName
  <1>5. IsFiniteSet(R) /\ IsFiniteSet(Q) /\ Cardinality(R) \in Nat /\ Cardinality(Q) \in Nat
    BY <1>1, FiniteNames, FS_CardinalityType
  <1>6. NamesFreed(h, c) = Cardinality(Q)
    BY NamedIsCount DEF NamesFreed
  <1> HIDE DEF F, R, Q
  <1>7. Cardinality(R \cup Q) = Cardinality(R) + Cardinality(Q) - Cardinality(R \cap Q)
    BY <1>5, FS_Union, Zenon
  <1>8. Cardinality(R \cap Q) = 0
    BY <1>4, FS_EmptySet
  <1>9. Total(g) = Cardinality(R) /\ Total(h) = Cardinality(R \cup Q)
    BY <1>3, <1>4, NamedIsCount DEF Total
  <1> QED BY <1>5, <1>6, <1>7, <1>8, <1>9

-----------------------------------------------------------------------------
(* The actions, and the names.                                             *)

Counted ==
  /\ names \in 0..MaxNames
  /\ lost \in Nat
  /\ names = Total(heap) + lost

(* There is memory for a name that strdup returns. *)
LEMMA StrdupCount ==
  ASSUME names \in 0..MaxNames, NEW s, NEW d \in Strdup(s)
  PROVE  Count(d) \in {0, 1} /\ names + Count(d) <= MaxNames
  BY MaxNamesType DEF Strdup, Count

LEMMA CountType == \A s : Count(s) \in {0, 1}
  BY DEF Count

LEMMA TotalType == \A h : Total(h) \in Nat
  BY FiniteNames DEF Total

LEMMA AttachTotal ==
  ASSUME NEW h \in Heaps, NEW a \in Live(h), NEW i \in Live(h), Attach(h, a, i)
  PROVE  Total(heap') = Total(h)
  <1>1. PICK last \in IF h[a].child = NULL THEN {NULL} ELSE Lasts(h, a) :
          heap' = AddItemToArray(h, a, last, i)
    BY DEF Attach
  <1> QED BY <1>1, AddNames, SameTotal

LEMMA InitCounted == Init => Counted
  <1> SUFFICES ASSUME Init PROVE Counted
    OBVIOUS
  <1>1. HasName(heap, Live(heap)) = {}
    BY DEF Init, HasName, Live
  <1>2. Total(heap) = 0
    BY <1>1, NamedIsCount, FS_EmptySet DEF Total
  <1> QED BY <1>2, MaxNamesType DEF Init, Counted

LEMMA BlankName == Blank \in Cells /\ Count(Blank.string) = 0
  BY BlankCell DEF Blank, Count

LEMMA CreateCounted == LInv(heap, held) /\ Counted /\ Create => Counted'
  <1> SUFFICES ASSUME LInv(heap, held), Counted, Create PROVE Counted'
    OBVIOUS
  <1>1. PICK n \in Free : heap' = Put(heap, n, Blank)
    BY DEF Create, Put
  <1>2. Total(heap') = Total(heap) + 0
    BY <1>1, Heap, BlankName, NewTotal DEF Free
  <1> QED BY <1>2, TotalType DEF Create, Counted

LEMMA CreateNumbersCounted == LInv(heap, held) /\ Counted /\ CreateNumbers => Counted'
  <1> SUFFICES ASSUME LInv(heap, held), Counted, CreateNumbers PROVE Counted'
    OBVIOUS
  <1> DEFINE Cell(m) == Child_(Blank, m)
             e(m) == Put(heap, m, Blank)
             f(m, n) == Put(e(m), n, Blank)
             g(a, m, n) == Put(f(m, n), a, Cell(m))
  <1>1. PICK a \in Free, m \in Free, n \in Free :
          /\ a # m /\ m # n /\ a # n
          /\ heap' = Suffix([heap EXCEPT ![a] = Cell(m), ![m] = Blank, ![n] = Blank], m, n)
    BY DEF CreateNumbers, Child_
  <1>2. /\ {a, m, n} \subseteq Nodes /\ heap \in Heaps
        /\ a \notin Live(heap) /\ m \notin Live(heap) /\ n \notin Live(heap)
    BY Heap DEF Free
  <1>3. heap' = Suffix(g(a, m, n), m, n)
    <2>1. g(a, m, n) = [heap EXCEPT ![a] = Cell(m), ![m] = Blank, ![n] = Blank]
      <3> HIDE DEF Cell
      <3> QED BY <1>1, <1>2 DEF Put, Heaps
    <2> QED BY <1>1, <2>1
  <1>4. Cell(m) \in Cells /\ Count(Cell(m).string) = 0
    BY <1>2, BlankName, CellUpdate, UpdateKeepsName DEF Pointers
  <1> HIDE DEF Cell
  <1>5. e(m) \in Heaps /\ Live(e(m)) = Live(heap) \cup {m} /\ Total(e(m)) = Total(heap) + 0
    BY <1>2, BlankName, HeapUpdate, NewTotal
  <1> HIDE DEF e
  <1>6. /\ f(m, n) \in Heaps /\ Live(f(m, n)) = Live(e(m)) \cup {n}
        /\ Total(f(m, n)) = Total(e(m)) + 0
    BY <1>1, <1>2, <1>5, BlankName, HeapUpdate, NewTotal
  <1> HIDE DEF f
  <1>7. /\ g(a, m, n) \in Heaps /\ Live(g(a, m, n)) = Live(f(m, n)) \cup {a}
        /\ Total(g(a, m, n)) = Total(f(m, n)) + 0
    BY <1>1, <1>2, <1>4, <1>5, <1>6, HeapUpdate, NewTotal
  <1> HIDE DEF g
  <1>8. Total(heap') = Total(g(a, m, n))
    BY <1>3, <1>5, <1>6, <1>7, SuffixNames, SameTotal
  <1>9. Total(heap') = Total(heap)
    BY <1>5, <1>6, <1>7, <1>8, TotalType
  <1> QED BY <1>9 DEF CreateNumbers, Counted

LEMMA AddToArrayCounted == LInv(heap, held) /\ Counted /\ AddToArray => Counted'
  <1> SUFFICES ASSUME LInv(heap, held), Counted, AddToArray PROVE Counted'
    OBVIOUS
  <1>1. PICK a \in Live(heap), i \in held : Attach(heap, a, i)
    BY DEF AddToArray
  <1>2. Total(heap') = Total(heap)
    BY <1>1, Heap, AttachTotal
  <1> QED BY <1>2 DEF AddToArray, Counted

LEMMA AddToObjectCounted == LInv(heap, held) /\ Counted /\ AddToObject => Counted'
  <1> SUFFICES ASSUME LInv(heap, held), Counted, AddToObject PROVE Counted'
    OBVIOUS
  <1>0. PICK a \in Live(heap), i \in held, s \in Names :
          \E d \in Strdup(s) :
            /\ Attach(Rename(heap, i, d), a, i)
            /\ names' = (names - Count(heap[i].string)) + Count(d) /\ lost' = lost
    BY DEF AddToObject, Rename
  <1>1. PICK d \in Strdup(s) :
          /\ Attach(Rename(heap, i, d), a, i)
          /\ names' = (names - Count(heap[i].string)) + Count(d) /\ lost' = lost
    BY <1>0
  <1> DEFINE h == Rename(heap, i, d)
  <1>2. i \in Live(heap) /\ d \in Names \cup {NULL} /\ heap \in Heaps
    BY <1>1, Heap, Strings
  <1>3. h \in Heaps /\ Live(h) = Live(heap)
    BY <1>2, RenameKeeps DEF LInv
  <1>4. Total(h) = (Total(heap) - Count(heap[i].string)) + Count(d)
    BY <1>2, RenameTotal
  <1> HIDE DEF h
  <1>5. Total(heap') = Total(h)
    BY <1>1, <1>2, <1>3, AttachTotal DEF h
  <1>6. names + Count(d) <= MaxNames
    BY StrdupCount DEF Counted
  <1> QED BY <1>1, <1>4, <1>5, <1>6, CountType, TotalType, MaxNamesType DEF Counted

LEMMA DetachItemCounted == LInv(heap, held) /\ Counted /\ DetachItem => Counted'
  <1> SUFFICES ASSUME LInv(heap, held), Counted, DetachItem PROVE Counted'
    OBVIOUS
  <1>0. PICK a \in Live(heap) : \E c \in Items(heap, a) : heap' = Detach(heap, a, c)
    BY DEF DetachItem
  <1>1. PICK c \in Items(heap, a) : heap' = Detach(heap, a, c)
    BY <1>0
  <1>2. c \in Live(heap) /\ heap \in Heaps
    BY Heap DEF Items, Chain, Reach
  <1>3. Total(heap') = Total(heap)
    BY <1>1, <1>2, DetachNames, SameTotal
  <1> QED BY <1>3 DEF DetachItem, Counted

LEMMA DeleteCounted ==
  ASSUME Counted, NEW h \in Heaps, Total(h) = Total(heap), NEW c, DeleteIn(h, c), lost' = lost
  PROVE  Counted'
  <1>1. heap' = Delete(h, c) /\ names' = names - NamesFreed(h, c)
    BY DEF DeleteIn
  <1>2. Total(heap') = Total(h) - NamesFreed(h, c) /\ NamesFreed(h, c) \in Nat
    BY <1>1, DeleteTotal
  <1> QED BY <1>1, <1>2, TotalType, MaxNamesType DEF Counted

LEMMA DeleteItemCounted == LInv(heap, held) /\ Counted /\ DeleteItem => Counted'
  <1> SUFFICES ASSUME LInv(heap, held), Counted, DeleteItem PROVE Counted'
    OBVIOUS
  <1>0. PICK a \in Live(heap) :
          \E c \in Items(heap, a) : DeleteIn(Detach(heap, a, c), c) /\ lost' = lost
    BY DEF DeleteItem
  <1>1. PICK c \in Items(heap, a) : DeleteIn(Detach(heap, a, c), c) /\ lost' = lost
    BY <1>0
  <1>2. c \in Live(heap) /\ heap \in Heaps
    BY Heap DEF Items, Chain, Reach
  <1>3. Detach(heap, a, c) \in Heaps /\ Total(Detach(heap, a, c)) = Total(heap)
    BY <1>2, DetachNames, SameTotal
  <1> QED BY <1>1, <1>3, DeleteCounted

LEMMA DeleteHeldCounted == LInv(heap, held) /\ Counted /\ DeleteHeld => Counted'
  BY Heap, DeleteCounted DEF DeleteHeld

LEMMA ReplaceInArrayCounted == LInv(heap, held) /\ Counted /\ ReplaceInArray => Counted'
  <1> SUFFICES ASSUME LInv(heap, held), Counted, ReplaceInArray PROVE Counted'
    OBVIOUS
  <1>0. PICK a \in Live(heap), i \in held :
          \E c \in Items(heap, a) : DeleteIn(Replace(heap, a, c, i), c) /\ lost' = lost
    BY DEF ReplaceInArray
  <1>1. PICK c \in Items(heap, a) : DeleteIn(Replace(heap, a, c, i), c) /\ lost' = lost
    BY <1>0
  <1>2. c \in Live(heap) /\ i \in Live(heap) /\ heap \in Heaps
    BY Heap DEF Items, Chain, Reach
  <1>3. Replace(heap, a, c, i) \in Heaps /\ Total(Replace(heap, a, c, i)) = Total(heap)
    BY <1>2, ReplaceNames, SameTotal
  <1> QED BY <1>1, <1>3, DeleteCounted

LEMMA ReplaceInObjectCounted == LInv(heap, held) /\ Counted /\ ReplaceInObject => Counted'
  <1> SUFFICES ASSUME LInv(heap, held), Counted, ReplaceInObject PROVE Counted'
    OBVIOUS
  <1> DEFINE To(a, i, c, d) == Replace(Rename(heap, i, d), a, c, i)
  <1>0. PICK a \in Live(heap), i \in held, s \in Names :
          \E c \in Items(heap, a), d \in Strdup(s) :
            /\ heap' = Delete(To(a, i, c, d), c)
            /\ names' = (names + Count(d)) - NamesFreed(To(a, i, c, d), c)
            /\ lost' = lost + Count(heap[i].string)
    BY DEF ReplaceInObject, Rename
  <1>1. PICK c \in Items(heap, a), d \in Strdup(s) :
          /\ heap' = Delete(To(a, i, c, d), c)
          /\ names' = (names + Count(d)) - NamesFreed(To(a, i, c, d), c)
          /\ lost' = lost + Count(heap[i].string)
    BY <1>0
  <1> DEFINE h == Rename(heap, i, d)
             g == Replace(h, a, c, i)
  <1>2. /\ i \in Live(heap) /\ d \in Names \cup {NULL} /\ heap \in Heaps
        /\ c \in Live(heap)
    BY <1>1, Heap, Strings DEF Items, Chain, Reach
  <1>3. h \in Heaps /\ Live(h) = Live(heap)
    BY <1>2, RenameKeeps DEF LInv
  <1>4. Total(h) = (Total(heap) - Count(heap[i].string)) + Count(d)
    BY <1>2, RenameTotal
  <1>5. heap' = Delete(g, c) /\ names' = (names + Count(d)) - NamesFreed(g, c)
    BY <1>1
  <1> HIDE DEF h
  <1>6. g \in Heaps /\ Total(g) = Total(h)
    BY <1>2, <1>3, ReplaceNames, SameTotal
  <1> HIDE DEF g
  <1>7. Total(heap') = Total(g) - NamesFreed(g, c) /\ NamesFreed(g, c) \in Nat
    BY <1>5, <1>6, DeleteTotal
  <1>8. names + Count(d) <= MaxNames
    BY StrdupCount DEF Counted
  <1> HIDE DEF To
  <1> QED BY <1>1, <1>4, <1>5, <1>6, <1>7, <1>8, CountType, TotalType, MaxNamesType DEF Counted

LEMMA ReferName ==
  ASSUME NEW r \in Cells, NEW d \in Names \cup {NULL}
  PROVE  String_(Refer(r), d) \in Cells /\ String_(Refer(r), d).string = d
  <1>1. String_(Refer(r), d) \in Cells
    BY ReferCell
  <1>2. Refer(r) = [Refer(r) EXCEPT !.string = Refer(r).string]
    BY DEF Refer, Cells
  <1> QED BY <1>1, <1>2 DEF String_, Refer, Cells

LEMMA AddReferenceCounted == LInv(heap, held) /\ Counted /\ AddReference => Counted'
  <1> SUFFICES ASSUME LInv(heap, held), Counted, AddReference PROVE Counted'
    OBVIOUS
  <1> DEFINE With(item, r, d) ==
               [heap EXCEPT ![r] = [Reference(heap, item) EXCEPT !.string = d]]
             Taken(item, d) == names' = (names - Count(Reference(heap, item).string)) + Count(d)
  <1>1. PICK a \in Live(heap), item \in Live(heap), r \in Free :
          \E d \in {Reference(heap, item).string} \cup UNION {Strdup(s) : s \in Names} :
            Attach(With(item, r, d), a, r) /\ Taken(item, d)
    <2> HIDE DEF With
    <2> QED BY Zenon DEF AddReference, With
  <1>2. Reference(heap, item).string = NULL
    BY Heap, CellFields DEF Reference, Cells
  <1> HIDE DEF With, Taken
  <1>3. PICK d \in {NULL} \cup UNION {Strdup(s) : s \in Names} :
          Attach(With(item, r, d), a, r) /\ Taken(item, d)
    BY <1>1, <1>2
  <1>4. d \in Names \cup {NULL} /\ names + Count(d) <= MaxNames /\ names' = names + Count(d)
    <2>1. d = NULL \/ \E s \in Names : d \in Strdup(s)
      BY <1>3
    <2>2. d \in Names \cup {NULL}
      BY <2>1, Strings
    <2>3. names + Count(d) <= MaxNames
      BY <2>1, StrdupCount, MaxNamesType DEF Counted, Count
    <2>4. names' = (names - 0) + Count(d)
      BY <1>2, <1>3 DEF Taken, Count
    <2> QED BY <2>2, <2>3, <2>4, CountType DEF Counted
  <1> DEFINE c == heap[item]
             q == String_(Refer(c), d)
             h == Put(heap, r, q)
  <1>5. c \in Cells /\ heap \in Heaps /\ r \in Nodes /\ r \notin Live(heap)
    BY Heap, CellFields DEF Free
  <1>6. Attach(h, a, r)
    BY <1>3 DEF Put, String_, Refer, Reference, With
  <1> HIDE DEF h
  <1> HIDE DEF q
  <1>7. q \in Cells /\ q.string = d
    BY <1>4, <1>5, ReferName DEF q
  <1>8. h \in Heaps /\ Live(h) = Live(heap) \cup {r} /\ Total(h) = Total(heap) + Count(d)
    BY <1>5, <1>7, HeapUpdate, NewTotal DEF h
  <1>9. Total(heap') = Total(h)
    BY <1>6, <1>8, AttachTotal
  <1>10. lost' = lost
    BY DEF AddReference
  <1> QED BY <1>4, <1>8, <1>9, <1>10, CountType, TotalType, MaxNamesType DEF Counted

(* A copy has a name where the original has one.                           *)
LEMMA DuplicateCounted == LInv(heap, held) /\ Counted /\ Duplicate => Counted'
  <1> SUFFICES ASSUME LInv(heap, held), Counted, Duplicate PROVE Counted'
    OBVIOUS
  <1>1. PICK item, S, f : Copies(item, S, f)
    BY DuplicateCells
  <1> DEFINE R == HasName(heap, Live(heap))
             Q == HasName(heap, S)
             C == {f[m] : m \in Q}
             F == [m \in Q |-> f[m]]
  <1>2. S \subseteq Live(heap) /\ \A m \in S : f[m] \notin Live(heap)
    BY <1>1 DEF Copies
  <1>3. HasName(heap', Live(heap')) = R \cup C /\ R \cap C = {}
    BY <1>1, <1>2 DEF Copies, HasName
  <1>4. Q \subseteq S /\ IsFiniteSet(Q) /\ IsFiniteSet(R)
    BY <1>2, FiniteNames DEF HasName
  <1>5. IsFiniteSet(C) /\ Cardinality(C) = Cardinality(Q)
    <2>1. /\ F \in [Q -> C] /\ \A m, n \in Q : F[m] = F[n] => m = n
          /\ \A y \in C : \E m \in Q : F[m] = y
      BY <1>1, <1>4 DEF Copies
    <2>2. F \in Bijection(Q, C)
      <3> HIDE DEF F, C, Q
      <3> QED BY <2>1, Fun_IsBij
    <2>3. ExistsBijection(Q, C)
      BY <2>2 DEF ExistsBijection
    <2> QED BY <1>4, <2>3, FS_Bijection
  <1>6. Cardinality(R \cup C) = Cardinality(R) + Cardinality(C) - Cardinality(R \cap C)
    <2> HIDE DEF R, C
    <2> QED BY <1>4, <1>5, FS_Union, Zenon
  <1>7. Cardinality(R \cap C) = 0
    BY <1>3, FS_EmptySet
  <1>8. /\ Total(heap') = Cardinality(R \cup C) /\ Total(heap) = Cardinality(R)
        /\ Named(heap, S) = Cardinality(Q)
    BY <1>3, NamedIsCount DEF Total
  <1>9. Cardinality(R) \in Nat /\ Cardinality(Q) \in Nat
    BY <1>4, FS_CardinalityType
  <1>10. /\ names + Named(heap, S) <= MaxNames
         /\ names' = names + Named(heap, S) /\ lost' = lost
    BY <1>1 DEF Copies
  <1> HIDE DEF R, Q, C
  <1> QED BY <1>5, <1>6, <1>7, <1>8, <1>9, <1>10, MaxNamesType DEF Counted

LEMMA NextCounted == LInv(heap, held) /\ Counted /\ [Next]_vars => Counted'
  <1> SUFFICES ASSUME LInv(heap, held), Counted, [Next]_vars PROVE Counted'
    OBVIOUS
  <1>1. CASE UNCHANGED vars
    BY <1>1 DEF vars, Counted
  <1> QED
    BY <1>1, CreateCounted, CreateNumbersCounted, AddToArrayCounted, AddToObjectCounted,
       AddReferenceCounted, DetachItemCounted, DeleteItemCounted, DeleteHeldCounted,
       ReplaceInArrayCounted, ReplaceInObjectCounted, DuplicateCounted
    DEF Next

CountInv == ListInv /\ Counted

LEMMA CountCorrect == Spec => []CountInv
  <1>1. Init => CountInv
    BY InitLists, InitCounted DEF ListInv, CountInv
  <1>2. CountInv /\ [Next]_vars => CountInv'
    BY NextLists, NextCounted DEF ListInv, CountInv
  <1> QED BY <1>1, <1>2, PTL DEF Spec

(* Every state of the JSON items has its type: with the names that were    *)
(* lost, there are never more than malloc gave out, nor fewer than none,   *)
(* whatever is renamed, copied and deleted.                                *)
THEOREM ItemsTyped == Spec => []TypeOK
  <1>1. CountInv => TypeOK
    BY DEF CountInv, ListInv, Counted, LInv, Heaps, Live, TypeOK
  <1> QED BY <1>1, CountCorrect, PTL

(* Every name that is allocated is that of an item, except the ones that   *)
(* cJSON_ReplaceItemInObject lost, for any number of items and names.      *)
THEOREM NamesAreCounted == Spec => []NamesCounted
  <1>1. CountInv => NamesCounted
    BY DEF CountInv, Counted, NamesCounted, Total
  <1> QED BY <1>1, CountCorrect, PTL
=============================================================================
