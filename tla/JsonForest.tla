----------------------------- MODULE JsonForest -----------------------------
(***************************************************************************)
(* What the list functions of the JSON library promise: items form a       *)
(* forest, the children of each are a sequence, the application holds the  *)
(* roots, and one call changes the sequence of one item and leaves every   *)
(* other as it was.  How the sequences are linked, names and references    *)
(* are left out; an item that is a reference has no children of its own.   *)
(***************************************************************************)
EXTENDS SequencesExt

CONSTANTS
  Nodes  \* what an item may be

VARIABLES
  items,  \* the items there are
  kids,   \* their children
  held    \* the items the application has to delete

vars == <<items, kids, held>>

-----------------------------------------------------------------------------
None == [n \in Nodes |-> <<>>]

Init ==
  /\ items = {}
  /\ kids = None
  /\ held = {}

(* The item c and all below it: the least set that has c and the children  *)
(* of everything in it.                                                    *)
Tree(k, c) ==
  {n \in Nodes : \A S \in SUBSET Nodes :
     c \in S /\ (\A m \in S : ToSet(k[m]) \subseteq S) => n \in S}

(* No item is in two places. *)
IsForest(k) ==
  \A m, n \in Nodes : \A i \in DOMAIN k[m], j \in DOMAIN k[n] :
    k[m][i] = k[n][j] => m = n /\ i = j

(* A new tree, of any form. *)
Plant ==
  \E root \in Nodes \ items :
    LET tree == Tree(kids', root) IN
    /\ tree \cap items = {}
    /\ \A n \in Nodes \ tree : kids'[n] = kids[n]
    /\ IsForest(kids') /\ \A n \in Nodes : root \notin ToSet(kids'[n])
    /\ items' = items \cup tree
    /\ held' = held \cup {root}

(* An item that is held, or a new one, becomes the last child. *)
Add ==
  \E a \in items, i \in held \cup (Nodes \ items) :
    /\ a \notin Tree(kids, i)
    /\ kids' = [kids EXCEPT ![a] = Append(@, i)]
    /\ items' = items \cup {i}
    /\ held' = held \ {i}

Take ==
  \E a \in items : \E i \in DOMAIN kids[a] :
    /\ kids' = [kids EXCEPT ![a] = RemoveAt(@, i)]
    /\ held' = held \cup {kids[a][i]}
    /\ UNCHANGED items

(* With the children k, the tree of c goes and the rest stays as it is. *)
Fell(k, c) ==
  /\ items' = items \ Tree(k, c)
  /\ kids' = [n \in Nodes |-> IF n \in Tree(k, c) THEN <<>> ELSE k[n]]

Delete ==
  \/ \E c \in held : Fell(kids, c) /\ held' = held \ {c}
  \/ \E a \in items : \E i \in DOMAIN kids[a] :
       /\ Fell([kids EXCEPT ![a] = RemoveAt(@, i)], kids[a][i])
       /\ UNCHANGED held

Replace ==
  \E a \in items, n \in held : \E i \in DOMAIN kids[a] :
    /\ a \notin Tree(kids, n)
    /\ Fell([kids EXCEPT ![a] = ReplaceAt(@, i, n)], kids[a][i])
    /\ held' = held \ {n}

Next == Plant \/ Add \/ Take \/ Delete \/ Replace

Spec == Init /\ [][Next]_vars
=============================================================================
