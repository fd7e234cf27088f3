------------------------------ MODULE ItemMap -------------------------------
(***************************************************************************)
(* What the items of a vault promise: a map from names to items that       *)
(* changes in one step at a time, by one command each.  Items implements   *)
(* it.                                                                     *)
(***************************************************************************)
EXTENDS Naturals, FiniteSets

CONSTANTS
  Names,  \* the valid item names
  Docs    \* the documents that can be imported but were not exported here

VARIABLES
  store,  \* store[n]: the item named n
  past    \* the contents the vault has had

vars == <<store, past>>

Init == past = {store}

-----------------------------------------------------------------------------
(* One item changes, appears or goes; all others stay as they are.          *)
Others(S) == /\ DOMAIN store \ S = DOMAIN store' \ S
             /\ \A n \in DOMAIN store \ S : store'[n] = store[n]

(* A new item, or one instead of another.  *)
Put == \E n \in Names :
  /\ Others({n})
  /\ n \in DOMAIN store'
  /\ \A m \in DOMAIN store : store[m].id # store'[n].id

(* A field of an item is set or deleted: it is the same item. *)
Set == \E n \in DOMAIN store :
  /\ Others({n})
  /\ n \in DOMAIN store'
  /\ store'[n].id = store[n].id /\ store'[n].kind = store[n].kind

Drop == \E S \in SUBSET DOMAIN store : Others(S) /\ DOMAIN store' \cap S = {}

(* An item has its new name and is otherwise what it was; what had that     *)
(* name is gone.                                                            *)
Rename == \E old \in DOMAIN store, new \in Names :
  /\ Others({old, new})
  /\ DOMAIN store' \cap {old, new} = {new}
  /\ store'[new] = store[old]

(* Only the settings change. *)
Note == store' = store

-----------------------------------------------------------------------------
(* An import of a document, in which a name may occur more than once.       *)
Positions(doc, n) == {i \in DOMAIN doc : doc[i].name = n}
FirstNamed(doc, n) == doc[CHOOSE i \in Positions(doc, n) : \A j \in Positions(doc, n) : i <= j].item
LastNamed(doc, n)  == doc[CHOOSE i \in Positions(doc, n) : \A j \in Positions(doc, n) : i >= j].item

Named(doc) == {doc[i].name : i \in DOMAIN doc}

(* The items that are in the vault already stay, or are overwritten, or all *)
(* of them are dropped first.                                               *)
Merged(doc, mode) ==
  [n \in (IF mode = "Replace" THEN {} ELSE DOMAIN store) \cup Named(doc) |->
     IF n \notin Named(doc) \/ (mode = "Merge" /\ n \in DOMAIN store) THEN store[n]
     ELSE IF mode = "Merge" THEN FirstNamed(doc, n) ELSE LastNamed(doc, n)]

(* All items of the contents s, each once.                                  *)
Listings(s) ==
  {d \in [1..Cardinality(DOMAIN s) -> {[name |-> n, item |-> s[n]] : n \in DOMAIN s}] :
     \A i, j \in DOMAIN d : d[i].name = d[j].name => i = j}

(* An export holds what the vault had at one time, or nothing yet.          *)
Import ==
  \E doc \in Docs \cup {<<>>} \cup UNION {Listings(s) : s \in past},
     mode \in {"Merge", "Overwrite", "Replace"} :
    Named(doc) \subseteq Names /\ store' = Merged(doc, mode)

Next ==
  /\ Put \/ Set \/ Drop \/ Rename \/ Note \/ Import
  /\ past' = past \cup {store'}

Spec == Init /\ [][Next]_vars
=============================================================================
