------------------------------ MODULE FlatIndex ------------------------------
(***************************************************************************)
(* The vector index of efis/src/vector/flat.rs, the value a vset key       *)
(* holds.  The flat array of floats is modelled row by row: a row is one   *)
(* vector of Dim numbers, because every offset the code computes is a      *)
(* multiple of dim.  idset caches, for every id, the row it is kept in.    *)
(*                                                                         *)
(* lastVec is a history variable: the vector most recently inserted for an *)
(* id that was not deleted since, i.e. the map the index stands for.       *)
(***************************************************************************)
EXTENDS Integers, Sequences, FiniteSets, Functions

CONSTANTS
    Dim,            \* the dimension of the index (FlatIndex::new's n)
    Ids,            \* the ids callers use
    Vecs,           \* the vectors callers pass, of any length
    Dist,           \* the distance (L2 or cosine) of a vector to the query
    MaxK,           \* bound on the number of neighbours asked for
    MaxDeletes      \* bound on the number of deletes

ASSUME DimAssumption == Dim \in Nat
ASSUME DistAssumption == Dist \in [Vecs -> Int]
ASSUME VecsAssumption == \A v \in Vecs : Len(v) \in Nat

VARIABLES
    vecs,           \* the rows
    ids,            \* the id of every row
    idset,          \* id |-> its row, counted from 0
    panicked,       \* the operation that panicked, or "no"
    result,         \* what the operation returned, if it was a search
    lastVec,        \* history: the vector last inserted for each live id
    deletes         \* history: deletes so far

indexVars == <<vecs, ids, idset, panicked, result, lastVec, deletes>>

Fits == {v \in Vecs : Len(v) = Dim}
Hit == [id : Ids, d : Int]

IndexInit ==
    /\ vecs = <<>>
    /\ ids = <<>>
    /\ idset = <<>>
    /\ panicked = "no"
    /\ result = <<>>
    /\ lastVec = <<>>
    /\ deletes = 0

------------------------------------------------------------------------------
(* insert *)

\* A vector of another dimension is refused and nothing changes.
InsertRefused(id, v) ==
    /\ Len(v) # Dim
    /\ UNCHANGED indexVars

\* An id that is already cached has its row overwritten; a cached row past
\* the end of the array is an out-of-range index (lines 37-41).
InsertOver(id, v) ==
    /\ Len(v) = Dim
    /\ id \in DOMAIN idset
    /\ IF idset[id] < Len(vecs)
       THEN /\ vecs' = [vecs EXCEPT ![idset[id] + 1] = v]
            /\ lastVec' = [lastVec EXCEPT ![id] = v]
            /\ UNCHANGED panicked
       ELSE /\ panicked' = "insert"
            /\ UNCHANGED <<vecs, lastVec>>
    /\ result' = <<>>
    /\ UNCHANGED <<ids, idset, deletes>>

\* A new id gets a new row at the end.
InsertNew(id, v) ==
    /\ Len(v) = Dim
    /\ id \notin DOMAIN idset
    /\ vecs' = Append(vecs, v)
    /\ idset' = [i \in DOMAIN idset \cup {id} |->
                    IF i = id THEN Len(ids) ELSE idset[i]]
    /\ ids' = Append(ids, id)
    /\ lastVec' = [i \in DOMAIN lastVec \cup {id} |-> IF i = id THEN v ELSE lastVec[i]]
    /\ result' = <<>>
    /\ UNCHANGED <<panicked, deletes>>

------------------------------------------------------------------------------
(* search *)

\* Every order in which the rows may leave the selection and the sort: by
\* distance, ties in any order.
Sorted ==
    {p \in [1 .. Len(ids) -> 1 .. Len(ids)] :
        /\ IsInjective(p)
        /\ \A i, j \in 1 .. Len(ids) :
              i < j => Dist[vecs[p[i]]] <= Dist[vecs[p[j]]]}

\* Mutant: the rows are truncated before they are selected.
SearchTruncateFirst(k) ==
    /\ k > 0 /\ Dim > 0 /\ Len(ids) > 0
    /\ LET n == IF k < Len(ids) THEN k ELSE Len(ids)
       IN  result' = [i \in 1 .. n |-> [id |-> ids[i], d |-> Dist[vecs[i]]]]
    /\ UNCHANGED <<vecs, ids, idset, panicked, lastVec, deletes>>

\* k is first capped by the number of rows.
Search(k) ==
    /\ k > 0 /\ Dim > 0 /\ Len(ids) > 0
    /\ LET n == IF k < Len(ids) THEN k ELSE Len(ids)
       IN  \E p \in Sorted :
              result' = [i \in 1 .. n |-> [id |-> ids[p[i]],
                                           d |-> Dist[vecs[p[i]]]]]
    /\ UNCHANGED <<vecs, ids, idset, panicked, lastVec, deletes>>

\* k = 0 is answered at once.
SearchNone(k) ==
    /\ k = 0
    /\ result' = <<>>
    /\ UNCHANGED <<vecs, ids, idset, panicked, lastVec, deletes>>

\* On an empty index k - 1 underflows (line 68); chunks of size 0 panic
\* before that (line 62).
SearchPanics(k) ==
    /\ k > 0
    /\ Dim = 0 \/ Len(ids) = 0
    /\ panicked' = "search"
    /\ UNCHANGED <<vecs, ids, idset, result, lastVec, deletes>>

------------------------------------------------------------------------------
(* delete *)

DropLast(s) == SubSeq(s, 1, Len(s) - 1)

\* Mutant: the cached row is not forgotten.
DeleteKeepsCache(id) ==
    /\ deletes < MaxDeletes
    /\ id \in Range(ids)
    /\ LET i == CHOOSE n \in 1 .. Len(ids) : ids[n] = id
       IN  /\ vecs' = DropLast([vecs EXCEPT ![i] = vecs[Len(vecs)]])
           /\ ids' = DropLast([ids EXCEPT ![i] = ids[Len(ids)]])
    /\ lastVec' = [j \in DOMAIN lastVec \ {id} |-> lastVec[j]]
    /\ deletes' = deletes + 1
    /\ result' = <<>>
    /\ UNCHANGED <<idset, panicked>>

\* The last row moves into the freed one (the first row with that id); the
\* cached row of the moved id is left as it was.  Unknown ids are ignored.
DeleteRow(id) ==
    /\ deletes < MaxDeletes
    /\ id \in Range(ids)
    /\ LET i == CHOOSE n \in 1 .. Len(ids) :
                    ids[n] = id /\ \A m \in 1 .. n - 1 : ids[m] # id
       IN  /\ vecs' = DropLast([vecs EXCEPT ![i] = vecs[Len(vecs)]])
           /\ ids' = DropLast([ids EXCEPT ![i] = ids[Len(ids)]])
    /\ idset' = [j \in DOMAIN idset \ {id} |-> idset[j]]
    /\ lastVec' = [j \in DOMAIN lastVec \ {id} |-> lastVec[j]]
    /\ deletes' = deletes + 1
    /\ result' = <<>>
    /\ UNCHANGED panicked

------------------------------------------------------------------------------

IndexNext ==
    /\ panicked = "no"
    /\ \/ \E id \in Ids, v \in Vecs : InsertRefused(id, v)
       \/ \E id \in Ids, v \in Vecs : InsertOver(id, v)
       \/ \E id \in Ids, v \in Vecs : InsertNew(id, v)
       \/ \E k \in 0 .. MaxK : Search(k)
       \/ \E k \in 0 .. MaxK : SearchNone(k)
       \/ \E k \in 0 .. MaxK : SearchPanics(k)
       \/ \E id \in Ids : DeleteRow(id)

IndexSpec == IndexInit /\ [][IndexNext]_indexVars

------------------------------------------------------------------------------
(* Properties *)

\* After any mix of inserts and deletes an id has at most one row, and it is
\* cached exactly when it has one, so that insert's test of idset
\* (flat.rs:36) really tells a known id from a new one.  Until the first
\* delete (which the service never calls) the cached row number is the row of
\* that id, and the row holds the vector last inserted for it
\* (flat.rs:36-46): no overwrite lands in another id's row or past the end.
RowsRight ==
    /\ IsInjective(ids)
    /\ DOMAIN idset = Range(ids)
    /\ DOMAIN lastVec = Range(ids)
    /\ deletes = 0 =>
          /\ panicked # "insert"
          /\ \A i \in 1 .. Len(ids) :
                /\ idset[ids[i]] = i - 1
                /\ vecs[i] = lastVec[ids[i]]

\* A search of an index nothing was deleted from answers with distinct ids,
\* nearest first, each with the distance of the vector last inserted for it,
\* and no id left out is nearer than one returned (flat.rs:60-73).
SearchNearest ==
    [][(result' # result /\ deletes = 0) =>
        /\ \A i, j \in DOMAIN result' :
              i < j => /\ result'[i].id # result'[j].id
                       /\ result'[i].d <= result'[j].d
        /\ \A i \in DOMAIN result' :
              /\ result'[i].d = Dist[lastVec[result'[i].id]]
              /\ \A id \in DOMAIN lastVec :
                    id \in {result'[j].id : j \in DOMAIN result'}
                      \/ Dist[lastVec[id]] >= result'[i].d]_indexVars
==============================================================================
