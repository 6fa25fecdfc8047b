-------------------------------- MODULE Midl --------------------------------
(***************************************************************************)
(* The page lists of midl.c.  An MDB_IDL is kept in descending order, with *)
(* its length in element 0; here it is a sequence.  Memory management      *)
(* (mdb_midl_alloc, _grow, _need, _shrink) has no counterpart: a sequence  *)
(* always has room.                                                        *)
(***************************************************************************)
EXTENDS Integers, Sequences, FiniteSets, SequencesExt

Descending(ids) == \A i \in 1 .. Len(ids) - 1 : ids[i] > ids[i + 1]

\* Binary search: the position of id, or of the first smaller element.
Search(ids, id) ==
    LET probe[base \in 0 .. Len(ids), n \in 0 .. Len(ids)] ==
            LET pivot == n \div 2
                cursor == base + pivot + 1
            IN  IF n = 0 THEN base + 1
                ELSE IF ids[cursor] < id THEN probe[base, pivot]
                ELSE IF ids[cursor] > id THEN probe[cursor, n - (pivot + 1)]
                ELSE cursor
    IN  probe[0, Len(ids)]

\* How every caller asks whether id is listed.
Found(ids, id) ==
    LET x == Search(ids, id) IN x <= Len(ids) /\ ids[x] = id

\* n consecutive ids from id on, highest first.
AppendRange(ids, id, n) == ids \o [i \in 1 .. n |-> id + n - i]

Sorted(ids) == SortSeq(ids, >)

\* The members of a set of numbers, lowest first.
Ascending(S) ==
    [i \in 1 .. Cardinality(S) |->
        CHOOSE p \in S : Cardinality({q \in S : q < p}) = i - 1]

\* Merge two descending lists from their tails; m[i, j] has merged the
\* first i elements of merge and the first j of idl.
XMerge(idl, merge) ==
    LET m[i \in 0 .. Len(merge), j \in 0 .. Len(idl)] ==
            IF i = 0 THEN SubSeq(idl, 1, j)
            ELSE IF j > 0 /\ idl[j] < merge[i]
            THEN Append(m[i, j - 1], idl[j])
            ELSE Append(m[i - 1, j], merge[i])
    IN  m[Len(merge), Len(idl)]
=============================================================================
