--------------------------- MODULE MCFreelistSave ---------------------------
(* Small instances of FreelistSave for TLC. *)
EXTENDS FreelistSave

Rec(ids) == [ids |-> ids, len |-> Len(ids), ov |-> 0, n |-> 0]
RunRec(ids, p, n) == [ids |-> ids, len |-> Len(ids), ov |-> p, n |-> n]

\* Two leaves below a root.  In the first version there is a run of two
\* pages and no free page; in the second the freeDB has two records, the
\* newer one on three overflow pages, with more ids than one page can take.
NoFree == [root |-> 2, leaves |-> {3, 4}, ov |-> {5}, leaf |-> 0,
           recs |-> <<>>, pages |-> {2, 3, 4, 5}, next |-> 7, at |-> 3]
ManyFree == [root |-> 2, leaves |-> {3, 8}, ov |-> {}, leaf |-> 4,
             recs |-> (2 :> Rec(<<9>>))
                      @@ (4 :> RunRec(<<20, 19, 18, 17, 16, 15, 14, 13, 12, 11, 10>>, 5, 3)),
             pages |-> {2, 3, 4, 5, 8}, next |-> 21, at |-> 3]
MCBases == {NoFree, ManyFree}
=============================================================================
