------------------------------ MODULE MCBTree -------------------------------
EXTENDS BTree

\* Keys of one, three and four bytes; 2, 3 and 4 share three bytes, 6 and 7 two.
MCBytes == << <<5>>, <<6, 5, 5, 5>>, <<6, 5, 5, 6>>, <<6, 5, 5, 7>>, <<7>>, <<8, 5, 5>>, <<8, 5, 6>>, <<9>> >>

EmptyTree(prefix) ==
  [pg |-> <<>>, root |-> 0, depth |-> 0, entries |-> 0, old |-> {}, prefix |-> prefix,
   cur |-> Eager([x \in LocalCurs \cup {OwnCur} |-> NoCursor]), tracked |-> {},
   failed |-> FALSE, wild |-> FALSE, keySplit |-> FALSE]

\* In a script k is a put of key k with the value size 0, 10 + k one with 1.
RECURSIVE Built(_, _, _)
Built(x, s, i) ==
  LET y == Put(x, s[i] % 10, s[i] \div 10, {}).w
  IN IF i > Len(s) THEN x ELSE IF y.failed THEN Failed(x) ELSE Built(y, s, i + 1)

\* The empty tree, trees filled from either end and from both, one with gaps
\* and full pages, and one whose first keys share most of their bytes.
MCScripts == { <<>>, <<11, 2, 13, 4, 15, 6, 17, 8>>, <<8, 17, 6, 15, 4, 13, 2, 11>>,
               <<11, 8, 12, 7, 13, 6, 14, 5>>, <<11, 3, 15, 6, 17>>, <<2, 3, 4, 7>> }
MCCommitted == {Built(EmptyTree(prefix), s, 1) : prefix \in BOOLEAN, s \in MCScripts}
=============================================================================
