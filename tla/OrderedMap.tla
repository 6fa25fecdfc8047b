----------------------------- MODULE OrderedMap -----------------------------
(***************************************************************************)
(* What a write transaction promises of one database without MDB_DUPSORT:  *)
(* a map from keys to values, and cursors that stay where they are in it   *)
(* while the map is changed through another cursor or through none.        *)
(*                                                                         *)
(* at[u] is the key cursor u is on: 0 while it is not positioned, End past *)
(* the last key.  When the key a cursor is on is deleted the cursor is put *)
(* on the next one and del[u] is set: MDB_NEXT then returns that key       *)
(* rather than the one after it.                                           *)
(*                                                                         *)
(* A cursor that has reached the end (ended, C_EOF: MDB_LAST, or a call    *)
(* that found nothing further) may say so again at its next MDB_NEXT even  *)
(* if keys were put behind it in between.                                  *)
(***************************************************************************)
EXTENDS Integers, FiniteSets, TLC

CONSTANTS Keys,   \* positive numbers
          Values, Users

VARIABLES kv, at, del, ended,
          last   \* the last call: its name, cursor, key and answer

vars == <<kv, at, del, ended, last>>

End    == Cardinality(Keys) + 1
Absent == 0     \* MDB_NOTFOUND
Exists == -2    \* MDB_KEYEXIST
Stored == -3    \* success of a call that returns no key

Answer(op, u, k, r) == last' = [op |-> op, by |-> u, key |-> k, reply |-> r]

LeastOf(S)    == CHOOSE x \in S : \A y \in S : x <= y
GreatestOf(S) == CHOOSE x \in S : \A y \in S : x >= y
Above(k)      == {x \in DOMAIN kv : x > k}
Below(k)      == {x \in DOMAIN kv : x < k}
Successor(k)  == IF Above(k) = {} THEN End ELSE LeastOf(Above(k))

Init == /\ kv \in UNION {[S -> Values] : S \in SUBSET Keys}
        /\ at \in [Users -> Keys \cup {0, End}]
        /\ \A u \in Users : at[u] \in DOMAIN kv \cup {0, End}
        /\ del = [u \in Users |-> FALSE]
        /\ ended = {}
        /\ last = [op |-> "begin", by |-> 0, key |-> 0, reply |-> Absent]

-----------------------------------------------------------------------------
Set(k, v) == kv' = (k :> v) @@ kv

\* flag is "append" (MDB_APPEND), "nooverwrite" (MDB_NOOVERWRITE) or "upsert".
Refused(k, flag) == \/ flag = "append" /\ Above(k - 1) # {}
                    \/ flag = "nooverwrite" /\ k \in DOMAIN kv

Put(k, v, flag) ==
  /\ IF Refused(k, flag) THEN UNCHANGED kv ELSE Set(k, v)
  /\ Answer(flag, 0, k, IF Refused(k, flag) THEN Exists ELSE Stored)
  /\ ended' \subseteq ended
  /\ UNCHANGED <<at, del>>

PutAt(u, k, v) == /\ Set(k, v)
                  /\ Answer("put", u, k, Stored)
                  /\ at' = [at EXCEPT ![u] = k]
                  /\ del' = [del EXCEPT ![u] = FALSE]
                  /\ ended' \subseteq ended

\* The last deletion leaves every cursor without a position.
Remove(k, by) ==
  LET left == DOMAIN kv \ {k}
  IN /\ kv' = [x \in left |-> kv[x]]
     /\ at' = [u \in Users |-> IF left = {} THEN 0 ELSE IF at[u] = k THEN Successor(k) ELSE at[u]]
     /\ del' = [u \in Users |-> left # {} /\ (del[u] \/ at[u] = k \/ u = by)]
     /\ ended' \subseteq ended \cup {u \in Users : left = {} \/ at'[u] = End}
     /\ Answer("del", by, IF by = 0 THEN k ELSE 0, Stored)

Delete(k) == IF k \in DOMAIN kv THEN Remove(k, 0)
             ELSE Answer("del", 0, k, Absent) /\ UNCHANGED <<kv, at, del, ended>>
DeleteAt(u) == at[u] \in DOMAIN kv /\ Remove(at[u], u)

MoveTo(op, u, k, place, answer, end) ==
  /\ at' = [at EXCEPT ![u] = place]
  /\ del' = [del EXCEPT ![u] = FALSE]
  /\ ended' \subseteq IF end THEN ended \cup {u} ELSE ended \ {u}
  /\ Answer(op, u, k, answer)
  /\ UNCHANGED kv

\* To a key, which is returned, or nowhere else with MDB_NOTFOUND.
Reach(op, u, key) == MoveTo(op, u, 0, key, key, FALSE)
Stay(op, u)       == MoveTo(op, u, 0, at[u], Absent, TRUE)

ToFirst(op, u) == IF kv = <<>> THEN Stay(op, u) ELSE Reach(op, u, LeastOf(DOMAIN kv))
ToLast(op, u)  == IF kv = <<>> THEN Stay(op, u)
                  ELSE MoveTo(op, u, 0, GreatestOf(DOMAIN kv), GreatestOf(DOMAIN kv), TRUE)

First(u) == ToFirst("first", u)
Last(u)  == ToLast("last", u)

Next(u) == \/ u \in ended /\ Stay("next", u)
           \/ IF at[u] = 0 THEN ToFirst("next", u)
              ELSE IF at[u] = End THEN Stay("next", u)
              ELSE IF del[u] THEN Reach("next", u, at[u])
              ELSE IF Above(at[u]) = {} THEN Stay("next", u)
              ELSE Reach("next", u, Successor(at[u]))

Prev(u) == IF at[u] = 0 THEN ToLast("prev", u)
           ELSE IF Below(at[u]) = {} THEN Stay("prev", u)
           ELSE Reach("prev", u, GreatestOf(Below(at[u])))

\* MDB_SET_RANGE
Seek(u, k) == IF kv = <<>> THEN MoveTo("seek", u, k, at[u], Absent, TRUE)
              ELSE IF Above(k - 1) = {} THEN MoveTo("seek", u, k, End, Absent, TRUE)
              ELSE LET key == LeastOf(Above(k - 1)) IN MoveTo("seek", u, k, key, key, FALSE)

Step == \/ \E k \in Keys, v \in Values, flag \in {"upsert", "append", "nooverwrite"} : Put(k, v, flag)
        \/ \E k \in Keys : Delete(k)
        \/ \E u \in Users, k \in Keys, v \in Values : PutAt(u, k, v)
        \/ \E u \in Users, k \in Keys : Seek(u, k)
        \/ \E u \in Users : DeleteAt(u) \/ First(u) \/ Last(u) \/ Next(u) \/ Prev(u)

Spec == Init /\ [][Step]_vars
=============================================================================
