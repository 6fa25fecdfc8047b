--------------------------- MODULE EnvCopyProofs ----------------------------
(***************************************************************************)
(* The inductive invariant of EnvCopy (IInv) holds of every behaviour, for *)
(* every list of pages, every buffer size and with or without write        *)
(* errors, and the safety properties of EnvCopy follow from it. First come *)
(* facts about the recursive function Total and about sequences, then one  *)
(* lemma for each action; it starts with the effect of the step (step) and *)
(* then goes through the conjuncts of the invariant.                       *)
(***************************************************************************)
EXTENDS EnvCopy, TLAPS, WellFoundedInduction

\* A set of natural numbers has a least element.
LEMMA LeastNat ==
  ASSUME NEW S, S \subseteq Nat, S # {}
  PROVE  \E s \in S : \A t \in S : s <= t
<1> DEFINE R == {ss \in Nat \X Nat : ss[1] < ss[2]}
<1>1. IsWellFoundedOn(R, Nat)
  BY NatLessThanWellFounded DEF OpToRel
<1> HIDE DEF R
<1>2. PICK n \in S : \A m \in S : <<m, n>> \notin R
  BY <1>1, WFMin
<1>3. \A m \in S : ~ (m < n)
  BY <1>2 DEF R
<1> QED BY <1>3

\* The recursive definition of Total has a solution ...
LEMMA TotalExists ==
  \E f \in [0..Len(Items) -> Nat] :
     f[0] = NumMetas /\ \A i \in 1..Len(Items) : f[i] = f[i - 1] + Items[i]
<1> DEFINE Solves(f, n) == f[0] = NumMetas /\ \A i \in 1..n : f[i] = f[i - 1] + Items[i]
           Bad == {n \in 0..Len(Items) : ~ \E f \in [0..n -> Nat] : Solves(f, n)}
<1>0. Len(Items) \in Nat /\ NumMetas \in Nat
        /\ \A i \in 1..Len(Items) : Items[i] \in Nat
  BY ConstantsAssumption DEF NumMetas
<1>1. SUFFICES ASSUME Bad # {} PROVE FALSE
  BY <1>0
<1>b. Bad \subseteq Nat
  BY <1>0
<1>2. PICK n \in Bad : \A m \in Bad : n <= m
  <2> HIDE DEF Bad
  <2> QED BY <1>1, <1>b, LeastNat
<1>n. n \in 0..Len(Items) /\ ~ \E f \in [0..n -> Nat] : Solves(f, n)
  BY <1>2
<1>m. ASSUME NEW m \in 0..Len(Items), m < n PROVE \E f \in [0..m -> Nat] : Solves(f, m)
  <2>1. m \notin Bad
    <3> HIDE DEF Bad
    <3> QED BY <1>0, <1>m, <1>2, <1>n
  <2> QED BY <2>1
<1> HIDE DEF Bad
<1>3. n # 0
  <2>1. [i \in 0..0 |-> NumMetas] \in [0..0 -> Nat]
    BY <1>0
  <2>2. Solves([i \in 0..0 |-> NumMetas], 0)
    OBVIOUS
  <2>3. CASE n = 0
    <3> HIDE DEF Solves
    <3> QED BY <1>n, <2>1, <2>2, <2>3
  <2> QED BY <2>3
<1>4. PICK f \in [0..n-1 -> Nat] : Solves(f, n - 1)
  <2>1. n - 1 \in 0..Len(Items) /\ n - 1 < n
    BY <1>0, <1>n, <1>3
  <2> HIDE DEF Solves
  <2> QED BY <1>m, <2>1
<1> DEFINE g == [i \in 0..n |-> IF i = n THEN f[n - 1] + Items[n] ELSE f[i]]
<1>5. n \in 1..Len(Items) /\ n - 1 \in 0..n-1 /\ Items[n] \in Nat /\ f[n - 1] \in Nat
  BY <1>0, <1>n, <1>3, <1>4
<1>6. g \in [0..n -> Nat] /\ g[n] = f[n - 1] + Items[n] /\ \A i \in 0..n-1 : g[i] = f[i]
  <2>1. ASSUME NEW i \in 0..n, i # n PROVE f[i] \in Nat /\ i \in 0..n-1
    BY <1>4, <1>5, <2>1
  <2>2. ASSUME NEW i \in 0..n-1 PROVE i \in 0..n /\ i # n
    BY <1>5
  <2>3. f[n - 1] + Items[n] \in Nat /\ n \in 0..n
    BY <1>5
  <2>4. g \in [0..n -> Nat]
    BY <2>1, <2>3
  <2>5. g[n] = f[n - 1] + Items[n]
    BY <2>3
  <2>6. \A i \in 0..n-1 : g[i] = f[i]
    BY <2>2
  <2> QED BY <2>4, <2>5, <2>6
<1> HIDE DEF g
<1>7. Solves(g, n)
  <2>1. g[0] = NumMetas
    BY <1>4, <1>5, <1>6
  <2>2. ASSUME NEW i \in 1..n PROVE g[i] = g[i - 1] + Items[i]
    <3>1. CASE i = n
      BY <1>5, <1>6, <3>1
    <3>2. CASE i # n
      <4>1. i \in 1..n-1 /\ i - 1 \in 0..n-1 /\ i \in 0..n-1
        BY <1>5, <3>2
      <4> QED BY <1>4, <1>6, <4>1
    <3> QED BY <3>1, <3>2
  <2> QED BY <2>1, <2>2
<1> HIDE DEF Solves
<1> QED BY <1>n, <1>6, <1>7

\* ... and is what the definition says.
LEMMA TotalFact ==
  /\ Total \in [0..Len(Items) -> Nat]
  /\ Total[0] = NumMetas
  /\ \A i \in 1..Len(Items) : Total[i] = Total[i - 1] + Items[i]
<1> DEFINE D(h) == [n \in 0..Len(Items) |-> IF n = 0 THEN NumMetas
        ELSE h[n - 1] + Items[n]]
<1>0. Len(Items) \in Nat /\ NumMetas \in Nat
        /\ \A i \in 1..Len(Items) : Items[i] \in Nat
  BY ConstantsAssumption DEF NumMetas
<1>1. PICK f \in [0..Len(Items) -> Nat] :
        f[0] = NumMetas /\ \A i \in 1..Len(Items) : f[i] = f[i - 1] + Items[i]
  BY TotalExists
<1>2. f = D(f)
  <2>1. ASSUME NEW i \in 0..Len(Items) PROVE f[i] = D(f)[i]
    BY <1>0, <1>1
  <2> QED BY <1>1, <2>1
<1>3. Total = CHOOSE h : h = D(h)
  BY DEF Total
<1>4. Total = D(Total)
  BY <1>2, <1>3
<1> HIDE DEF D
<1>5. \A h : D(h) = [i \in 0..Len(Items) |-> IF i = 0 THEN NumMetas
        ELSE h[i - 1] + Items[i]]
  BY DEF D
<1>6. \A i \in 0..Len(Items) : Total[i] = IF i = 0 THEN NumMetas
        ELSE Total[i - 1] + Items[i]
  BY <1>4, <1>5
<1>7. DOMAIN Total = 0..Len(Items) /\ Total = [i \in 0..Len(Items) |-> Total[i]]
  BY <1>4, <1>5
<1> DEFINE Bad == {n \in 0..Len(Items) : Total[n] \notin Nat}
<1>8. Bad = {}
  <2>1. SUFFICES ASSUME Bad # {} PROVE FALSE
    OBVIOUS
  <2>b. Bad \subseteq Nat
    BY <1>0
  <2>2. PICK n \in Bad : \A m \in Bad : n <= m
    <3> HIDE DEF Bad
    <3> QED BY <2>1, <2>b, LeastNat
  <2>3. n # 0
    BY <1>0, <1>6, <2>2
  <2>n.
        /\ n \in 1..Len(Items) /\ n - 1 \in 0..Len(Items) /\ Total[n] \notin Nat
        /\ ~ (n <= n - 1)
    BY <1>0, <2>2, <2>3
  <2>m. n - 1 \notin Bad
    <3> HIDE DEF Bad
    <3> QED BY <2>2, <2>n
  <2>4. Total[n - 1] \in Nat
    BY <2>n, <2>m
  <2>5. Total[n] = Total[n - 1] + Items[n]
    BY <1>6, <2>n
  <2> QED BY <1>0, <2>n, <2>4, <2>5
<1>9. \A i \in 0..Len(Items) : Total[i] \in Nat
  BY <1>8
<1>10. Total \in [0..Len(Items) -> Nat]
  BY <1>7, <1>9
<1>11. Total[0] = NumMetas
  BY <1>0, <1>6
<1>12. ASSUME NEW i \in 1..Len(Items) PROVE Total[i] = Total[i - 1] + Items[i]
  BY <1>0, <1>6
<1> QED BY <1>10, <1>11, <1>12

\* The values the steps use.
LEMMA Values ==
  ASSUME TypeOK
  PROVE  /\ Provider \in Threads /\ Writer \in Threads /\ Provider # Writer
         /\ Free \notin Threads
         /\ EOF = 16 /\ wtoggle \in {0, 1} /\ ptoggle \in {0, 1}
         /\ 1 - wtoggle \in Bufs /\ wtoggle \in Bufs
         /\ 1 - ptoggle \in Bufs /\ ptoggle \in Bufs
         /\ \A b \in Bufs : wlen[b] \in 0..Cap /\ wlen[b] \in Nat
                 /\ olen[b] \in Nat /\ over[b] \in Nat
                 /\ mem[b] \in [0..Cap-1 -> Nat]
         /\ Len(out) \in Nat /\ InHand \in 0..2 /\ new \in {0, 1, 2, 16, 17, 18}
BY ConstantsAssumption
   DEF TypeOK, Provider, Writer, Free, Threads, EOF, Bufs, InHand

\* Addition is associative.
LEMMA Sums ==
  ASSUME NEW a \in Nat, NEW b \in Nat, NEW c \in Nat
  PROVE  a + (b + c) = (a + b) + c
OBVIOUS

\* The tail of a chain of n pages has n - 1 pages.
LEMMA TailLength ==
  ASSUME NEW l \in Nat, NEW w \in Nat, NEW n \in Nat \ {0}
  PROVE  /\ (l + w) + n = l + (w + 1 + (n - 1))
         /\ (l + w) + n = l + (w + 1) + (n - 1)
         /\ l + (w + 1 + (n - 1)) \in Nat
OBVIOUS

\* The pages numbered next are appended.
LEMMA Appended ==
  ASSUME NEW s \in Seq(Nat), NEW n
          \in Nat, NEW t, t = s \o [i \in 1..n |-> Len(s) + i - 1]
  PROVE  /\ t \in Seq(Nat) /\ Len(t) = Len(s) + n
         /\ \A i \in 1..Len(s) : t[i] = s[i]
         /\ \A i \in Len(s) + 1 .. Len(s) + n : t[i] = i - 1
<1> DEFINE u == [i \in 1..n |-> Len(s) + i - 1]
<1>1. u \in Seq(Nat) /\ Len(u) = n
  OBVIOUS
<1>2. \A i \in 1..n : u[i] = Len(s) + i - 1
  OBVIOUS
<1>3. t = s \o u
  OBVIOUS
<1> HIDE DEF u
<1> QED BY <1>1, <1>2, <1>3

\* A woken thread has its mutex again.
LEMMA WakeInv == ASSUME IInv, NEW t \in Threads, Wake(t) PROVE IInv'
<1> USE ConstantsAssumption DEF IInv
<1>1. CASE t = Provider
  <2>step.
        /\ pc[Provider] = "wait" /\ Provider \notin asleep /\ mutex = Free
        /\ mutex' = Provider
        /\ asleep' = asleep /\ new' = new /\ mem' = mem /\ wlen' = wlen
        /\ over' = over /\ olen' = olen /\ error' = error
        /\ pc' = [pc EXCEPT ![Provider] = "test"]
        /\ item' = item /\ nextPgno' = nextPgno /\ ptoggle' = ptoggle
        /\ adjust' = adjust /\ wtoggle' = wtoggle /\ src' = src /\ ptr' = ptr
        /\ wsize' = wsize /\ out' = out /\ spurious' = spurious /\ failed' = failed
        /\ rc' = rc
    BY <1>1 DEF Wake, Goto, sync, bufs, provider, writer
  <2>v.
        /\ TypeOK /\ wtoggle \in {0, 1} /\ ptoggle \in {0, 1} /\ InHand \in 0..2
        /\ Provider # Writer /\ EOF = 16 /\ new \in {0, 1, 2, 16, 17, 18}
        /\ wlen[wtoggle] \in Nat /\ olen[wtoggle] \in Nat /\ Len(out) \in Nat
        /\ wlen[1 - wtoggle] \in Nat /\ olen[1 - wtoggle] \in Nat
    BY Values
  <2>p. /\ pc'[Provider] = "test"
        /\ pc'[Writer] = pc[Writer]
    BY <2>step, Values DEF TypeOK
  <2>h. InHand' = InHand
    BY <2>step DEF InHand
  <2>1. TypeOK'
    BY <2>step, <2>v, <2>p, <2>h, Values
       DEF TypeOK, ProviderAt, WriterAt, Threads, Bufs
  <2>2. MutexInv'
    BY <2>step, <2>v, <2>p, <2>h, Values
       DEF MutexInv, Threads, Free, Provider, Writer
  <2>3. TurnInv'
    BY <2>step, <2>v, <2>p, <2>h DEF TurnInv, Filling, Emptying
  <2>4. EofInv'
    BY <2>step, <2>v, <2>p, <2>h DEF EofInv, EOF
  <2>5. ErrorInv'
    BY <2>step, <2>v, <2>p, <2>h DEF ErrorInv
  <2>6. EmptyInv'
    BY <2>step, <2>v, <2>p, <2>h DEF EmptyInv, Holding, Filling
  <2>7. ASSUME ~error' PROVE StreamInv'
    BY <2>step, <2>v, <2>p, <2>h, <2>7
       DEF StreamInv, WriterInv, HoldsFrom, Reached, Left, Emptying
  <2>8. PagesInPlace'
    BY <2>step, <2>v, <2>p, <2>h DEF PagesInPlace
  <2>9. NumberedInv'
    BY <2>step DEF NumberedInv
  <2> QED BY <2>1, <2>2, <2>3, <2>4, <2>5, <2>6, <2>7, <2>8, <2>9
<1>2. CASE t = Writer
  <2>step.
        /\ pc[Writer] = "wait" /\ Writer \notin asleep /\ mutex = Free
        /\ mutex' = Writer
        /\ asleep' = asleep /\ new' = new /\ mem' = mem /\ wlen' = wlen
        /\ over' = over /\ olen' = olen /\ error' = error
        /\ pc' = [pc EXCEPT ![Writer] = "test"]
        /\ item' = item /\ nextPgno' = nextPgno /\ ptoggle' = ptoggle
        /\ adjust' = adjust /\ wtoggle' = wtoggle /\ src' = src /\ ptr' = ptr
        /\ wsize' = wsize /\ out' = out /\ spurious' = spurious /\ failed' = failed
        /\ rc' = rc
    BY <1>2 DEF Wake, Goto, sync, bufs, provider, writer
  <2>v.
        /\ TypeOK /\ wtoggle \in {0, 1} /\ ptoggle \in {0, 1} /\ InHand \in 0..2
        /\ Provider # Writer /\ EOF = 16 /\ new \in {0, 1, 2, 16, 17, 18}
        /\ wlen[wtoggle] \in Nat /\ olen[wtoggle] \in Nat /\ Len(out) \in Nat
        /\ wlen[1 - wtoggle] \in Nat /\ olen[1 - wtoggle] \in Nat
    BY Values
  <2>p. /\ pc'[Provider] = pc[Provider]
        /\ pc'[Writer] = "test"
    BY <2>step, Values DEF TypeOK
  <2>h. InHand' = InHand
    BY <2>step DEF InHand
  <2>1. TypeOK'
    BY <2>step, <2>v, <2>p, <2>h, Values
       DEF TypeOK, ProviderAt, WriterAt, Threads, Bufs
  <2>2. MutexInv'
    BY <2>step, <2>v, <2>p, <2>h, Values
       DEF MutexInv, Threads, Free, Provider, Writer
  <2>3. TurnInv'
    BY <2>step, <2>v, <2>p, <2>h DEF TurnInv, Filling, Emptying
  <2>4. EofInv'
    BY <2>step, <2>v, <2>p, <2>h DEF EofInv, EOF
  <2>5. ErrorInv'
    BY <2>step, <2>v, <2>p, <2>h DEF ErrorInv
  <2>6. EmptyInv'
    BY <2>step, <2>v, <2>p, <2>h DEF EmptyInv, Holding, Filling
  <2>7. ASSUME ~error' PROVE StreamInv'
    BY <2>step, <2>v, <2>p, <2>h, <2>7
       DEF StreamInv, WriterInv, HoldsFrom, Reached, Left, Emptying
  <2>8. PagesInPlace'
    BY <2>step, <2>v, <2>p, <2>h DEF PagesInPlace
  <2>9. NumberedInv'
    BY <2>step DEF NumberedInv
  <2> QED BY <2>1, <2>2, <2>3, <2>4, <2>5, <2>6, <2>7, <2>8, <2>9
<1> QED BY <1>1, <1>2 DEF Threads

\* pthread_cond_wait returns without a signal.
LEMMA SpuriousWakeInv == ASSUME IInv, SpuriousWake PROVE IInv'
<1> USE ConstantsAssumption DEF IInv
<1>step.
      /\ spurious < MaxSpurious
      /\ asleep' \subseteq asleep
      /\ mutex' = mutex /\ new' = new /\ mem' = mem /\ wlen' = wlen /\ over' = over
      /\ olen' = olen /\ error' = error /\ pc' = pc /\ item' = item
      /\ nextPgno' = nextPgno /\ ptoggle' = ptoggle /\ adjust' = adjust
      /\ wtoggle' = wtoggle /\ src' = src /\ ptr' = ptr /\ wsize' = wsize
      /\ out' = out
      /\ spurious' = spurious + 1
      /\ failed' = failed /\ rc' = rc
  BY DEF SpuriousWake, Goto, sync, bufs, provider, writer
<1>v.
      /\ TypeOK /\ wtoggle \in {0, 1} /\ ptoggle \in {0, 1} /\ InHand \in 0..2
      /\ Provider # Writer /\ EOF = 16 /\ new \in {0, 1, 2, 16, 17, 18}
      /\ wlen[wtoggle] \in Nat /\ olen[wtoggle] \in Nat /\ Len(out) \in Nat
      /\ wlen[1 - wtoggle] \in Nat /\ olen[1 - wtoggle] \in Nat
  BY Values
<1>h. InHand' = InHand
  BY <1>step DEF InHand
<1>1. TypeOK'
  BY <1>step, <1>v, <1>h, Values DEF TypeOK, ProviderAt, WriterAt, Threads, Bufs
<1>2. MutexInv'
  BY <1>step, <1>v, <1>h, Values DEF MutexInv, Threads, Free, Provider, Writer
<1>3. TurnInv'
  BY <1>step, <1>v, <1>h DEF TurnInv, Filling, Emptying
<1>4. EofInv'
  BY <1>step, <1>v, <1>h DEF EofInv, EOF
<1>5. ErrorInv'
  BY <1>step, <1>v, <1>h DEF ErrorInv
<1>6. EmptyInv'
  BY <1>step, <1>v, <1>h DEF EmptyInv, Holding, Filling
<1>7. ASSUME ~error' PROVE StreamInv'
  BY <1>step, <1>v, <1>h, <1>7
     DEF StreamInv, WriterInv, HoldsFrom, Reached, Left, Emptying
<1>8. PagesInPlace'
  BY <1>step, <1>v, <1>h DEF PagesInPlace
<1>9. NumberedInv'
  BY <1>step DEF NumberedInv
<1> QED BY <1>1, <1>2, <1>3, <1>4, <1>5, <1>6, <1>7, <1>8, <1>9

\* A full buffer is to be handed over.
LEMMA WalkFullInv == ASSUME IInv, WalkFull PROVE IInv'
<1> USE ConstantsAssumption DEF IInv
<1>step.
      /\ pc[Provider] = "walk" /\ item <= Len(Items)
      /\ mutex' = mutex /\ asleep' = asleep /\ new' = new /\ mem' = mem
      /\ wlen' = wlen /\ over' = over /\ olen' = olen /\ error' = error
      /\ pc' = [pc EXCEPT ![Provider] = "toggle"]
      /\ item' = item /\ nextPgno' = nextPgno /\ ptoggle' = ptoggle
      /\ adjust' = 1
      /\ wtoggle' = wtoggle /\ src' = src /\ ptr' = ptr /\ wsize' = wsize
      /\ out' = out /\ spurious' = spurious /\ failed' = failed /\ rc' = rc
  BY DEF WalkFull, Goto, sync, bufs, provider, writer
<1>v.
      /\ TypeOK /\ wtoggle \in {0, 1} /\ ptoggle \in {0, 1} /\ InHand \in 0..2
      /\ Provider # Writer /\ EOF = 16 /\ new \in {0, 1, 2, 16, 17, 18}
      /\ wlen[wtoggle] \in Nat /\ olen[wtoggle] \in Nat /\ Len(out) \in Nat
      /\ wlen[1 - wtoggle] \in Nat /\ olen[1 - wtoggle] \in Nat
  BY Values
<1>p. /\ pc'[Provider] = "toggle"
      /\ pc'[Writer] = pc[Writer]
  BY <1>step, Values DEF TypeOK
<1>h. InHand' = InHand
  BY <1>step DEF InHand
<1>1. TypeOK'
  BY <1>step, <1>v, <1>p, <1>h, Values
     DEF TypeOK, ProviderAt, WriterAt, Threads, Bufs
<1>2. MutexInv'
  BY <1>step, <1>v, <1>p, <1>h, Values DEF MutexInv, Threads, Free, Provider, Writer
<1>3. TurnInv'
  BY <1>step, <1>v, <1>p, <1>h DEF TurnInv, Filling, Emptying
<1>4. EofInv'
  BY <1>step, <1>v, <1>p, <1>h DEF EofInv, EOF
<1>5. ErrorInv'
  BY <1>step, <1>v, <1>p, <1>h DEF ErrorInv
<1>6. EmptyInv'
  BY <1>step, <1>v, <1>p, <1>h DEF EmptyInv, Holding, Filling
<1>7. ASSUME ~error' PROVE StreamInv'
  BY <1>step, <1>v, <1>p, <1>h, <1>7
     DEF StreamInv, WriterInv, HoldsFrom, Reached, Left, Emptying
<1>8. PagesInPlace'
  BY <1>step, <1>v, <1>p, <1>h DEF PagesInPlace
<1>9. NumberedInv'
  BY <1>step DEF NumberedInv
<1> QED BY <1>1, <1>2, <1>3, <1>4, <1>5, <1>6, <1>7, <1>8, <1>9

\* The walk is over, or fails.
LEMMA WalkEndInv == ASSUME IInv, WalkEnd PROVE IInv'
<1> USE ConstantsAssumption DEF IInv
<1>step.
      /\ pc[Provider] = "walk"
      /\ \/ item > Len(Items) /\ error' = error /\ failed' = failed
         \/ error' = TRUE /\ failed' = TRUE
      /\ mutex' = mutex /\ asleep' = asleep /\ new' = new /\ mem' = mem
      /\ wlen' = wlen /\ over' = over /\ olen' = olen
      /\ pc' = [pc EXCEPT ![Provider] = "toggle"]
      /\ item' = item /\ nextPgno' = nextPgno /\ ptoggle' = ptoggle
      /\ adjust' = 1 + EOF
      /\ wtoggle' = wtoggle /\ src' = src /\ ptr' = ptr /\ wsize' = wsize
      /\ out' = out /\ spurious' = spurious /\ rc' = rc
  BY DEF WalkEnd, Goto, sync, bufs, provider, writer
<1>v.
      /\ TypeOK /\ wtoggle \in {0, 1} /\ ptoggle \in {0, 1} /\ InHand \in 0..2
      /\ Provider # Writer /\ EOF = 16 /\ new \in {0, 1, 2, 16, 17, 18}
      /\ wlen[wtoggle] \in Nat /\ olen[wtoggle] \in Nat /\ Len(out) \in Nat
      /\ wlen[1 - wtoggle] \in Nat /\ olen[1 - wtoggle] \in Nat
  BY Values
<1>p. /\ pc'[Provider] = "toggle"
      /\ pc'[Writer] = pc[Writer]
  BY <1>step, Values DEF TypeOK
<1>h. InHand' = InHand
  BY <1>step DEF InHand
<1>1. TypeOK'
  BY <1>step, <1>v, <1>p, <1>h, Values
     DEF TypeOK, ProviderAt, WriterAt, Threads, Bufs
<1>2. MutexInv'
  BY <1>step, <1>v, <1>p, <1>h, Values DEF MutexInv, Threads, Free, Provider, Writer
<1>3. TurnInv'
  BY <1>step, <1>v, <1>p, <1>h DEF TurnInv, Filling, Emptying
<1>4. EofInv'
  BY <1>step, <1>v, <1>p, <1>h DEF EofInv, EOF
<1>5. ErrorInv'
  BY <1>step, <1>v, <1>p, <1>h DEF ErrorInv
<1>6. EmptyInv'
  BY <1>step, <1>v, <1>p, <1>h DEF EmptyInv, Holding, Filling
<1>7. ASSUME ~error' PROVE StreamInv'
  BY <1>step, <1>v, <1>p, <1>h, <1>7
     DEF StreamInv, WriterInv, HoldsFrom, Reached, Left, Emptying
<1>8. PagesInPlace'
  BY <1>step, <1>v, <1>p, <1>h DEF PagesInPlace
<1>9. NumberedInv'
  BY <1>step DEF NumberedInv
<1> QED BY <1>1, <1>2, <1>3, <1>4, <1>5, <1>6, <1>7, <1>8, <1>9

\* The provider's buffer is handed over.
LEMMA ToggleEnterInv == ASSUME IInv, ToggleEnter PROVE IInv'
<1> USE ConstantsAssumption DEF IInv
<1>step.
      /\ pc[Provider] = "toggle" /\ mutex = Free
      /\ asleep' \subseteq asleep
      /\ mutex' = Provider
      /\ new' = new + adjust
      /\ mem' = mem /\ wlen' = wlen /\ over' = over /\ olen' = olen
      /\ error' = error
      /\ pc' = [pc EXCEPT ![Provider] = "test"]
      /\ item' = item /\ nextPgno' = nextPgno /\ ptoggle' = ptoggle
      /\ adjust' = adjust /\ wtoggle' = wtoggle /\ src' = src /\ ptr' = ptr
      /\ wsize' = wsize /\ out' = out /\ spurious' = spurious /\ failed' = failed
      /\ rc' = rc
  BY DEF ToggleEnter, Signal, Goto, sync, bufs, provider, writer
<1>v.
      /\ TypeOK /\ wtoggle \in {0, 1} /\ ptoggle \in {0, 1} /\ InHand \in 0..2
      /\ Provider # Writer /\ EOF = 16 /\ new \in {0, 1, 2, 16, 17, 18}
      /\ wlen[wtoggle] \in Nat /\ olen[wtoggle] \in Nat /\ Len(out) \in Nat
      /\ wlen[1 - wtoggle] \in Nat /\ olen[1 - wtoggle] \in Nat
  BY Values
<1>p. /\ pc'[Provider] = "test"
      /\ pc'[Writer] = pc[Writer]
  BY <1>step, Values DEF TypeOK
<1>n. new < EOF /\ new = InHand /\ new \in 0..1 /\ adjust \in {1, 17}
  BY <1>step, <1>v DEF EofInv, TurnInv, InHand
<1>h. InHand' = InHand + 1
  BY <1>step, <1>n, Values DEF InHand
<1>1. TypeOK'
  BY <1>step, <1>v, <1>p, <1>n, <1>h, Values
     DEF TypeOK, ProviderAt, WriterAt, Threads, Bufs
<1>2. MutexInv'
  BY <1>step, <1>v, <1>p, <1>n, <1>h, Values
     DEF MutexInv, Threads, Free, Provider, Writer
<1>3. TurnInv'
  BY <1>step, <1>v, <1>p, <1>n, <1>h DEF TurnInv, Filling, Emptying
<1>4. EofInv'
  BY <1>step, <1>v, <1>p, <1>n, <1>h DEF EofInv, EOF
<1>5. ErrorInv'
  BY <1>step, <1>v, <1>p, <1>n, <1>h DEF ErrorInv
<1>6. EmptyInv'
  BY <1>step, <1>v, <1>p, <1>n, <1>h DEF EmptyInv, Holding, Filling
<1>7. ASSUME ~error' PROVE StreamInv'
  BY <1>step, <1>v, <1>p, <1>n, <1>h, <1>7
     DEF StreamInv, WriterInv, HoldsFrom, Reached, Left, Emptying
<1>8. PagesInPlace'
  BY <1>step, <1>v, <1>p, <1>n, <1>h DEF PagesInPlace
<1>9. NumberedInv'
  BY <1>step DEF NumberedInv
<1> QED BY <1>1, <1>2, <1>3, <1>4, <1>5, <1>6, <1>7, <1>8, <1>9

\* The provider waits until a buffer is unused.
LEMMA ToggleTestInv == ASSUME IInv, ToggleTest PROVE IInv'
<1> USE ConstantsAssumption DEF IInv
<1>1. CASE BothInUse
  <2>step.
        /\ pc[Provider] = "test"
        /\ mutex' = Free
        /\ asleep' = asleep \cup {Provider}
        /\ new' = new /\ mem' = mem /\ wlen' = wlen /\ over' = over /\ olen' = olen
        /\ error' = error
        /\ pc' = [pc EXCEPT ![Provider] = "wait"]
        /\ item' = item /\ nextPgno' = nextPgno /\ ptoggle' = ptoggle
        /\ adjust' = adjust /\ wtoggle' = wtoggle /\ src' = src /\ ptr' = ptr
        /\ wsize' = wsize /\ out' = out /\ spurious' = spurious /\ failed' = failed
        /\ rc' = rc
    BY <1>1 DEF ToggleTest, CondWait, Goto, sync, bufs, provider, writer
  <2>v.
        /\ TypeOK /\ wtoggle \in {0, 1} /\ ptoggle \in {0, 1} /\ InHand \in 0..2
        /\ Provider # Writer /\ EOF = 16 /\ new \in {0, 1, 2, 16, 17, 18}
        /\ wlen[wtoggle] \in Nat /\ olen[wtoggle] \in Nat /\ Len(out) \in Nat
        /\ wlen[1 - wtoggle] \in Nat /\ olen[1 - wtoggle] \in Nat
    BY Values
  <2>p. /\ pc'[Provider] = "wait"
        /\ pc'[Writer] = pc[Writer]
    BY <2>step, Values DEF TypeOK
  <2>h. InHand' = InHand
    BY <2>step DEF InHand
  <2>1. TypeOK'
    BY <2>step, <2>v, <2>p, <2>h, Values
       DEF TypeOK, ProviderAt, WriterAt, Threads, Bufs
  <2>2. MutexInv'
    BY <2>step, <2>v, <2>p, <2>h, Values
       DEF MutexInv, Threads, Free, Provider, Writer
  <2>3. TurnInv'
    BY <2>step, <2>v, <2>p, <2>h DEF TurnInv, Filling, Emptying
  <2>4. EofInv'
    BY <2>step, <2>v, <2>p, <2>h DEF EofInv, EOF
  <2>5. ErrorInv'
    BY <2>step, <2>v, <2>p, <2>h DEF ErrorInv
  <2>6. EmptyInv'
    BY <2>step, <2>v, <2>p, <2>h DEF EmptyInv, Holding, Filling
  <2>7. ASSUME ~error' PROVE StreamInv'
    BY <2>step, <2>v, <2>p, <2>h, <2>7
       DEF StreamInv, WriterInv, HoldsFrom, Reached, Left, Emptying
  <2>8. PagesInPlace'
    BY <2>step, <2>v, <2>p, <2>h DEF PagesInPlace
  <2>9. NumberedInv'
    BY <2>step DEF NumberedInv
  <2> QED BY <2>1, <2>2, <2>3, <2>4, <2>5, <2>6, <2>7, <2>8, <2>9
<1>2. CASE ~BothInUse
  <2>step.
        /\ pc[Provider] = "test"
        /\ mutex' = Free
        /\ asleep' = asleep /\ new' = new /\ mem' = mem /\ wlen' = wlen
        /\ over' = over /\ olen' = olen /\ error' = error
        /\ pc' = [pc EXCEPT ![Provider] = "toggled"]
        /\ item' = item /\ nextPgno' = nextPgno /\ ptoggle' = ptoggle
        /\ adjust' = adjust /\ wtoggle' = wtoggle /\ src' = src /\ ptr' = ptr
        /\ wsize' = wsize /\ out' = out /\ spurious' = spurious /\ failed' = failed
        /\ rc' = rc
    BY <1>2 DEF ToggleTest, Goto, sync, bufs, provider, writer
  <2>v.
        /\ TypeOK /\ wtoggle \in {0, 1} /\ ptoggle \in {0, 1} /\ InHand \in 0..2
        /\ Provider # Writer /\ EOF = 16 /\ new \in {0, 1, 2, 16, 17, 18}
        /\ wlen[wtoggle] \in Nat /\ olen[wtoggle] \in Nat /\ Len(out) \in Nat
        /\ wlen[1 - wtoggle] \in Nat /\ olen[1 - wtoggle] \in Nat
    BY Values
  <2>p. /\ pc'[Provider] = "toggled"
        /\ pc'[Writer] = pc[Writer]
    BY <2>step, Values DEF TypeOK
  <2>h. InHand' = InHand
    BY <2>step DEF InHand
  <2>b. InHand <= 1
    BY <1>2, <2>v DEF BothInUse, InHand
  <2>1. TypeOK'
    BY <2>step, <2>v, <2>p, <2>h, <2>b, Values
       DEF TypeOK, ProviderAt, WriterAt, Threads, Bufs
  <2>2. MutexInv'
    BY <2>step, <2>v, <2>p, <2>h, <2>b, Values
       DEF MutexInv, Threads, Free, Provider, Writer
  <2>3. TurnInv'
    BY <2>step, <2>v, <2>p, <2>h, <2>b DEF TurnInv, Filling, Emptying
  <2>4. EofInv'
    BY <2>step, <2>v, <2>p, <2>h, <2>b DEF EofInv, EOF
  <2>5. ErrorInv'
    BY <2>step, <2>v, <2>p, <2>h, <2>b DEF ErrorInv
  <2>6. EmptyInv'
    BY <2>step, <2>v, <2>p, <2>h, <2>b DEF EmptyInv, Holding, Filling
  <2>7. ASSUME ~error' PROVE StreamInv'
    BY <2>step, <2>v, <2>p, <2>h, <2>b, <2>7
       DEF StreamInv, WriterInv, HoldsFrom, Reached, Left, Emptying
  <2>8. PagesInPlace'
    BY <2>step, <2>v, <2>p, <2>h, <2>b DEF PagesInPlace
  <2>9. NumberedInv'
    BY <2>step DEF NumberedInv
  <2> QED BY <2>1, <2>2, <2>3, <2>4, <2>5, <2>6, <2>7, <2>8, <2>9
<1> QED BY <1>1, <1>2

\* The provider takes the other buffer, which is empty.
LEMMA ToggleEndInv == ASSUME IInv, ToggleEnd PROVE IInv'
<1> USE ConstantsAssumption DEF IInv
<1>a. PICK a \in {"join", "walk", "toggle"} :
      /\ pc' = [pc EXCEPT ![Provider] = a]
      /\ a = "join" => adjust > EOF /\ adjust' = adjust
      /\ a = "walk" => adjust = 1 /\ ~error /\ adjust' = adjust
      /\ a = "toggle" => adjust = 1 /\ error /\ adjust' = 1 + EOF
  BY DEF ToggleEnd, Goto
<1>step.
      /\ pc[Provider] = "toggled"
      /\ mutex' = mutex /\ asleep' = asleep /\ new' = new /\ mem' = mem
      /\ wlen' = [wlen EXCEPT ![ptoggle'] = 0]
      /\ over' = over /\ olen' = olen /\ error' = error
      /\ pc' = [pc EXCEPT ![Provider] = a]
      /\ item' = item /\ nextPgno' = nextPgno
      /\ ptoggle' = (ptoggle + adjust) % 2
      /\ wtoggle' = wtoggle /\ src' = src /\ ptr' = ptr /\ wsize' = wsize
      /\ out' = out /\ spurious' = spurious /\ failed' = failed /\ rc' = rc
  BY <1>a DEF ToggleEnd, Goto, sync, bufs, provider, writer
<1>v.
      /\ TypeOK /\ wtoggle \in {0, 1} /\ ptoggle \in {0, 1} /\ InHand \in 0..2
      /\ Provider # Writer /\ EOF = 16 /\ new \in {0, 1, 2, 16, 17, 18}
      /\ wlen[wtoggle] \in Nat /\ olen[wtoggle] \in Nat /\ Len(out) \in Nat
      /\ wlen[1 - wtoggle] \in Nat /\ olen[1 - wtoggle] \in Nat
  BY Values
<1>p. /\ pc'[Provider] = a
      /\ pc'[Writer] = pc[Writer]
  BY <1>step, Values DEF TypeOK
<1>h. InHand' = InHand
  BY <1>step DEF InHand
<1>t. ptoggle' = 1 - ptoggle
  BY <1>step, <1>v DEF EofInv
<1>n. InHand <= 1
  BY <1>step DEF TurnInv
<1>d. adjust' \in {1, 17} /\ a \in ProviderAt
  BY <1>a, <1>step, <1>v DEF EofInv, ProviderAt
<1>z. wlen[1 - ptoggle] = 0 /\ olen[1 - ptoggle] = 0
  BY <1>step, <1>v, <1>n DEF TurnInv, EmptyInv, Holding, Filling
<1>w. wlen' = wlen
  BY <1>step, <1>t, <1>z, Values DEF TypeOK
<1>1. TypeOK'
  <2>1. pc' \in [Threads -> ProviderAt \cup WriterAt]
    BY <1>step, <1>d DEF TypeOK
  <2>2. ptoggle' \in Bufs /\ adjust' \in {0, 1, 1 + EOF}
    BY <1>v, <1>t, <1>d DEF Bufs
  <2> QED BY <1>step, <1>p, <1>d, <1>w, <2>1, <2>2 DEF TypeOK
<1>2. MutexInv'
  BY <1>step, <1>v, <1>p, <1>h, <1>t, <1>n, <1>d, <1>z, <1>w, Values
     DEF MutexInv, Threads, Free, Provider, Writer
<1>3. TurnInv'
  BY <1>step, <1>v, <1>p, <1>h, <1>t, <1>n, <1>d, <1>z, <1>w
     DEF TurnInv, Filling, Emptying
<1>4. EofInv'
  BY <1>a, <1>step, <1>v, <1>p DEF EofInv
<1>5. ErrorInv'
  BY <1>step, <1>v, <1>p, <1>h, <1>t, <1>n, <1>d, <1>z, <1>w DEF ErrorInv
<1>6. EmptyInv'
  BY <1>step, <1>v, <1>p, <1>h, <1>t, <1>n, <1>d, <1>z, <1>w
     DEF EmptyInv, Holding, Filling
<1>7. ASSUME ~error' PROVE StreamInv'
  BY <1>step, <1>v, <1>p, <1>h, <1>w, <1>7
     DEF StreamInv, WriterInv, HoldsFrom, Reached, Left, Emptying
<1>8. PagesInPlace'
  BY <1>step, <1>v, <1>p, <1>h, <1>t, <1>n, <1>d, <1>z, <1>w DEF PagesInPlace
<1>9. NumberedInv'
  BY <1>step DEF NumberedInv
<1> QED BY <1>1, <1>2, <1>3, <1>4, <1>5, <1>6, <1>7, <1>8, <1>9

\* mdb_env_copyfd1 joins the writer and returns.
LEMMA ReturnInv == ASSUME IInv, Return PROVE IInv'
<1> USE ConstantsAssumption DEF IInv
<1>step.
      /\ pc[Provider] = "join" /\ pc[Writer] = "ended"
      /\ mutex' = mutex /\ asleep' = asleep /\ new' = new /\ mem' = mem
      /\ wlen' = wlen /\ over' = over /\ olen' = olen /\ error' = error
      /\ pc' = [pc EXCEPT ![Provider] = "returned"]
      /\ item' = item /\ nextPgno' = nextPgno /\ ptoggle' = ptoggle
      /\ adjust' = adjust /\ wtoggle' = wtoggle /\ src' = src /\ ptr' = ptr
      /\ wsize' = wsize /\ out' = out /\ spurious' = spurious /\ failed' = failed
      /\ rc' = error
  BY DEF Return, Goto, sync, bufs, provider, writer
<1>v.
      /\ TypeOK /\ wtoggle \in {0, 1} /\ ptoggle \in {0, 1} /\ InHand \in 0..2
      /\ Provider # Writer /\ EOF = 16 /\ new \in {0, 1, 2, 16, 17, 18}
      /\ wlen[wtoggle] \in Nat /\ olen[wtoggle] \in Nat /\ Len(out) \in Nat
      /\ wlen[1 - wtoggle] \in Nat /\ olen[1 - wtoggle] \in Nat
  BY Values
<1>p. /\ pc'[Provider] = "returned"
      /\ pc'[Writer] = pc[Writer]
  BY <1>step, Values DEF TypeOK
<1>h. InHand' = InHand
  BY <1>step DEF InHand
<1>1. TypeOK'
  BY <1>step, <1>v, <1>p, <1>h, Values
     DEF TypeOK, ProviderAt, WriterAt, Threads, Bufs
<1>2. MutexInv'
  BY <1>step, <1>v, <1>p, <1>h, Values DEF MutexInv, Threads, Free, Provider, Writer
<1>3. TurnInv'
  BY <1>step, <1>v, <1>p, <1>h DEF TurnInv, Filling, Emptying
<1>4. EofInv'
  BY <1>step, <1>v, <1>p, <1>h DEF EofInv, EOF
<1>5. ErrorInv'
  BY <1>step, <1>v, <1>p, <1>h DEF ErrorInv
<1>6. EmptyInv'
  BY <1>step, <1>v, <1>p, <1>h DEF EmptyInv, Holding, Filling
<1>7. ASSUME ~error' PROVE StreamInv'
  BY <1>step, <1>v, <1>p, <1>h, <1>7
     DEF StreamInv, WriterInv, HoldsFrom, Reached, Left, Emptying
<1>8. PagesInPlace'
  BY <1>step, <1>v, <1>p, <1>h DEF PagesInPlace
<1>9. NumberedInv'
  BY <1>step DEF NumberedInv
<1> QED BY <1>1, <1>2, <1>3, <1>4, <1>5, <1>6, <1>7, <1>8, <1>9

\* The writer thread begins.
LEMMA WriterStartInv == ASSUME IInv, WriterStart PROVE IInv'
<1> USE ConstantsAssumption DEF IInv
<1>step.
      /\ pc[Writer] = "start" /\ mutex = Free
      /\ mutex' = Writer
      /\ asleep' = asleep /\ new' = new /\ mem' = mem /\ wlen' = wlen
      /\ over' = over /\ olen' = olen /\ error' = error
      /\ pc' = [pc EXCEPT ![Writer] = "test"]
      /\ item' = item /\ nextPgno' = nextPgno /\ ptoggle' = ptoggle
      /\ adjust' = adjust /\ wtoggle' = wtoggle /\ src' = src /\ ptr' = ptr
      /\ wsize' = wsize /\ out' = out /\ spurious' = spurious /\ failed' = failed
      /\ rc' = rc
  BY DEF WriterStart, Goto, sync, bufs, provider, writer
<1>v.
      /\ TypeOK /\ wtoggle \in {0, 1} /\ ptoggle \in {0, 1} /\ InHand \in 0..2
      /\ Provider # Writer /\ EOF = 16 /\ new \in {0, 1, 2, 16, 17, 18}
      /\ wlen[wtoggle] \in Nat /\ olen[wtoggle] \in Nat /\ Len(out) \in Nat
      /\ wlen[1 - wtoggle] \in Nat /\ olen[1 - wtoggle] \in Nat
  BY Values
<1>p. /\ pc'[Provider] = pc[Provider]
      /\ pc'[Writer] = "test"
  BY <1>step, Values DEF TypeOK
<1>h. InHand' = InHand
  BY <1>step DEF InHand
<1>1. TypeOK'
  BY <1>step, <1>v, <1>p, <1>h, Values
     DEF TypeOK, ProviderAt, WriterAt, Threads, Bufs
<1>2. MutexInv'
  BY <1>step, <1>v, <1>p, <1>h, Values DEF MutexInv, Threads, Free, Provider, Writer
<1>3. TurnInv'
  BY <1>step, <1>v, <1>p, <1>h DEF TurnInv, Filling, Emptying
<1>4. EofInv'
  BY <1>step, <1>v, <1>p, <1>h DEF EofInv, EOF
<1>5. ErrorInv'
  BY <1>step, <1>v, <1>p, <1>h DEF ErrorInv
<1>6. EmptyInv'
  BY <1>step, <1>v, <1>p, <1>h DEF EmptyInv, Holding, Filling
<1>7. ASSUME ~error' PROVE StreamInv'
  BY <1>step, <1>v, <1>p, <1>h, <1>7
     DEF StreamInv, WriterInv, HoldsFrom, Reached, Left, Emptying
<1>8. PagesInPlace'
  BY <1>step, <1>v, <1>p, <1>h DEF PagesInPlace
<1>9. NumberedInv'
  BY <1>step DEF NumberedInv
<1> QED BY <1>1, <1>2, <1>3, <1>4, <1>5, <1>6, <1>7, <1>8, <1>9

\* The writer waits for a buffer, ends, or begins to write one.
LEMMA WriterTestInv == ASSUME IInv, WriterTest PROVE IInv'
<1> USE ConstantsAssumption DEF IInv
<1>1. CASE new = 0
  <2>step.
        /\ pc[Writer] = "test"
        /\ mutex' = Free
        /\ asleep' = asleep \cup {Writer}
        /\ new' = new /\ mem' = mem /\ wlen' = wlen /\ over' = over /\ olen' = olen
        /\ error' = error
        /\ pc' = [pc EXCEPT ![Writer] = "wait"]
        /\ item' = item /\ nextPgno' = nextPgno /\ ptoggle' = ptoggle
        /\ adjust' = adjust /\ wtoggle' = wtoggle /\ src' = src /\ ptr' = ptr
        /\ wsize' = wsize /\ out' = out /\ spurious' = spurious /\ failed' = failed
        /\ rc' = rc
    BY <1>1 DEF WriterTest, CondWait, EOF, Goto, sync, bufs, provider, writer
  <2>v.
        /\ TypeOK /\ wtoggle \in {0, 1} /\ ptoggle \in {0, 1} /\ InHand \in 0..2
        /\ Provider # Writer /\ EOF = 16 /\ new \in {0, 1, 2, 16, 17, 18}
        /\ wlen[wtoggle] \in Nat /\ olen[wtoggle] \in Nat /\ Len(out) \in Nat
        /\ wlen[1 - wtoggle] \in Nat /\ olen[1 - wtoggle] \in Nat
    BY Values
  <2>p. /\ pc'[Provider] = pc[Provider]
        /\ pc'[Writer] = "wait"
    BY <2>step, Values DEF TypeOK
  <2>h. InHand' = InHand
    BY <2>step DEF InHand
  <2>1. TypeOK'
    BY <2>step, <2>v, <2>p, <2>h, Values
       DEF TypeOK, ProviderAt, WriterAt, Threads, Bufs
  <2>2. MutexInv'
    BY <2>step, <2>v, <2>p, <2>h, Values
       DEF MutexInv, Threads, Free, Provider, Writer
  <2>3. TurnInv'
    BY <2>step, <2>v, <2>p, <2>h DEF TurnInv, Filling, Emptying
  <2>4. EofInv'
    BY <2>step, <2>v, <2>p, <2>h DEF EofInv, EOF
  <2>5. ErrorInv'
    BY <2>step, <2>v, <2>p, <2>h DEF ErrorInv
  <2>6. EmptyInv'
    BY <2>step, <2>v, <2>p, <2>h DEF EmptyInv, Holding, Filling
  <2>7. ASSUME ~error' PROVE StreamInv'
    BY <2>step, <2>v, <2>p, <2>h, <2>7
       DEF StreamInv, WriterInv, HoldsFrom, Reached, Left, Emptying
  <2>8. PagesInPlace'
    BY <2>step, <2>v, <2>p, <2>h DEF PagesInPlace
  <2>9. NumberedInv'
    BY <2>step DEF NumberedInv
  <2> QED BY <2>1, <2>2, <2>3, <2>4, <2>5, <2>6, <2>7, <2>8, <2>9
<1>2. CASE new = EOF
  <2>step.
        /\ pc[Writer] = "test"
        /\ new = EOF
        /\ mutex' = Free
        /\ asleep' = asleep /\ new' = new /\ mem' = mem /\ wlen' = wlen
        /\ over' = over /\ olen' = olen /\ error' = error
        /\ pc' = [pc EXCEPT ![Writer] = "ended"]
        /\ item' = item /\ nextPgno' = nextPgno /\ ptoggle' = ptoggle
        /\ adjust' = adjust /\ wtoggle' = wtoggle /\ src' = src /\ ptr' = ptr
        /\ wsize' = wsize /\ out' = out /\ spurious' = spurious /\ failed' = failed
        /\ rc' = rc
    BY <1>2 DEF WriterTest, EOF, Goto, sync, bufs, provider, writer
  <2>v.
        /\ TypeOK /\ wtoggle \in {0, 1} /\ ptoggle \in {0, 1} /\ InHand \in 0..2
        /\ Provider # Writer /\ EOF = 16 /\ new \in {0, 1, 2, 16, 17, 18}
        /\ wlen[wtoggle] \in Nat /\ olen[wtoggle] \in Nat /\ Len(out) \in Nat
        /\ wlen[1 - wtoggle] \in Nat /\ olen[1 - wtoggle] \in Nat
    BY Values
  <2>p. /\ pc'[Provider] = pc[Provider]
        /\ pc'[Writer] = "ended"
    BY <2>step, Values DEF TypeOK
  <2>h. InHand' = InHand
    BY <2>step DEF InHand
  <2>1. TypeOK'
    BY <2>step, <2>v, <2>p, <2>h, Values
       DEF TypeOK, ProviderAt, WriterAt, Threads, Bufs
  <2>2. MutexInv'
    BY <2>step, <2>v, <2>p, <2>h, Values
       DEF MutexInv, Threads, Free, Provider, Writer
  <2>3. TurnInv'
    BY <2>step, <2>v, <2>p, <2>h DEF TurnInv, Filling, Emptying
  <2>4. EofInv'
    BY <2>step, <2>v, <2>p, <2>h DEF EofInv, EOF
  <2>5. ErrorInv'
    BY <2>step, <2>v, <2>p, <2>h DEF ErrorInv
  <2>6. EmptyInv'
    BY <2>step, <2>v, <2>p, <2>h DEF EmptyInv, Holding, Filling
  <2>7. ASSUME ~error' PROVE StreamInv'
    BY <2>step, <2>v, <2>p, <2>h, <2>7
       DEF StreamInv, WriterInv, HoldsFrom, Reached, Left, Emptying
  <2>8. PagesInPlace'
    BY <2>step, <2>v, <2>p, <2>h DEF PagesInPlace
  <2>9. NumberedInv'
    BY <2>step DEF NumberedInv
  <2> QED BY <2>1, <2>2, <2>3, <2>4, <2>5, <2>6, <2>7, <2>8, <2>9
<1>3. CASE new \notin {0, EOF}
  <2>step.
        /\ pc[Writer] = "test"
        /\ mutex' = mutex /\ asleep' = asleep /\ new' = new /\ mem' = mem
        /\ wlen' = wlen /\ over' = over /\ olen' = olen /\ error' = error
        /\ pc' = [pc EXCEPT ![Writer] = "write"]
        /\ item' = item /\ nextPgno' = nextPgno /\ ptoggle' = ptoggle
        /\ adjust' = adjust /\ wtoggle' = wtoggle
        /\ src' = "buf"
        /\ ptr' = 0
        /\ wsize' = wlen[wtoggle]
        /\ out' = out /\ spurious' = spurious /\ failed' = failed /\ rc' = rc
    BY <1>3 DEF WriterTest, Goto, sync, bufs, provider, writer
  <2>v.
        /\ TypeOK /\ wtoggle \in {0, 1} /\ ptoggle \in {0, 1} /\ InHand \in 0..2
        /\ Provider # Writer /\ EOF = 16 /\ new \in {0, 1, 2, 16, 17, 18}
        /\ wlen[wtoggle] \in Nat /\ olen[wtoggle] \in Nat /\ Len(out) \in Nat
        /\ wlen[1 - wtoggle] \in Nat /\ olen[1 - wtoggle] \in Nat
    BY Values
  <2>p. /\ pc'[Provider] = pc[Provider]
        /\ pc'[Writer] = "write"
    BY <2>step, Values DEF TypeOK
  <2>h. InHand' = InHand
    BY <2>step DEF InHand
  <2>n. InHand >= 1
    BY <1>3, <2>v DEF InHand
  <2>1. TypeOK'
    BY <2>step, <2>v, <2>p, <2>h, <2>n, Values
       DEF TypeOK, ProviderAt, WriterAt, Threads, Bufs
  <2>2. MutexInv'
    BY <2>step, <2>v, <2>p, <2>h, <2>n, Values
       DEF MutexInv, Threads, Free, Provider, Writer
  <2>3. TurnInv'
    BY <2>step, <2>v, <2>p, <2>h, <2>n DEF TurnInv, Filling, Emptying
  <2>4. EofInv'
    BY <2>step, <2>v, <2>p, <2>h, <2>n DEF EofInv, EOF
  <2>5. ErrorInv'
    BY <2>step, <2>v, <2>p, <2>h, <2>n DEF ErrorInv
  <2>6. EmptyInv'
    BY <2>step, <2>v, <2>p, <2>h, <2>n DEF EmptyInv, Holding, Filling
  <2>7. ASSUME ~error' PROVE StreamInv'
    BY <2>step, <2>v, <2>p, <2>h, <2>n, <2>7
       DEF StreamInv, WriterInv, HoldsFrom, Reached, Left, Emptying
  <2>8. PagesInPlace'
    BY <2>step, <2>v, <2>p, <2>h, <2>n DEF PagesInPlace
  <2>9. NumberedInv'
    BY <2>step DEF NumberedInv
  <2> QED BY <2>1, <2>2, <2>3, <2>4, <2>5, <2>6, <2>7, <2>8, <2>9
<1> QED BY <1>1, <1>2, <1>3

\* write() takes the next pages.
LEMMA WriteInv == ASSUME IInv, Write PROVE IInv'
<1> USE ConstantsAssumption DEF IInv
<1>a. PICK len \in 1..wsize :
      /\ out' = out \o [i \in 1..len |-> Page(ptr + i - 1)]
      /\ ptr' = ptr + len /\ wsize' = wsize - len
  BY DEF Write
<1>step.
      /\ pc[Writer] = "write" /\ wsize > 0 /\ ~error
      /\ ptr' = ptr + len /\ wsize' = wsize - len
      /\ mutex' = mutex /\ asleep' = asleep /\ new' = new /\ mem' = mem
      /\ wlen' = wlen /\ over' = over /\ olen' = olen /\ error' = error /\ pc' = pc
      /\ item' = item /\ nextPgno' = nextPgno /\ ptoggle' = ptoggle
      /\ adjust' = adjust /\ wtoggle' = wtoggle /\ src' = src
      /\ spurious' = spurious /\ failed' = failed /\ rc' = rc
  BY <1>a DEF Write, Goto, sync, bufs, provider, writer
<1>v.
      /\ TypeOK /\ wtoggle \in {0, 1} /\ ptoggle \in {0, 1} /\ InHand \in 0..2
      /\ Provider # Writer /\ EOF = 16 /\ new \in {0, 1, 2, 16, 17, 18}
      /\ wlen[wtoggle] \in Nat /\ olen[wtoggle] \in Nat /\ Len(out) \in Nat
      /\ wlen[1 - wtoggle] \in Nat /\ olen[1 - wtoggle] \in Nat
  BY Values
<1>h. InHand' = InHand
  BY <1>step DEF InHand
<1>q. len \in Nat /\ len >= 1 /\ len <= wsize /\ wsize \in Nat /\ ptr \in Nat
  BY <1>a DEF TypeOK
<1>g. \A i \in 1..len : Page(ptr + i - 1) = Len(out) + i - 1
  <2> SUFFICES ASSUME NEW i \in 1..len PROVE Page(ptr + i - 1) = Len(out) + i - 1
    OBVIOUS
  <2>0. WriterInv /\ Emptying
    BY <1>step DEF StreamInv, Emptying
  <2>1. CASE src = "buf"
    BY <1>v, <1>q, <2>0, <2>1 DEF WriterInv, HoldsFrom, Page
  <2>2. CASE src = "over"
    <3>1. over[wtoggle] \in Nat /\ over[wtoggle] + ptr = Len(out)
      BY <1>v, <1>q, <2>0, <2>2, Values DEF WriterInv
    <3>2. Page(ptr + i - 1) = over[wtoggle] + (ptr + i - 1)
      BY <2>2 DEF Page
    <3> QED BY <1>v, <1>q, <3>1, <3>2, Z3
  <2> QED BY <2>1, <2>2 DEF TypeOK
<1>o. out' = out \o [i \in 1..len |-> Len(out) + i - 1]
  BY <1>a, <1>g
<1>r. /\ out' \in Seq(Nat) /\ Len(out') = Len(out) + len
      /\ \A i \in 1..Len(out) : out'[i] = out[i]
      /\ \A i \in Len(out) + 1 .. Len(out) + len : out'[i] = i - 1
  <2>1. out \in Seq(Nat)
    BY DEF TypeOK
  <2> QED BY <1>q, <1>o, <2>1, Appended
<1>1. TypeOK'
  <2>1. out' \in Seq(Nat) /\ ptr' \in Nat /\ wsize' \in Nat
    BY <1>step, <1>q, <1>r
  <2> QED BY <1>step, <2>1 DEF TypeOK
<1>2. MutexInv'
  BY <1>step, <1>v, <1>h, <1>q, <1>g, <1>o, <1>r, Values
     DEF MutexInv, Threads, Free, Provider, Writer
<1>3. TurnInv'
  BY <1>step, <1>v, <1>h, <1>q, <1>g, <1>o, <1>r DEF TurnInv, Filling, Emptying
<1>4. EofInv'
  BY <1>step, <1>v, <1>h, <1>q, <1>g, <1>o, <1>r DEF EofInv, EOF
<1>5. ErrorInv'
  BY <1>step, <1>v, <1>h, <1>q, <1>g, <1>o, <1>r DEF ErrorInv
<1>6. EmptyInv'
  BY <1>step, <1>v, <1>h, <1>q, <1>g, <1>o, <1>r DEF EmptyInv, Holding, Filling
<1>7. ASSUME ~error' PROVE StreamInv'
  <2>step. Emptying /\ Emptying'
    BY <1>step DEF Emptying
  <2>l. Len(out') = Len(out) + len
    BY <1>r
  <2>1. Reached' = Reached /\ Emptying
    BY <1>step, <1>v, <1>q, <2>l, <2>step DEF Reached, Left
  <2>2. HoldsFrom(1 - wtoggle, Reached)'
    BY <1>step, <2>1 DEF StreamInv, HoldsFrom
  <2>3. Len(out') - ptr' = Len(out) - ptr /\ over[wtoggle] \in Nat
    BY <1>step, <1>v, <1>q, <1>r, Values
  <2>5. ASSUME src = "buf" PROVE WriterInv'
    BY <1>step, <1>v, <1>q, <2>l, <2>step, <2>3, <2>5
       DEF StreamInv, WriterInv, HoldsFrom
  <2>6. ASSUME src = "over" PROVE WriterInv'
    <3>1. olen[wtoggle] = 0 /\ over[wtoggle] + ptr = Len(out)
      BY <1>step, <2>step, <2>6 DEF StreamInv, WriterInv
    <3>2. over'[wtoggle'] = over[wtoggle] /\ olen'[wtoggle'] = 0 /\ ptr' = ptr + len
      BY <1>step, <3>1
    <3>3. over'[wtoggle'] + ptr' = Len(out')
      <4>1. over[wtoggle] + (ptr + len) = (over[wtoggle] + ptr) + len
        BY <1>q, <2>3, Sums
      <4> QED BY <2>l, <3>1, <3>2, <4>1
    <3> QED BY <1>step, <2>step, <2>6, <3>2, <3>3 DEF WriterInv
  <2>4. WriterInv'
    BY <2>5, <2>6 DEF TypeOK
  <2> QED BY <1>step, <2>1, <2>2, <2>4 DEF StreamInv
<1>8. PagesInPlace'
  <2> SUFFICES ASSUME NEW i \in 1..Len(out') PROVE out'[i] = i - 1
    BY DEF PagesInPlace
  <2>1. CASE i \in 1..Len(out)
    BY <1>r, <2>1 DEF PagesInPlace
  <2>2. CASE i \in Len(out) + 1 .. Len(out) + len
    BY <1>r, <2>2
  <2> QED BY <1>v, <1>q, <1>r, <2>1, <2>2
<1>9. NumberedInv'
  BY <1>step DEF NumberedInv
<1> QED BY <1>1, <1>2, <1>3, <1>4, <1>5, <1>6, <1>7, <1>8, <1>9

\* write() fails.
LEMMA WriteFailInv == ASSUME IInv, WriteFail PROVE IInv'
<1> USE ConstantsAssumption DEF IInv
<1>step.
      /\ pc[Writer] = "write"
      /\ mutex' = mutex /\ asleep' = asleep /\ new' = new /\ mem' = mem
      /\ wlen' = wlen /\ over' = over /\ olen' = olen
      /\ error' = TRUE
      /\ pc' = [pc EXCEPT ![Writer] = "tail"]
      /\ item' = item /\ nextPgno' = nextPgno /\ ptoggle' = ptoggle
      /\ adjust' = adjust /\ wtoggle' = wtoggle /\ src' = src /\ ptr' = ptr
      /\ wsize' = wsize /\ out' = out /\ spurious' = spurious
      /\ failed' = TRUE
      /\ rc' = rc
  BY DEF WriteFail, Goto, sync, bufs, provider, writer
<1>v.
      /\ TypeOK /\ wtoggle \in {0, 1} /\ ptoggle \in {0, 1} /\ InHand \in 0..2
      /\ Provider # Writer /\ EOF = 16 /\ new \in {0, 1, 2, 16, 17, 18}
      /\ wlen[wtoggle] \in Nat /\ olen[wtoggle] \in Nat /\ Len(out) \in Nat
      /\ wlen[1 - wtoggle] \in Nat /\ olen[1 - wtoggle] \in Nat
  BY Values
<1>p. /\ pc'[Provider] = pc[Provider]
      /\ pc'[Writer] = "tail"
  BY <1>step, Values DEF TypeOK
<1>h. InHand' = InHand
  BY <1>step DEF InHand
<1>1. TypeOK'
  BY <1>step, <1>v, <1>p, <1>h, Values
     DEF TypeOK, ProviderAt, WriterAt, Threads, Bufs
<1>2. MutexInv'
  BY <1>step, <1>v, <1>p, <1>h, Values DEF MutexInv, Threads, Free, Provider, Writer
<1>3. TurnInv'
  BY <1>step, <1>v, <1>p, <1>h DEF TurnInv, Filling, Emptying
<1>4. EofInv'
  BY <1>step, <1>v, <1>p, <1>h DEF EofInv, EOF
<1>5. ErrorInv'
  BY <1>step, <1>v, <1>p, <1>h DEF ErrorInv
<1>6. EmptyInv'
  BY <1>step, <1>v, <1>p, <1>h DEF EmptyInv, Holding, Filling
<1>7. ASSUME ~error' PROVE StreamInv'
  BY <1>step, <1>v, <1>p, <1>h, <1>7
     DEF StreamInv, WriterInv, HoldsFrom, Reached, Left, Emptying
<1>8. PagesInPlace'
  BY <1>step, <1>v, <1>p, <1>h DEF PagesInPlace
<1>9. NumberedInv'
  BY <1>step DEF NumberedInv
<1> QED BY <1>1, <1>2, <1>3, <1>4, <1>5, <1>6, <1>7, <1>8, <1>9

\* All is written, or no more is because of an error.
LEMMA WriteDoneInv == ASSUME IInv, WriteDone PROVE IInv'
<1> USE ConstantsAssumption DEF IInv
<1>step.
      /\ pc[Writer] = "write" /\ (wsize = 0 \/ error)
      /\ mutex' = mutex /\ asleep' = asleep /\ new' = new /\ mem' = mem
      /\ wlen' = wlen /\ over' = over /\ olen' = olen /\ error' = error
      /\ pc' = [pc EXCEPT ![Writer] = "tail"]
      /\ item' = item /\ nextPgno' = nextPgno /\ ptoggle' = ptoggle
      /\ adjust' = adjust /\ wtoggle' = wtoggle /\ src' = src /\ ptr' = ptr
      /\ wsize' = wsize /\ out' = out /\ spurious' = spurious /\ failed' = failed
      /\ rc' = rc
  BY DEF WriteDone, Goto, sync, bufs, provider, writer
<1>v.
      /\ TypeOK /\ wtoggle \in {0, 1} /\ ptoggle \in {0, 1} /\ InHand \in 0..2
      /\ Provider # Writer /\ EOF = 16 /\ new \in {0, 1, 2, 16, 17, 18}
      /\ wlen[wtoggle] \in Nat /\ olen[wtoggle] \in Nat /\ Len(out) \in Nat
      /\ wlen[1 - wtoggle] \in Nat /\ olen[1 - wtoggle] \in Nat
  BY Values
<1>p. /\ pc'[Provider] = pc[Provider]
      /\ pc'[Writer] = "tail"
  BY <1>step, Values DEF TypeOK
<1>h. InHand' = InHand
  BY <1>step DEF InHand
<1>1. TypeOK'
  BY <1>step, <1>v, <1>p, <1>h, Values
     DEF TypeOK, ProviderAt, WriterAt, Threads, Bufs
<1>2. MutexInv'
  BY <1>step, <1>v, <1>p, <1>h, Values DEF MutexInv, Threads, Free, Provider, Writer
<1>3. TurnInv'
  BY <1>step, <1>v, <1>p, <1>h DEF TurnInv, Filling, Emptying
<1>4. EofInv'
  BY <1>step, <1>v, <1>p, <1>h DEF EofInv, EOF
<1>5. ErrorInv'
  BY <1>step, <1>v, <1>p, <1>h DEF ErrorInv
<1>6. EmptyInv'
  BY <1>step, <1>v, <1>p, <1>h DEF EmptyInv, Holding, Filling
<1>7. ASSUME ~error' PROVE StreamInv'
  BY <1>step, <1>v, <1>p, <1>h, <1>7
     DEF StreamInv, WriterInv, HoldsFrom, Reached, Left, Emptying
<1>8. PagesInPlace'
  BY <1>step, <1>v, <1>p, <1>h DEF PagesInPlace
<1>9. NumberedInv'
  BY <1>step DEF NumberedInv
<1> QED BY <1>1, <1>2, <1>3, <1>4, <1>5, <1>6, <1>7, <1>8, <1>9

\* The tail of an overflow chain follows, out of the map.
LEMMA WriteTailInv == ASSUME IInv, WriteTail PROVE IInv'
<1> USE ConstantsAssumption DEF IInv
<1>step.
      /\ pc[Writer] = "tail" /\ olen[wtoggle] > 0
      /\ mutex' = mutex /\ asleep' = asleep /\ new' = new /\ mem' = mem
      /\ wlen' = wlen /\ over' = over
      /\ olen' = [olen EXCEPT ![wtoggle] = 0]
      /\ error' = error
      /\ pc' = [pc EXCEPT ![Writer] = "write"]
      /\ item' = item /\ nextPgno' = nextPgno /\ ptoggle' = ptoggle
      /\ adjust' = adjust /\ wtoggle' = wtoggle
      /\ src' = "over"
      /\ ptr' = 0
      /\ wsize' = olen[wtoggle]
      /\ out' = out /\ spurious' = spurious /\ failed' = failed /\ rc' = rc
  BY DEF WriteTail, Goto, sync, bufs, provider, writer
<1>v.
      /\ TypeOK /\ wtoggle \in {0, 1} /\ ptoggle \in {0, 1} /\ InHand \in 0..2
      /\ Provider # Writer /\ EOF = 16 /\ new \in {0, 1, 2, 16, 17, 18}
      /\ wlen[wtoggle] \in Nat /\ olen[wtoggle] \in Nat /\ Len(out) \in Nat
      /\ wlen[1 - wtoggle] \in Nat /\ olen[1 - wtoggle] \in Nat
  BY Values
<1>p. /\ pc'[Provider] = pc[Provider]
      /\ pc'[Writer] = "write"
  BY <1>step, Values DEF TypeOK
<1>h. InHand' = InHand
  BY <1>step DEF InHand
<1>o. olen'[wtoggle] = 0 /\ olen'[1 - wtoggle] = olen[1 - wtoggle]
  BY <1>step, <1>v DEF TypeOK, Bufs
<1>1. TypeOK'
  BY <1>step, <1>v, <1>p, <1>h, <1>o, Values
     DEF TypeOK, ProviderAt, WriterAt, Threads, Bufs
<1>2. MutexInv'
  BY <1>step, <1>v, <1>p, <1>h, <1>o, Values
     DEF MutexInv, Threads, Free, Provider, Writer
<1>3. TurnInv'
  BY <1>step, <1>v, <1>p, <1>h, <1>o DEF TurnInv, Filling, Emptying
<1>4. EofInv'
  BY <1>step, <1>v, <1>p, <1>h, <1>o DEF EofInv, EOF
<1>5. ErrorInv'
  BY <1>step, <1>v, <1>p, <1>h, <1>o DEF ErrorInv
<1>6. EmptyInv'
  BY <1>step, <1>v, <1>p, <1>h, <1>o DEF EmptyInv, Holding, Filling
<1>7. ASSUME ~error' PROVE StreamInv'
  <2>1. src = "buf" /\ wsize = 0 /\ ptr = wlen[wtoggle] /\ over[wtoggle] = Len(out)
    <3>1. WriterInv /\ pc[Writer] = "tail" /\ olen[wtoggle] > 0
      BY <1>step, <1>7 DEF StreamInv
    <3>2. src = "buf" /\ ptr \in Nat /\ wsize = 0
      BY <1>v, <3>1 DEF WriterInv, Emptying, TypeOK
    <3>3. ptr + wsize = wlen[wtoggle] /\ HoldsFrom(wtoggle, Len(out) - ptr)
      BY <3>1, <3>2 DEF WriterInv, Emptying
    <3>4. over[wtoggle] = Len(out) - ptr + wlen[wtoggle]
      BY <3>1, <3>3 DEF HoldsFrom
    <3> QED
      BY <1>v, <3>2, <3>3, <3>4
  <2>2. Reached' = Reached
    BY <1>step, <1>v, <1>p, <1>o, <2>1 DEF Reached, Left, Emptying
  <2> QED
    BY <1>step, <1>v, <1>p, <1>o, <2>1, <2>2, <1>7, Values
       DEF StreamInv, WriterInv, HoldsFrom, Emptying
<1>8. PagesInPlace'
  BY <1>step, <1>v, <1>p, <1>h, <1>o DEF PagesInPlace
<1>9. NumberedInv'
  BY <1>step DEF NumberedInv
<1> QED BY <1>1, <1>2, <1>3, <1>4, <1>5, <1>6, <1>7, <1>8, <1>9

\* The writer's buffer is the provider's again.
LEMMA ReturnBufferInv == ASSUME IInv, ReturnBuffer PROVE IInv'
<1> USE ConstantsAssumption DEF IInv
<1>step.
      /\ pc[Writer] = "tail" /\ olen[wtoggle] = 0
      /\ asleep' \subseteq asleep
      /\ mutex' = mutex
      /\ new' = new - 1
      /\ mem' = mem
      /\ wlen' = [wlen EXCEPT ![wtoggle] = 0]
      /\ over' = over /\ olen' = olen /\ error' = error
      /\ pc' = [pc EXCEPT ![Writer] = "test"]
      /\ item' = item /\ nextPgno' = nextPgno /\ ptoggle' = ptoggle
      /\ adjust' = adjust
      /\ wtoggle' = 1 - wtoggle
      /\ src' = src /\ ptr' = ptr /\ wsize' = wsize /\ out' = out
      /\ spurious' = spurious /\ failed' = failed /\ rc' = rc
  BY DEF ReturnBuffer, Signal, Goto, sync, bufs, provider, writer
<1>v.
      /\ TypeOK /\ wtoggle \in {0, 1} /\ ptoggle \in {0, 1} /\ InHand \in 0..2
      /\ Provider # Writer /\ EOF = 16 /\ new \in {0, 1, 2, 16, 17, 18}
      /\ wlen[wtoggle] \in Nat /\ olen[wtoggle] \in Nat /\ Len(out) \in Nat
      /\ wlen[1 - wtoggle] \in Nat /\ olen[1 - wtoggle] \in Nat
  BY Values
<1>p. /\ pc'[Provider] = pc[Provider]
      /\ pc'[Writer] = "test"
  BY <1>step, Values DEF TypeOK
<1>n. InHand >= 1
  BY <1>step DEF TurnInv, Emptying
<1>h.
      /\ InHand' = InHand - 1 /\ (new' >= EOF <=> new >= EOF)
      /\ new' \in {0, 1, 2, 16, 17, 18}
  BY <1>step, <1>n, <1>v DEF InHand, TypeOK
<1>w. /\ wlen'[wtoggle] = 0 /\ wlen'[1 - wtoggle] = wlen[1 - wtoggle]
      /\ 1 - wtoggle' = wtoggle /\ wlen' \in [Bufs -> 0..Cap]
  <2>1. wlen \in [Bufs -> 0..Cap] /\ 0 \in 0..Cap
    BY DEF TypeOK, NumMetas
  <2>2. wtoggle \in Bufs /\ 1 - wtoggle \in Bufs /\ wtoggle # 1 - wtoggle
    BY <1>v DEF Bufs
  <2>3. 1 - wtoggle' = wtoggle
    BY <1>step, <1>v
  <2>4. wlen' = [wlen EXCEPT ![wtoggle] = 0]
    BY <1>step
  <2> QED BY <2>1, <2>2, <2>3, <2>4
<1>1. TypeOK'
  <2>1. new' \in (0..2) \cup (EOF..EOF + 2)
    BY <1>v, <1>h
  <2>2. /\ pc' \in [Threads -> ProviderAt \cup WriterAt]
        /\ pc'[Provider] \in ProviderAt /\ pc'[Writer] \in WriterAt
    BY <1>step, <1>p DEF TypeOK, WriterAt
  <2>3. wtoggle' \in Bufs /\ asleep' \in SUBSET Threads
    BY <1>step, <1>v DEF TypeOK, Bufs
  <2> QED
    BY <1>step, <1>w, <2>1, <2>2, <2>3 DEF TypeOK
<1>2. MutexInv'
  BY <1>step, <1>v, <1>p, <1>n, <1>h, <1>w, Values
     DEF MutexInv, Threads, Free, Provider, Writer
<1>3. TurnInv'
  BY <1>step, <1>v, <1>p, <1>n, <1>h, <1>w DEF TurnInv, Filling, Emptying
<1>4. EofInv'
  BY <1>step, <1>v, <1>p, <1>n, <1>h, <1>w DEF EofInv, EOF
<1>5. ErrorInv'
  BY <1>step, <1>v, <1>p, <1>n, <1>h, <1>w DEF ErrorInv
<1>6. EmptyInv'
  BY <1>step, <1>v, <1>p, <1>n, <1>h, <1>w DEF EmptyInv, Holding, Filling
<1>7. ASSUME ~error' PROVE StreamInv'
  <2>1. wsize = 0 /\ Reached = Len(out)
    BY <1>step, <1>v, <1>7 DEF StreamInv, WriterInv, Reached, Left, Emptying
  <2>2. HoldsFrom(1 - wtoggle, Reached)'
    BY <1>step, <1>v, <1>w DEF HoldsFrom
  <2>3. HoldsFrom(wtoggle, Len(out))'
    BY <1>step, <1>v, <1>w, <2>1, <1>7 DEF HoldsFrom, StreamInv
  <2> QED
    BY <1>step, <1>v, <1>p, <1>w, <2>1, <2>2, <2>3, <1>7
       DEF StreamInv, WriterInv, Reached, Left, Emptying
<1>8. PagesInPlace'
  BY <1>step, <1>v, <1>p, <1>n, <1>h, <1>w DEF PagesInPlace
<1>9. NumberedInv'
  BY <1>step DEF NumberedInv
<1> QED BY <1>1, <1>2, <1>3, <1>4, <1>5, <1>6, <1>7, <1>8, <1>9

\* The provider copies a page; the tail of a chain has its numbers, too.
LEMMA WalkPageInv == ASSUME IInv, WalkPage PROVE IInv'
<1> USE ConstantsAssumption DEF IInv
<1>i. Items[item] \in Nat \ {0} /\ nextPgno \in Nat /\ item \in 1..Len(Items)
  BY DEF WalkPage, TypeOK
<1>k0. /\ mem \in [Bufs -> [0..Cap-1 -> Nat]] /\ wlen \in [Bufs -> 0..Cap]
      /\ over \in [Bufs -> Nat] /\ olen \in [Bufs -> Nat] /\ ptoggle \in Bufs
  BY DEF TypeOK
<1>k. wlen[ptoggle] \in 0..Cap-1 /\ wlen[ptoggle] \in Nat
  BY <1>k0 DEF WalkPage, Full
<1>1. CASE Items[item] = 1
  <2>step.
        /\ pc[Provider] = "walk" /\ item <= Len(Items)
        /\ mutex' = mutex /\ asleep' = asleep /\ new' = new
        /\ mem' = [mem EXCEPT ![ptoggle][wlen[ptoggle]] = nextPgno]
        /\ wlen' = [wlen EXCEPT ![ptoggle] = @ + 1]
        /\ over' = over /\ olen' = olen /\ error' = error /\ pc' = pc
        /\ item' = item + 1
        /\ nextPgno' = nextPgno + Items[item]
        /\ ptoggle' = ptoggle /\ adjust' = adjust /\ wtoggle' = wtoggle
        /\ src' = src /\ ptr' = ptr /\ wsize' = wsize /\ out' = out
        /\ spurious' = spurious /\ failed' = failed /\ rc' = rc
    BY <1>1 DEF WalkPage, Goto, sync, bufs, provider, writer
  <2>v.
        /\ TypeOK /\ wtoggle \in {0, 1} /\ ptoggle \in {0, 1} /\ InHand \in 0..2
        /\ Provider # Writer /\ EOF = 16 /\ new \in {0, 1, 2, 16, 17, 18}
        /\ wlen[wtoggle] \in Nat /\ olen[wtoggle] \in Nat /\ Len(out) \in Nat
        /\ wlen[1 - wtoggle] \in Nat /\ olen[1 - wtoggle] \in Nat
    BY Values
  <2>h. InHand' = InHand
    BY <2>step DEF InHand
  <2>u. /\ out' = out /\ wsize' = wsize /\ ptr' = ptr /\ src' = src
        /\ wtoggle' = wtoggle /\ ptoggle' = ptoggle
        /\ nextPgno' = nextPgno + Items[item] /\ item' = item + 1
        /\ pc'[Writer] = pc[Writer] /\ pc'[Provider] = "walk"
        /\ Emptying' = Emptying
        /\ over' = over /\ olen' = olen
    BY <2>step, Values DEF Emptying, TypeOK
  <2>a. Filling /\ InHand \in {0, 1} /\ ptoggle = IF InHand = 1 THEN 1 - wtoggle
          ELSE wtoggle
    BY <2>step, <2>v DEF TurnInv, Filling
  <2>b. olen[ptoggle] = 0 /\ (InHand = 0 => ~Emptying)
    BY <2>step DEF EmptyInv, TurnInv
  <2>m0. mem' = [mem EXCEPT ![ptoggle][wlen[ptoggle]] = nextPgno]
    BY <2>step
  <2>m. /\ mem' \in [Bufs -> [0..Cap-1 -> Nat]]
        /\ \A c \in Bufs : c # ptoggle => mem'[c] = mem[c]
        /\ \A i \in 0..Cap-1 :
                mem'[ptoggle][i] = IF i = wlen[ptoggle] THEN nextPgno
                ELSE mem[ptoggle][i]
    <3> DEFINE row == [mem[ptoggle] EXCEPT ![wlen[ptoggle]] = nextPgno]
      <3>1. mem' = [mem EXCEPT ![ptoggle] = row]
        BY <2>m0
      <3>2. row \in [0..Cap-1 -> Nat]
              /\ \A i \in 0..Cap-1 : row[i] = IF i = wlen[ptoggle] THEN nextPgno
              ELSE mem[ptoggle][i]
        BY <1>i, <1>k0, <1>k
      <3> HIDE DEF row
      <3> QED BY <1>k0, <3>1, <3>2
  <2>w0.
        /\ wlen' = [wlen EXCEPT ![ptoggle] = @ + 1] /\ 1 - ptoggle \in Bufs
        /\ ptoggle # 1 - ptoggle
    BY <2>step, <2>v DEF Bufs
  <2>w. wlen' \in [Bufs -> 0..Cap]
    BY <2>w0, <1>k0, <1>k
  <2>w1. wlen'[ptoggle] = wlen[ptoggle] + 1 /\ wlen'[1 - ptoggle] = wlen[1 - ptoggle]
    BY <2>w0, <1>k0
  <2>1. TypeOK'
    <3>1. nextPgno' \in Nat /\ item' \in 1..Len(Items) + 1
      BY <2>u, <1>i
    <3> QED BY <2>step, <2>m, <2>w, <3>1 DEF TypeOK
  <2>2. MutexInv'
    BY <2>step, <2>v DEF MutexInv
  <2>3. TurnInv'
    BY <2>step, <2>v, <2>h, <2>u, <2>a, <2>b, <2>m0, <2>m, <2>w0, <2>w, <2>w1
       DEF TurnInv, Filling, Emptying
  <2>4. EofInv'
    BY <2>step, <2>u, <2>v DEF EofInv
  <2>5. ErrorInv'
    BY <2>step, <2>v, <2>h, <2>u, <2>a, <2>b, <2>m0, <2>m, <2>w0, <2>w, <2>w1
       DEF ErrorInv
  <2>6. EmptyInv'
    BY <2>u, <2>v, <2>a, <2>b, <2>h, <2>w1 DEF EmptyInv, Holding, Filling
  <2>7. ASSUME ~error' PROVE StreamInv'
    <3>1.
          /\ wlen[ptoggle] \in Nat /\ wlen[1 - ptoggle] \in Nat
          /\ over[1 - wtoggle] \in Nat
      BY <1>k, <2>v, Values
    <3>2. ASSUME InHand = 0 PROVE StreamInv'
      <4>1.
            /\ ptoggle = wtoggle /\ ~Emptying /\ ~Emptying' /\ wlen[1 - wtoggle] = 0
            /\ olen[1 - wtoggle] = 0
        BY <2>u, <2>a, <2>b, <3>2 DEF EmptyInv, Holding
      <4>2. nextPgno = Len(out) + wlen[wtoggle] /\ HoldsFrom(wtoggle, Len(out))
        BY <2>step, <2>v, <2>b, <2>7, <4>1 DEF StreamInv, WriterInv, Reached, Left
      <4>3. HoldsFrom(wtoggle, Len(out))'
        <5>1. ASSUME NEW i \in 0..wlen'[ptoggle] - 1
                PROVE mem'[ptoggle][i] = Len(out) + i
          <6>0. i \in 0..Cap-1 /\ i <= wlen[ptoggle]
            BY <1>k, <2>w1
          <6>1. CASE i < wlen[ptoggle]
            <7>1. mem[ptoggle][i] = Len(out) + i
              BY <1>k, <6>0, <6>1, <4>1, <4>2 DEF HoldsFrom
            <7> QED BY <2>m, <6>0, <6>1, <7>1
          <6>2. CASE i = wlen[ptoggle]
            BY <2>m, <6>0, <6>2, <4>1, <4>2
          <6> QED BY <1>k, <6>0, <6>1, <6>2
        <5>2. olen'[ptoggle] > 0 => over'[ptoggle] = Len(out) + wlen'[ptoggle]
          BY <1>k, <2>u, <2>b, <2>v, <2>w1, <4>1, <4>2, Z3
        <5> QED BY <2>u, <4>1, <5>1, <5>2 DEF HoldsFrom
      <4>4. HoldsFrom(1 - wtoggle, Reached)'
        BY <2>u, <2>w1, <4>1 DEF HoldsFrom
      <4>5. Reached' = Len(out) + (wlen[wtoggle] + 1 + 0)
        BY <1>i, <1>k, <2>u, <2>b, <2>w1, <2>v, <4>1 DEF Reached, Left
      <4>6. nextPgno' = Reached' + wlen'[1 - wtoggle'] + olen'[1 - wtoggle']
        <5>1.
              /\ wlen'[1 - wtoggle'] = 0 /\ olen'[1 - wtoggle'] = 0
              /\ nextPgno' = nextPgno + Items[item]
          BY <2>u, <2>w1, <4>1
        <5>2. nextPgno' = (Len(out) + wlen[wtoggle]) + Items[item]
          BY <4>2, <5>1
        <5>3. nextPgno' = Reached' /\ Reached' \in Nat
          <6>1. Len(out) \in Nat /\ wlen[wtoggle] \in Nat /\ Items[item] \in Nat \ {0}
            BY <1>i, <2>v
          <6> QED BY <1>1, <4>5, <5>2, <6>1, TailLength
        <5> QED BY <5>1, <5>3
      <4>7. WriterInv'
        BY <2>u, <4>1, <4>3 DEF WriterInv, Emptying
      <4> QED BY <4>4, <4>6, <4>7 DEF StreamInv
    <3>3. ASSUME InHand = 1 PROVE StreamInv'
      <4>1. ptoggle = 1 - wtoggle /\ 1 - ptoggle = wtoggle /\ 1 - wtoggle' = ptoggle
        BY <2>u, <2>a, <2>v, <3>3
      <4>2.
            /\ mem'[wtoggle] = mem[wtoggle] /\ wlen'[wtoggle] = wlen[wtoggle]
            /\ over'[wtoggle] = over[wtoggle] /\ olen'[wtoggle] = olen[wtoggle]
        BY <2>u, <2>w0, <2>w1, <2>m, <4>1
      <4>r. Reached' = Reached
        BY <2>u, <4>2 DEF Reached, Left
      <4>0. WriterInv
        BY <2>step, <2>7 DEF StreamInv
      <4>3. WriterInv'
        BY <2>u, <4>0, <4>2 DEF WriterInv, HoldsFrom
      <4>a. wsize \in Nat
        BY DEF TypeOK
      <4>4. Reached \in Nat
        BY <2>v, <4>a DEF Reached, Left
      <4>5. nextPgno = Reached + wlen[ptoggle] /\ HoldsFrom(ptoggle, Reached)
        BY <1>k, <2>step, <2>b, <2>7, <4>1, <4>4 DEF StreamInv
      <4>6. HoldsFrom(1 - wtoggle, Reached)'
        <5>1. ASSUME NEW i \in 0..wlen'[ptoggle] - 1
                PROVE mem'[ptoggle][i] = Reached + i
          <6>0. i \in 0..Cap-1 /\ i <= wlen[ptoggle]
            BY <1>k, <2>w1
          <6>1. CASE i < wlen[ptoggle]
            <7>1. mem[ptoggle][i] = Reached + i
              BY <1>k, <6>0, <6>1, <4>4, <4>5 DEF HoldsFrom
            <7> QED BY <2>m, <6>0, <6>1, <7>1
          <6>2. CASE i = wlen[ptoggle]
            BY <2>m, <6>0, <6>2, <4>4, <4>5
          <6> QED BY <1>k, <6>0, <6>1, <6>2
        <5>2. olen'[ptoggle] > 0 => over'[ptoggle] = Reached + wlen'[ptoggle]
          BY <1>k, <2>u, <2>b, <2>w1, <4>4, <4>5, Z3
        <5> QED BY <4>1, <4>r, <5>1, <5>2 DEF HoldsFrom
      <4>7. nextPgno' = Reached' + wlen'[1 - wtoggle'] + olen'[1 - wtoggle']
        <5>1. nextPgno' = nextPgno + Items[item] /\ olen'[ptoggle] = Items[item] - 1
          BY <1>i, <1>1, <2>u, <2>b
        <5>2. nextPgno' = (Reached + wlen[ptoggle]) + Items[item]
          BY <4>5, <5>1
        <5>3. nextPgno' = Reached + (wlen[ptoggle] + 1) + (Items[item] - 1)
          BY <1>i, <1>k, <4>4, <5>2, TailLength
        <5>4. nextPgno' = Reached + wlen'[ptoggle] + olen'[ptoggle]
          BY <2>w1, <5>1, <5>3
        <5> QED BY <4>1, <4>r, <5>4
      <4> QED BY <4>r, <4>3, <4>6, <4>7 DEF StreamInv
    <3> QED BY <2>a, <3>2, <3>3
  <2>8. PagesInPlace'
    BY <2>step, <2>v, <2>h, <2>u, <2>a, <2>b, <2>m0, <2>m, <2>w0, <2>w, <2>w1
       DEF PagesInPlace
  <2>9. NumberedInv'
    <3>1. item' = item + 1 /\ item' - 1 = item
      BY <1>i, <2>u
    <3>2. Total[item] = Total[item - 1] + Items[item]
      BY <1>i, TotalFact
    <3> QED BY <2>u, <3>1, <3>2 DEF NumberedInv
  <2> QED BY <2>1, <2>2, <2>3, <2>4, <2>5, <2>6, <2>7, <2>8, <2>9
<1>2. CASE Items[item] > 1
  <2>step.
        /\ pc[Provider] = "walk" /\ item <= Len(Items)
        /\ mutex' = mutex /\ asleep' = asleep /\ new' = new
        /\ mem' = [mem EXCEPT ![ptoggle][wlen[ptoggle]] = nextPgno]
        /\ wlen' = [wlen EXCEPT ![ptoggle] = @ + 1]
        /\ over' = [over EXCEPT ![ptoggle] = nextPgno + 1]
        /\ olen' = [olen EXCEPT ![ptoggle] = Items[item] - 1]
        /\ error' = error
        /\ pc' = [pc EXCEPT ![Provider] = "toggle"]
        /\ item' = item + 1
        /\ nextPgno' = nextPgno + Items[item]
        /\ ptoggle' = ptoggle
        /\ adjust' = 1
        /\ wtoggle' = wtoggle /\ src' = src /\ ptr' = ptr /\ wsize' = wsize
        /\ out' = out /\ spurious' = spurious /\ failed' = failed /\ rc' = rc
    BY <1>2 DEF WalkPage, Goto, sync, bufs, provider, writer
  <2>v.
        /\ TypeOK /\ wtoggle \in {0, 1} /\ ptoggle \in {0, 1} /\ InHand \in 0..2
        /\ Provider # Writer /\ EOF = 16 /\ new \in {0, 1, 2, 16, 17, 18}
        /\ wlen[wtoggle] \in Nat /\ olen[wtoggle] \in Nat /\ Len(out) \in Nat
        /\ wlen[1 - wtoggle] \in Nat /\ olen[1 - wtoggle] \in Nat
    BY Values
  <2>p. /\ pc'[Provider] = "toggle"
        /\ pc'[Writer] = pc[Writer]
    BY <2>step, Values DEF TypeOK
  <2>h. InHand' = InHand
    BY <2>step DEF InHand
  <2>u. /\ out' = out /\ wsize' = wsize /\ ptr' = ptr /\ src' = src
        /\ wtoggle' = wtoggle /\ ptoggle' = ptoggle
        /\ nextPgno' = nextPgno + Items[item] /\ item' = item + 1
        /\ pc'[Writer] = pc[Writer] /\ pc'[Provider] = "toggle"
        /\ Emptying' = Emptying
    BY <2>step, Values, <2>p DEF Emptying, TypeOK
  <2>a. Filling /\ InHand \in {0, 1} /\ ptoggle = IF InHand = 1 THEN 1 - wtoggle
          ELSE wtoggle
    BY <2>step, <2>v DEF TurnInv, Filling
  <2>b. olen[ptoggle] = 0 /\ (InHand = 0 => ~Emptying)
    BY <2>step DEF EmptyInv, TurnInv
  <2>m0. mem' = [mem EXCEPT ![ptoggle][wlen[ptoggle]] = nextPgno]
    BY <2>step
  <2>m. /\ mem' \in [Bufs -> [0..Cap-1 -> Nat]]
        /\ \A c \in Bufs : c # ptoggle => mem'[c] = mem[c]
        /\ \A i \in 0..Cap-1 :
                mem'[ptoggle][i] = IF i = wlen[ptoggle] THEN nextPgno
                ELSE mem[ptoggle][i]
    <3> DEFINE row == [mem[ptoggle] EXCEPT ![wlen[ptoggle]] = nextPgno]
      <3>1. mem' = [mem EXCEPT ![ptoggle] = row]
        BY <2>m0
      <3>2. row \in [0..Cap-1 -> Nat]
              /\ \A i \in 0..Cap-1 : row[i] = IF i = wlen[ptoggle] THEN nextPgno
              ELSE mem[ptoggle][i]
        BY <1>i, <1>k0, <1>k
      <3> HIDE DEF row
      <3> QED BY <1>k0, <3>1, <3>2
  <2>w0.
        /\ wlen' = [wlen EXCEPT ![ptoggle] = @ + 1] /\ 1 - ptoggle \in Bufs
        /\ ptoggle # 1 - ptoggle
    BY <2>step, <2>v DEF Bufs
  <2>w. wlen' \in [Bufs -> 0..Cap]
    BY <2>w0, <1>k0, <1>k
  <2>w1. wlen'[ptoggle] = wlen[ptoggle] + 1 /\ wlen'[1 - ptoggle] = wlen[1 - ptoggle]
    BY <2>w0, <1>k0
  <2>o0.
        /\ over' = [over EXCEPT ![ptoggle] = nextPgno + 1]
        /\ olen' = [olen EXCEPT ![ptoggle] = Items[item] - 1]
    BY <2>step
  <2>o. over' \in [Bufs -> Nat] /\ olen' \in [Bufs -> Nat]
    BY <2>o0, <1>i, <1>k0, <1>2
  <2>o1. /\ over'[ptoggle] = nextPgno + 1 /\ over'[1 - ptoggle] = over[1 - ptoggle]
        /\ olen'[ptoggle] = Items[item] - 1
        /\ olen'[1 - ptoggle] = olen[1 - ptoggle]
    BY <2>o0, <2>w0, <1>k0
  <2>1. TypeOK'
    <3>1. nextPgno' \in Nat /\ item' \in 1..Len(Items) + 1
      BY <2>u, <1>i
    <3> QED BY <2>step, <2>m, <2>w, <3>1, <2>p, <2>o DEF TypeOK, ProviderAt, Threads
  <2>2. MutexInv'
    BY <2>step, <2>v, <2>p DEF MutexInv
  <2>3. TurnInv'
    BY <2>step, <2>v, <2>p, <2>h, <2>u, <2>a, <2>b, <2>m0, <2>m, <2>w0, <2>w, <2>w1,
       <2>o0, <2>o, <2>o1
       DEF TurnInv, Filling, Emptying
  <2>4. EofInv'
    BY <2>step, <2>u, <2>v DEF EofInv
  <2>5. ErrorInv'
    BY <2>step, <2>v, <2>p, <2>h, <2>u, <2>a, <2>b, <2>m0, <2>m, <2>w0, <2>w, <2>w1,
       <2>o0, <2>o, <2>o1
       DEF ErrorInv
  <2>6. EmptyInv'
    BY <2>u, <2>v, <2>a, <2>b, <2>h, <2>w1, <2>p, <2>o1
       DEF EmptyInv, Holding, Filling
  <2>7. ASSUME ~error' PROVE StreamInv'
    <3>1.
          /\ wlen[ptoggle] \in Nat /\ wlen[1 - ptoggle] \in Nat
          /\ over[1 - wtoggle] \in Nat
      BY <1>k, <2>v, Values
    <3>2. ASSUME InHand = 0 PROVE StreamInv'
      <4>1.
            /\ ptoggle = wtoggle /\ ~Emptying /\ ~Emptying' /\ wlen[1 - wtoggle] = 0
            /\ olen[1 - wtoggle] = 0
        BY <2>u, <2>a, <2>b, <3>2 DEF EmptyInv, Holding
      <4>2. nextPgno = Len(out) + wlen[wtoggle] /\ HoldsFrom(wtoggle, Len(out))
        BY <2>step, <2>v, <2>b, <2>7, <4>1 DEF StreamInv, WriterInv, Reached, Left
      <4>3. HoldsFrom(wtoggle, Len(out))'
        <5>1. ASSUME NEW i \in 0..wlen'[ptoggle] - 1
                PROVE mem'[ptoggle][i] = Len(out) + i
          <6>0. i \in 0..Cap-1 /\ i <= wlen[ptoggle]
            BY <1>k, <2>w1
          <6>1. CASE i < wlen[ptoggle]
            <7>1. mem[ptoggle][i] = Len(out) + i
              BY <1>k, <6>0, <6>1, <4>1, <4>2 DEF HoldsFrom
            <7> QED BY <2>m, <6>0, <6>1, <7>1
          <6>2. CASE i = wlen[ptoggle]
            BY <2>m, <6>0, <6>2, <4>1, <4>2
          <6> QED BY <1>k, <6>0, <6>1, <6>2
        <5>2. olen'[ptoggle] > 0 => over'[ptoggle] = Len(out) + wlen'[ptoggle]
          BY <1>k, <2>u, <2>b, <2>v, <2>w1, <2>o1, <4>1, <4>2, Z3
        <5> QED BY <2>u, <4>1, <5>1, <5>2 DEF HoldsFrom
      <4>4. HoldsFrom(1 - wtoggle, Reached)'
        BY <2>u, <2>w1, <2>o1, <4>1 DEF HoldsFrom
      <4>5. Reached' = Len(out) + (wlen[wtoggle] + 1 + (Items[item] - 1))
        BY <1>i, <1>k, <2>u, <2>b, <2>w1, <2>o1, <2>v, <4>1 DEF Reached, Left
      <4>6. nextPgno' = Reached' + wlen'[1 - wtoggle'] + olen'[1 - wtoggle']
        <5>1.
              /\ wlen'[1 - wtoggle'] = 0 /\ olen'[1 - wtoggle'] = 0
              /\ nextPgno' = nextPgno + Items[item]
          BY <2>u, <2>w1, <2>o1, <4>1
        <5>2. nextPgno' = (Len(out) + wlen[wtoggle]) + Items[item]
          BY <4>2, <5>1
        <5>3. nextPgno' = Reached' /\ Reached' \in Nat
          <6>1. Len(out) \in Nat /\ wlen[wtoggle] \in Nat /\ Items[item] \in Nat \ {0}
            BY <1>i, <2>v
          <6> QED BY <1>2, <4>5, <5>2, <6>1, TailLength
        <5> QED BY <5>1, <5>3
      <4>7. WriterInv'
        BY <2>u, <4>1, <4>3 DEF WriterInv, Emptying
      <4> QED BY <4>4, <4>6, <4>7 DEF StreamInv
    <3>3. ASSUME InHand = 1 PROVE StreamInv'
      <4>1. ptoggle = 1 - wtoggle /\ 1 - ptoggle = wtoggle /\ 1 - wtoggle' = ptoggle
        BY <2>u, <2>a, <2>v, <3>3
      <4>2.
            /\ mem'[wtoggle] = mem[wtoggle] /\ wlen'[wtoggle] = wlen[wtoggle]
            /\ over'[wtoggle] = over[wtoggle] /\ olen'[wtoggle] = olen[wtoggle]
        BY <2>u, <2>w0, <2>w1, <2>m, <2>o1, <4>1
      <4>r. Reached' = Reached
        BY <2>u, <4>2 DEF Reached, Left
      <4>0. WriterInv
        BY <2>step, <2>7 DEF StreamInv
      <4>3. WriterInv'
        BY <2>u, <4>0, <4>2 DEF WriterInv, HoldsFrom
      <4>a. wsize \in Nat
        BY DEF TypeOK
      <4>4. Reached \in Nat
        BY <2>v, <4>a DEF Reached, Left
      <4>5. nextPgno = Reached + wlen[ptoggle] /\ HoldsFrom(ptoggle, Reached)
        BY <1>k, <2>step, <2>b, <2>7, <4>1, <4>4 DEF StreamInv
      <4>6. HoldsFrom(1 - wtoggle, Reached)'
        <5>1. ASSUME NEW i \in 0..wlen'[ptoggle] - 1
                PROVE mem'[ptoggle][i] = Reached + i
          <6>0. i \in 0..Cap-1 /\ i <= wlen[ptoggle]
            BY <1>k, <2>w1
          <6>1. CASE i < wlen[ptoggle]
            <7>1. mem[ptoggle][i] = Reached + i
              BY <1>k, <6>0, <6>1, <4>4, <4>5 DEF HoldsFrom
            <7> QED BY <2>m, <6>0, <6>1, <7>1
          <6>2. CASE i = wlen[ptoggle]
            BY <2>m, <6>0, <6>2, <4>4, <4>5
          <6> QED BY <1>k, <6>0, <6>1, <6>2
        <5>2. olen'[ptoggle] > 0 => over'[ptoggle] = Reached + wlen'[ptoggle]
          BY <1>k, <2>u, <2>b, <2>w1, <2>o1, <4>4, <4>5, Z3
        <5> QED BY <4>1, <4>r, <5>1, <5>2 DEF HoldsFrom
      <4>7. nextPgno' = Reached' + wlen'[1 - wtoggle'] + olen'[1 - wtoggle']
        <5>1. nextPgno' = nextPgno + Items[item] /\ olen'[ptoggle] = Items[item] - 1
          BY <1>i, <1>2, <2>u, <2>b, <2>o1
        <5>2. nextPgno' = (Reached + wlen[ptoggle]) + Items[item]
          BY <4>5, <5>1
        <5>3. nextPgno' = Reached + (wlen[ptoggle] + 1) + (Items[item] - 1)
          BY <1>i, <1>k, <4>4, <5>2, TailLength
        <5>4. nextPgno' = Reached + wlen'[ptoggle] + olen'[ptoggle]
          BY <2>w1, <5>1, <5>3
        <5> QED BY <4>1, <4>r, <5>4
      <4> QED BY <4>r, <4>3, <4>6, <4>7 DEF StreamInv
    <3> QED BY <2>a, <3>2, <3>3
  <2>8. PagesInPlace'
    BY <2>step, <2>v, <2>p, <2>h, <2>u, <2>a, <2>b, <2>m0, <2>m, <2>w0, <2>w, <2>w1,
       <2>o0, <2>o, <2>o1
       DEF PagesInPlace
  <2>9. NumberedInv'
    <3>1. item' = item + 1 /\ item' - 1 = item
      BY <1>i, <2>u
    <3>2. Total[item] = Total[item - 1] + Items[item]
      BY <1>i, TotalFact
    <3> QED BY <2>u, <3>1, <3>2 DEF NumberedInv
  <2> QED BY <2>1, <2>2, <2>3, <2>4, <2>5, <2>6, <2>7, <2>8, <2>9
<1> QED BY <1>i, <1>1, <1>2

\* The thread is started with an empty second buffer.
LEMMA InitInv == Init => IInv
<1> SUFFICES ASSUME Init PROVE IInv
  OBVIOUS
<1> USE ConstantsAssumption
<1>0.
      /\ NumMetas = 2 /\ EOF = 16 /\ Provider # Writer /\ Provider # Free
      /\ Writer # Free /\ Cap \in Nat /\ Cap >= 2
  BY DEF ConstantsAssumption, NumMetas, EOF, Provider, Writer, Free
<1>1. TypeOK
  <2>1.
        /\ mem \in [Bufs -> [0..Cap-1 -> Nat]] /\ wlen \in [Bufs -> 0..Cap]
        /\ over \in [Bufs -> Nat] /\ olen \in [Bufs -> Nat]
    BY <1>0 DEF Init
  <2>2.
        /\ pc \in [Threads -> ProviderAt \cup WriterAt] /\ pc[Provider] = "walk"
        /\ pc[Writer] = "start"
    BY <1>0 DEF Init, Threads, ProviderAt, WriterAt
  <2>3. item \in 1..Len(Items) + 1 /\ spurious \in 0..MaxSpurious /\ out \in Seq(Nat)
    BY DEF Init, ConstantsAssumption
  <2>4. /\ mutex = Free /\ asleep = {} /\ new = 0 /\ error = FALSE /\ failed = FALSE
        /\ rc = FALSE /\ nextPgno = 2
        /\ ptoggle = 0 /\ adjust = 0 /\ wtoggle = 0 /\ src = "buf" /\ ptr = 0
        /\ wsize = 0
    BY <1>0 DEF Init
  <2>5. /\ new \in (0..2) \cup (EOF..EOF + 2) /\ adjust \in {0, 1, 1 + EOF}
        /\ ptoggle \in Bufs /\ wtoggle \in Bufs
        /\ mutex \in Threads \cup {Free} /\ asleep \in SUBSET Threads
    BY <2>4 DEF Bufs
  <2>6. pc[Provider] \in ProviderAt /\ pc[Writer] \in WriterAt
    BY <2>2 DEF ProviderAt, WriterAt
  <2> QED BY <2>1, <2>2, <2>3, <2>4, <2>5, <2>6 DEF TypeOK
<1>2.
      /\ pc[Provider] = "walk" /\ pc[Writer] = "start" /\ new = 0 /\ error = FALSE
      /\ failed = FALSE /\ asleep = {} /\ mutex = Free
  BY <1>0 DEF Init, Threads
<1>3. /\ wtoggle = 0 /\ ptoggle = 0 /\ adjust = 0 /\ nextPgno = 2 /\ out = <<>>
      /\ Len(out) = 0
      /\ wlen[0] = 2 /\ wlen[1] = 0 /\ olen[0] = 0 /\ olen[1] = 0
  BY <1>0 DEF Init, Bufs
<1>4. MutexInv /\ EofInv /\ ErrorInv
  <2>1. MutexInv
    BY <1>0, <1>2 DEF MutexInv
  <2>2. EofInv
    BY <1>0, <1>2, <1>3 DEF EofInv
  <2>3. ErrorInv
    BY <1>2 DEF ErrorInv
  <2> QED BY <2>1, <2>2, <2>3
<1>5. InHand = 0 /\ Filling /\ ~Emptying
  BY <1>0, <1>2 DEF InHand, Filling, Emptying
<1>6. TurnInv /\ EmptyInv
  BY <1>2, <1>3, <1>5 DEF TurnInv, EmptyInv, Holding
<1>7. StreamInv
  <2>1. \A i \in 0..1 : mem[0][i] = i
    BY <1>0 DEF Init, Bufs
  <2>2. HoldsFrom(0, 0) /\ Reached = 2
    BY <1>3, <1>5, <2>1 DEF HoldsFrom, Reached, Left
  <2>3. HoldsFrom(1, 2)
    BY <1>3 DEF HoldsFrom
  <2> QED BY <1>2, <1>3, <1>5, <2>2, <2>3 DEF StreamInv, WriterInv, Emptying
<1>8. PagesInPlace
  BY <1>3 DEF PagesInPlace
<1>9. NumberedInv
  BY <1>0, <1>3, TotalFact DEF NumberedInv, Init
<1> QED BY <1>1, <1>4, <1>6, <1>7, <1>8, <1>9 DEF IInv

\* The invariant speaks of the variables only.
LEMMA StutterInv == IInv /\ UNCHANGED vars => IInv'
<1> SUFFICES ASSUME IInv, UNCHANGED vars PROVE IInv'
  OBVIOUS
<1> USE DEF vars, sync, bufs, provider, writer
<1>1. TypeOK'
  BY DEF IInv, TypeOK
<1>2. MutexInv' /\ EofInv' /\ ErrorInv'
  BY DEF IInv, MutexInv, EofInv, ErrorInv
<1>3. InHand' = InHand /\ Filling' = Filling /\ Emptying' = Emptying
  BY DEF InHand, Filling, Emptying
<1>4. TurnInv' /\ EmptyInv'
  BY <1>3 DEF IInv, TurnInv, EmptyInv, Holding
<1>5. Reached' = Reached
  BY <1>3 DEF Reached, Left
<1>6. ~error' => StreamInv'
  BY <1>3, <1>5 DEF IInv, StreamInv, WriterInv, HoldsFrom
<1>7. PagesInPlace'
  BY DEF IInv, PagesInPlace
<1>8. NumberedInv'
  BY DEF IInv, NumberedInv
<1> QED BY <1>1, <1>2, <1>4, <1>6, <1>7, <1>8 DEF IInv

\* Every step keeps the invariant.
LEMMA NextInv == IInv /\ [Next]_vars => IInv'
<1> SUFFICES ASSUME IInv, Next PROVE IInv'
  BY StutterInv
<1>1. CASE ProviderNext
  BY <1>1, WalkFullInv, WalkPageInv, WalkEndInv, ToggleEnterInv, ToggleTestInv,
     WakeInv, ToggleEndInv, ReturnInv
     DEF ProviderNext, Threads
<1>2. CASE WriterNext
  BY <1>2, WriterStartInv, WriterTestInv, WakeInv, WriteInv, WriteFailInv,
     WriteDoneInv, WriteTailInv, ReturnBufferInv
     DEF WriterNext, Threads
<1>3. CASE SpuriousWake
  BY <1>3, SpuriousWakeInv
<1> QED BY <1>1, <1>2, <1>3 DEF Next

\* The invariant holds of every behaviour.
THEOREM Invariant == Spec => []IInv
<1>1. Init => IInv
  BY InitInv
<1>2. IInv /\ [Next]_vars => IInv'
  BY NextInv
<1> QED BY <1>1, <1>2, PTL DEF Spec

\* The values of the variables.
THEOREM TypeCorrect == Spec => []TypeOK
<1>1. IInv => TypeOK
  BY DEF IInv
<1> QED BY <1>1, Invariant, PTL

\* Every page of the copy is written at the place its number names, and no page is
\* missing or written twice (mdb_env_copyfd1, mdb_env_cwalk, mdb_env_copythr).
THEOREM PagesLandInPlace == Spec => []PagesInPlace
<1>1. IInv => PagesInPlace
  BY DEF IInv
<1> QED BY <1>1, Invariant, PTL

\* When the copy returns without an error both buffers are empty.
LEMMA ResultFact == IInv => ResultIsTrue
<1> SUFFICES ASSUME IInv, pc[Provider] = "returned"
             PROVE  rc = failed /\ (~rc => Len(out) = LastPages)
  BY DEF ResultIsTrue
<1>1. TypeOK /\ EOF = 16 /\ Len(out) \in Nat
  BY Values DEF IInv
<1>2. pc[Writer] = "ended" /\ rc = error /\ error = failed
  BY DEF IInv, ErrorInv
<1>3. InHand = 0 /\ ~Filling /\ ~Emptying
  BY <1>1, <1>2 DEF IInv, EofInv, InHand, Filling, Emptying
<1>4.
      /\ wlen[wtoggle] = 0 /\ olen[wtoggle] = 0 /\ wlen[1 - wtoggle] = 0
      /\ olen[1 - wtoggle] = 0
  BY <1>3 DEF IInv, EmptyInv, Holding
<1>5. ASSUME ~error PROVE Len(out) = LastPages
  <2>1. item = Len(Items) + 1
    <3>1. item > Len(Items) /\ item \in 1..Len(Items) + 1
      BY <1>5 DEF IInv, EofInv, TypeOK
    <3> QED BY <3>1, ConstantsAssumption DEF ConstantsAssumption
  <2>2. nextPgno = Reached + 0 + 0
    BY <1>4, <1>5 DEF IInv, StreamInv
  <2>3. Reached = Len(out) + (0 + 0)
    BY <1>3, <1>4 DEF Reached, Left
  <2>4. nextPgno = Len(out)
    BY <1>1, <2>2, <2>3
  <2>5. item - 1 = Len(Items)
    BY <2>1, ConstantsAssumption DEF ConstantsAssumption
  <2> QED BY <2>4, <2>5 DEF IInv, NumberedInv, LastPages
<1> QED BY <1>2, <1>5

\* mdb_env_copyfd1 returns an error if and only if something failed, and otherwise
\* the whole copy has been written.
THEOREM ResultHolds == Spec => []ResultIsTrue
BY Invariant, ResultFact, PTL

\* The buffers handed over are the InHand buffers from the writer's on.
LEMMA HandedFact ==
  ASSUME NEW w \in {0, 1}, NEW n \in {0, 1, 2, 16, 17, 18}
  PROVE  LET h == {(w + i) % 2 : i \in 0..(n % 16) - 1}
         IN  /\ n \in {0, 16} => h = {}
             /\ n \in {1, 17} => h = {w}
<1>1. CASE n \in {0, 16}
  <2>1. n % 16 = 0
    BY <1>1
  <2>2. 0..(n % 16) - 1 = {}
    BY <2>1
  <2> QED BY <1>1, <2>2
<1>2. CASE n \in {1, 17}
  <2>1. n % 16 = 1
    BY <1>2
  <2>2. 0..(n % 16) - 1 = {0}
    BY <2>1
  <2>3. (w + 0) % 2 = w
    OBVIOUS
  <2> QED BY <1>2, <2>2, <2>3
<1>3. CASE n \in {2, 18}
  BY <1>3
<1> QED BY <1>1, <1>2, <1>3

\* What the provider fills, and the writer has given back, is not handed over.
LEMMA OwnBuffers ==
  ASSUME IInv
  PROVE  /\ Handed \subseteq {wtoggle, 1 - wtoggle}
         /\ Filling => ptoggle \notin Handed
<1>1. /\ TypeOK /\ wtoggle \in {0, 1} /\ EOF = 16 /\ new \in {0, 1, 2, 16, 17, 18}
      /\ InHand = IF new >= 16 THEN new - 16 ELSE new
  BY Values DEF IInv, InHand
<1>2. \A i \in Nat : (wtoggle + i) % 2 \in {0, 1}
  BY <1>1
<1>3. Handed \subseteq {wtoggle, 1 - wtoggle}
  BY <1>1, <1>2 DEF Handed
<1>4. ASSUME Filling PROVE ptoggle \notin Handed
  <2>1. InHand \in {0, 1} /\ ptoggle = IF InHand = 1 THEN 1 - wtoggle ELSE wtoggle
    BY <1>1, <1>4 DEF IInv, TurnInv, Filling
  <2>2. Handed = {(wtoggle + i) % 2 : i \in 0..(new % 16) - 1}
    BY <1>1 DEF Handed
  <2>3. CASE InHand = 0
    <3>1. new \in {0, 16}
      BY <1>1, <2>3
    <3> QED BY <1>1, <2>2, <3>1, HandedFact
  <2>4. CASE InHand = 1
    <3>1. new \in {1, 17}
      BY <1>1, <2>4
    <3> QED BY <1>1, <2>1, <2>2, <2>4, <3>1, HandedFact
  <2> QED BY <2>1, <2>3, <2>4
<1> QED BY <1>3, <1>4

\* The buffer the provider takes is empty already.
LEMMA TakenIsEmpty == ASSUME IInv, ToggleEnd PROVE wlen' = wlen
<1>1. TypeOK /\ wtoggle \in {0, 1} /\ ptoggle \in {0, 1} /\ InHand \in 0..2
  BY Values DEF IInv
<1>2.
      /\ ptoggle' = 1 - ptoggle /\ pc[Provider] = "toggled"
      /\ wlen' = [wlen EXCEPT ![ptoggle'] = 0]
  <2>1. adjust \in {1, 17} /\ ptoggle' = (ptoggle + adjust) % 2
    BY Values DEF ToggleEnd, IInv, EofInv
  <2> QED BY <1>1, <2>1 DEF ToggleEnd
<1>3. wlen[1 - ptoggle] = 0
  BY <1>1, <1>2 DEF IInv, TurnInv, EmptyInv, Holding, Filling
<1> QED BY <1>1, <1>2, <1>3 DEF TypeOK, Bufs

\* No step touches a buffer that is handed over.
LEMMA HandedStep ==
  ASSUME IInv, Next
  PROVE  \A b \in Handed :
           UNCHANGED <<mem[b], over[b]>> /\ (wlen'[b] # wlen[b] => b \notin Handed')
<1>1. TypeOK /\ wtoggle \in {0, 1} /\ ptoggle \in {0, 1}
  BY Values DEF IInv
<1>2. CASE UNCHANGED <<mem, over, wlen>>
  BY <1>2
<1>3. CASE WalkPage
  <2>1. ptoggle \notin Handed
    BY <1>3, OwnBuffers DEF WalkPage, Filling
  <2>2. ASSUME NEW b \in Handed
          PROVE mem'[b] = mem[b] /\ over'[b] = over[b] /\ wlen'[b] = wlen[b]
    <3>1. b \in Bufs /\ b # ptoggle
      BY <1>1, <2>1, OwnBuffers DEF Bufs
    <3>2.
          /\ mem \in [Bufs -> [0..Cap-1 -> Nat]] /\ wlen \in [Bufs -> 0..Cap]
          /\ over \in [Bufs -> Nat]
      BY <1>1 DEF TypeOK
    <3> QED BY <1>3, <3>1, <3>2 DEF WalkPage
  <2> QED BY <2>2
<1>4. CASE ToggleEnd
  BY <1>4, TakenIsEmpty DEF ToggleEnd
<1>5. CASE ReturnBuffer
  <2>1. mem' = mem /\ over' = over /\ wlen' = [wlen EXCEPT ![wtoggle] = 0]
    BY <1>5 DEF ReturnBuffer
  <2>2. ASSUME NEW b \in Handed, wlen'[b] # wlen[b] PROVE b = wtoggle
    <3>1. b \in Bufs
      BY <1>1, OwnBuffers DEF Bufs
    <3> QED BY <1>1, <2>1, <2>2, <3>1 DEF TypeOK
  <2>3. wtoggle \notin Handed'
    <3>1. /\ wtoggle' = 1 - wtoggle /\ new' = new - 1
          /\ new \in {1, 2, 17, 18} /\ InHand \in {1, 2} /\ EOF = 16
      <4>1. new \in {0, 1, 2, 16, 17, 18} /\ EOF = 16 /\ InHand >= 1
        BY <1>5, Values DEF IInv, TurnInv, Emptying, ReturnBuffer
      <4> QED BY <1>5, <4>1 DEF ReturnBuffer, InHand
    <3>2. Handed' = {(wtoggle' + i) % 2 : i \in 0..(new' % 16) - 1}
      BY <3>1 DEF Handed
    <3>3. wtoggle' \in {0, 1} /\ new' \in {0, 1, 16, 17} /\ wtoggle # wtoggle'
      BY <1>1, <3>1
    <3>4. CASE new' \in {0, 16}
      BY <3>2, <3>3, <3>4, HandedFact
    <3>5. CASE new' \in {1, 17}
      BY <3>2, <3>3, <3>5, HandedFact
    <3> QED BY <3>3, <3>4, <3>5
  <2> QED BY <2>1, <2>2, <2>3
<1>6. WalkPage \/ ToggleEnd \/ ReturnBuffer \/ UNCHANGED <<mem, over, wlen>>
  <2> USE DEF bufs
  <2>1. CASE ProviderNext
    BY <2>1
       DEF ProviderNext, WalkFull, WalkEnd, ToggleEnter, ToggleTest, Wake, Return
  <2>2. CASE WriterNext
    BY <2>2
       DEF WriterNext, WriterStart, WriterTest, Wake, Write, WriteFail, WriteDone,
       WriteTail
  <2>3. CASE SpuriousWake
    BY <2>3 DEF SpuriousWake
  <2> QED BY <2>1, <2>2, <2>3 DEF Next
<1> QED BY <1>2, <1>3, <1>4, <1>5, <1>6

\* A buffer that was handed over with mdb_env_cthr_toggle is not touched before the
\* writer gives it back.
THEOREM BuffersAreLeftAlone == Spec => HandedUntouched
<1>1. IInv /\ [Next]_vars => [\A b \in Handed :
        UNCHANGED <<mem[b], over[b]>> /\ (wlen'[b] # wlen[b] => b \notin Handed')]_vars
  BY HandedStep
<1> QED BY <1>1, Invariant, PTL DEF Spec, HandedUntouched

=============================================================================
