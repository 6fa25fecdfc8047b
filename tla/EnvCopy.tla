------------------------------- MODULE EnvCopy -------------------------------
(***************************************************************************)
(* The double-buffered compacting copy: mdb_env_copyfd1 walks the database *)
(* and fills two buffers in turn, mdb_env_copythr writes them out.         *)
(*                                                                         *)
(* The walk is abstracted to the list of its pages in the order it emits   *)
(* them.  A page of the output is named by the number it was given, so a   *)
(* correct file holds 0, 1, 2, ... in this order.                          *)
(***************************************************************************)
EXTENDS Integers, Sequences

CONSTANTS
  Items,     \* what the walk emits: 1 for a page, n > 1 for an overflow chain
  Cap,       \* MDB_WBUF in pages
  Failures,  \* write() and the walk may fail
  MaxSpurious  \* bound: returns of pthread_cond_wait without a signal

NumMetas == 2
EOF == 16    \* MDB_EOF
Provider == "provider"
Writer == "writer"
Free == "free"
Threads == {Provider, Writer}
Bufs == {0, 1}

(***************************************************************************)
(* A buffer always has room for the two meta pages.                        *)
(***************************************************************************)
ASSUME ConstantsAssumption ==
  /\ Items \in Seq(Nat \ {0})
  /\ Cap \in Nat /\ Cap >= NumMetas
  /\ Failures \in BOOLEAN /\ MaxSpurious \in Nat

Total[n \in 0..Len(Items)] ==
  IF n = 0 THEN NumMetas ELSE Total[n - 1] + Items[n]
LastPages == Total[Len(Items)]

VARIABLES
  mutex,     \* mc_mutex: its owner
  asleep,    \* the threads waiting for mc_cond
  new,       \* mc_new
  mem,       \* mc_wbuf[]: the pages in each buffer
  wlen,      \* mc_wlen[], in pages
  over,      \* mc_over[]: the first page of the tail
  olen,      \* mc_olen[], in pages
  error,     \* mc_error # 0
  pc,        \* where each thread is
  item,      \* the next item of the walk
  nextPgno,  \* mc_next_pgno
  ptoggle,   \* mc_toggle
  adjust,    \* the argument of mdb_env_cthr_toggle
  wtoggle, src, ptr, wsize,   \* locals of mdb_env_copythr
  out,       \* the output file
  spurious,  \* wakeups without a signal so far
  failed,    \* observation: a write or the walk failed
  rc         \* the result of mdb_env_copyfd1 # 0

sync     == <<mutex, asleep, new, spurious>>
bufs     == <<mem, wlen, over, olen>>
provider == <<item, nextPgno, ptoggle, adjust, rc>>
writer   == <<wtoggle, src, ptr, wsize, out>>
vars == <<sync, bufs, error, pc, provider, writer, failed>>

(***************************************************************************)
(* copyfd1 starts the thread, then fills in the meta pages.                *)
(***************************************************************************)
Init ==
  /\ mutex = Free /\ asleep = {} /\ new = 0 /\ spurious = 0
  /\ mem = [b \in Bufs |-> [i \in 0..Cap-1 |-> i]]
  /\ wlen = [b \in Bufs |-> IF b = 0 THEN NumMetas ELSE 0]
  /\ over = [b \in Bufs |-> 0] /\ olen = [b \in Bufs |-> 0]
  /\ error = FALSE
  /\ pc = [t \in Threads |-> IF t = Provider THEN "walk" ELSE "start"]
  /\ item = 1 /\ nextPgno = NumMetas /\ ptoggle = 0 /\ adjust = 0
  /\ wtoggle = 0 /\ src = "buf" /\ ptr = 0 /\ wsize = 0
  /\ out = <<>> /\ failed = FALSE /\ rc = FALSE

Goto(t, label) == pc' = [pc EXCEPT ![t] = label]

\* pthread_cond_signal wakes one waiting thread, if there is one
Signal ==
  \/ asleep = {} /\ UNCHANGED asleep
  \/ \E t \in asleep : asleep' = asleep \ {t}

\* pthread_cond_wait gives up the mutex and sleeps ...
CondWait(t) ==
  /\ mutex' = Free /\ asleep' = asleep \cup {t} /\ Goto(t, "wait")

\* ... and takes the mutex again once it has been woken
Wake(t) ==
  /\ pc[t] = "wait" /\ t \notin asleep /\ mutex = Free
  /\ mutex' = t /\ Goto(t, "test")
  /\ UNCHANGED <<asleep, new, spurious, bufs, error, provider, writer, failed>>

SpuriousWake ==
  /\ spurious < MaxSpurious /\ spurious' = spurious + 1
  /\ \E t \in asleep : asleep' = asleep \ {t}
  /\ UNCHANGED <<mutex, new, bufs, error, pc, provider, writer, failed>>

-----------------------------------------------------------------------------
(* The provider: mdb_env_cwalk, mdb_env_cthr_toggle, mdb_env_copyfd1       *)

Full == wlen[ptoggle] >= Cap

\* hand the full buffer off before the next page
WalkFull ==
  /\ pc[Provider] = "walk" /\ item <= Len(Items) /\ Full
  /\ adjust' = 1 /\ Goto(Provider, "toggle")
  /\ UNCHANGED <<sync, bufs, error, item, nextPgno, ptoggle, rc, writer, failed>>

\* mutant: the tail waits for the buffer to fill up
WalkPageChained ==
  /\ pc[Provider] = "walk" /\ item <= Len(Items) /\ ~Full
  /\ mem' = [mem EXCEPT ![ptoggle][wlen[ptoggle]] = nextPgno]
  /\ wlen' = [wlen EXCEPT ![ptoggle] = @ + 1]
  /\ nextPgno' = nextPgno + Items[item]
  /\ item' = item + 1
  /\ \/ Items[item] = 1 /\ UNCHANGED <<over, olen>>
     \/ /\ Items[item] > 1
        /\ over' = [over EXCEPT ![ptoggle] = nextPgno + 1]
        /\ olen' = [olen EXCEPT ![ptoggle] = Items[item] - 1]
  /\ UNCHANGED <<sync, error, pc, ptoggle, adjust, rc, writer, failed>>

\* copy the page, or the first page of a chain whose tail stays in the map
WalkPage ==
  /\ pc[Provider] = "walk" /\ item <= Len(Items) /\ ~Full
  /\ mem' = [mem EXCEPT ![ptoggle][wlen[ptoggle]] = nextPgno]
  /\ wlen' = [wlen EXCEPT ![ptoggle] = @ + 1]
  /\ nextPgno' = nextPgno + Items[item]
  /\ item' = item + 1
  /\ \/ /\ Items[item] = 1
        /\ UNCHANGED <<over, olen, adjust, pc>>
     \/ /\ Items[item] > 1
        /\ over' = [over EXCEPT ![ptoggle] = nextPgno + 1]
        /\ olen' = [olen EXCEPT ![ptoggle] = Items[item] - 1]
        /\ adjust' = 1 /\ Goto(Provider, "toggle")
  /\ UNCHANGED <<sync, error, ptoggle, rc, writer, failed>>

\* cwalk returned: 0 at the end, or an error of mdb_page_get, the interrupt
\* flag, or a page count that does not match new_root
WalkEnd ==
  /\ pc[Provider] = "walk"
  /\ \/ item > Len(Items) /\ UNCHANGED <<error, failed>>
     \/ Failures /\ error' = TRUE /\ failed' = TRUE
  /\ adjust' = 1 + EOF /\ Goto(Provider, "toggle")
  /\ UNCHANGED <<sync, bufs, item, nextPgno, ptoggle, rc, writer>>

ToggleEnter ==
  /\ pc[Provider] = "toggle" /\ mutex = Free
  /\ mutex' = Provider /\ new' = new + adjust
  /\ Signal /\ Goto(Provider, "test")
  /\ UNCHANGED <<spurious, bufs, error, provider, writer, failed>>

BothInUse == (new \div 2) % 2 = 1   \* mc_new & 2

\* mutant: the provider does not wait for an unused buffer
ToggleTestNoWait ==
  /\ pc[Provider] = "test"
  /\ mutex' = Free /\ Goto(Provider, "toggled") /\ UNCHANGED asleep
  /\ UNCHANGED <<new, spurious, bufs, error, provider, writer, failed>>

ToggleTest ==
  /\ pc[Provider] = "test"
  /\ \/ BothInUse /\ CondWait(Provider)
     \/ ~BothInUse /\ mutex' = Free /\ Goto(Provider, "toggled") /\ UNCHANGED asleep
  /\ UNCHANGED <<new, spurious, bufs, error, provider, writer, failed>>

\* the other buffer becomes the provider's; a failed copy ends the walk
ToggleEnd ==
  /\ pc[Provider] = "toggled"
  /\ ptoggle' = (ptoggle + adjust) % 2
  /\ wlen' = [wlen EXCEPT ![ptoggle'] = 0]
  /\ \/ adjust > EOF /\ Goto(Provider, "join") /\ UNCHANGED adjust
     \/ adjust = 1 /\ ~error /\ Goto(Provider, "walk") /\ UNCHANGED adjust
     \/ adjust = 1 /\ error /\ adjust' = 1 + EOF /\ Goto(Provider, "toggle")
  /\ UNCHANGED <<sync, mem, over, olen, error, item, nextPgno, rc, writer, failed>>

\* THREAD_FINISH waits for the writer
Return ==
  /\ pc[Provider] = "join" /\ pc[Writer] = "ended"
  /\ rc' = error /\ Goto(Provider, "returned")
  /\ UNCHANGED <<sync, bufs, error, item, nextPgno, ptoggle, adjust, writer, failed>>

-----------------------------------------------------------------------------
(* The writer thread: mdb_env_copythr.  It holds mc_mutex while it writes. *)

WriterStart ==
  /\ pc[Writer] = "start" /\ mutex = Free
  /\ mutex' = Writer /\ Goto(Writer, "test")
  /\ UNCHANGED <<asleep, new, spurious, bufs, error, provider, writer, failed>>

WriterTest ==
  /\ pc[Writer] = "test"
  /\ \/ new = 0 /\ CondWait(Writer) /\ UNCHANGED <<src, ptr, wsize>>
     \/ /\ new = EOF
        /\ mutex' = Free /\ Goto(Writer, "ended") /\ UNCHANGED <<asleep, src, ptr, wsize>>
     \/ /\ new \notin {0, EOF}
        /\ src' = "buf" /\ ptr' = 0 /\ wsize' = wlen[wtoggle]
        /\ Goto(Writer, "write") /\ UNCHANGED <<mutex, asleep>>
  /\ UNCHANGED <<new, spurious, bufs, error, provider, wtoggle, out, failed>>

Page(i) == IF src = "buf" THEN mem[wtoggle][i] ELSE over[wtoggle] + i

\* write() takes some of the pages
Write ==
  /\ pc[Writer] = "write" /\ wsize > 0 /\ ~error
  /\ \E len \in 1..wsize :
       /\ out' = out \o [i \in 1..len |-> Page(ptr + i - 1)]
       /\ ptr' = ptr + len /\ wsize' = wsize - len
  /\ UNCHANGED <<sync, bufs, error, pc, provider, wtoggle, src, failed>>

\* mutant: the error of the write is not kept
WriteFailForgotten ==
  /\ Failures
  /\ pc[Writer] = "write" /\ wsize > 0 /\ ~error
  /\ failed' = TRUE /\ Goto(Writer, "tail")
  /\ UNCHANGED <<sync, bufs, error, provider, writer>>

\* write() fails or takes nothing
WriteFail ==
  /\ Failures
  /\ pc[Writer] = "write" /\ wsize > 0 /\ ~error
  /\ error' = TRUE /\ failed' = TRUE /\ Goto(Writer, "tail")
  /\ UNCHANGED <<sync, bufs, provider, writer>>

WriteDone ==
  /\ pc[Writer] = "write" /\ (wsize = 0 \/ error)
  /\ Goto(Writer, "tail")
  /\ UNCHANGED <<sync, bufs, error, provider, writer, failed>>

WriteTail ==
  /\ pc[Writer] = "tail" /\ olen[wtoggle] > 0
  /\ src' = "over" /\ ptr' = 0 /\ wsize' = olen[wtoggle]
  /\ olen' = [olen EXCEPT ![wtoggle] = 0]
  /\ Goto(Writer, "write")
  /\ UNCHANGED <<sync, mem, wlen, over, error, provider, wtoggle, out, failed>>

\* mutant: no pthread_cond_signal
ReturnBufferSilently ==
  /\ pc[Writer] = "tail" /\ olen[wtoggle] = 0
  /\ wlen' = [wlen EXCEPT ![wtoggle] = 0]
  /\ wtoggle' = 1 - wtoggle
  /\ new' = new - 1 /\ Goto(Writer, "test")
  /\ UNCHANGED <<mutex, asleep, spurious, mem, over, olen, error, provider, src, ptr, wsize, out, failed>>

\* return the empty buffer to the provider
ReturnBuffer ==
  /\ pc[Writer] = "tail" /\ olen[wtoggle] = 0
  /\ wlen' = [wlen EXCEPT ![wtoggle] = 0]
  /\ wtoggle' = 1 - wtoggle
  /\ new' = new - 1 /\ Signal /\ Goto(Writer, "test")
  /\ UNCHANGED <<mutex, spurious, mem, over, olen, error, provider, src, ptr, wsize, out, failed>>

-----------------------------------------------------------------------------
ProviderNext ==
  \/ WalkFull \/ WalkPage \/ WalkEnd
  \/ ToggleEnter \/ ToggleTest \/ Wake(Provider) \/ ToggleEnd \/ Return

WriterNext ==
  \/ WriterStart \/ WriterTest \/ Wake(Writer)
  \/ Write \/ WriteFail \/ WriteDone \/ WriteTail \/ ReturnBuffer

\* the copy is over
Done == pc[Provider] = "returned" /\ pc[Writer] = "ended"

Next == ProviderNext \/ WriterNext \/ SpuriousWake

\* the scheduler runs both threads, and spurious wakeups come to an end
Spec == Init /\ [][Next]_vars /\ WF_vars(ProviderNext) /\ WF_vars(WriterNext)

-----------------------------------------------------------------------------
(* Properties *)

ProviderAt == {"walk", "toggle", "test", "wait", "toggled", "join", "returned"}
WriterAt == {"start", "test", "wait", "write", "tail", "ended"}

TypeOK ==
  /\ mutex \in Threads \cup {Free} /\ asleep \in SUBSET Threads
  /\ new \in (0..2) \cup (EOF..EOF + 2) /\ spurious \in 0..MaxSpurious
  /\ mem \in [Bufs -> [0..Cap-1 -> Nat]] /\ wlen \in [Bufs -> 0..Cap]
  /\ over \in [Bufs -> Nat] /\ olen \in [Bufs -> Nat]
  /\ error \in BOOLEAN /\ failed \in BOOLEAN /\ rc \in BOOLEAN
  /\ pc \in [Threads -> ProviderAt \cup WriterAt]
  /\ pc[Provider] \in ProviderAt /\ pc[Writer] \in WriterAt
  /\ item \in 1..Len(Items) + 1 /\ nextPgno \in Nat
  /\ ptoggle \in Bufs /\ adjust \in {0, 1, 1 + EOF}
  /\ wtoggle \in Bufs /\ src \in {"buf", "over"} /\ ptr \in Nat /\ wsize \in Nat
  /\ out \in Seq(Nat)

(***************************************************************************)
(* Every page lands at the offset of the number it was given, at every     *)
(* moment and whatever fails: the writer never writes a buffer the         *)
(* provider is refilling, writes no buffer twice, and puts each overflow   *)
(* tail right behind its first page, where cwalk left room for it.         *)
(***************************************************************************)
PagesInPlace == \A i \in 1..Len(out) : out[i] = i - 1

\* mdb_env_copyfd1 returns an error exactly if a write or the walk failed:
\* no failure is lost in the hand-off, and 0 means that the copy is complete
ResultIsTrue ==
  pc[Provider] = "returned" =>
    /\ rc = failed
    /\ ~rc => Len(out) = LastPages

\* the buffers the provider handed over and did not get back
Handed == {(wtoggle + i) % 2 : i \in 0..(new % EOF) - 1}

(***************************************************************************)
(* A buffer in the writer's hands is not filled, and its length changes    *)
(* only as the writer gives it back: the second reset of mc_wlen, in       *)
(* mdb_env_cthr_toggle, never clears a buffer not yet written.             *)
(***************************************************************************)
HandedUntouched ==
  [][\A b \in Handed :
        UNCHANGED <<mem[b], over[b]>> /\ (wlen'[b] # wlen[b] => b \notin Handed')]_vars

\* neither thread waits for the other for ever: the copy returns
CopyEnds == <>Done

-----------------------------------------------------------------------------
(* The inductive invariant: why every page lands in its place              *)

MutexInv ==
  /\ mutex = Provider <=> pc[Provider] = "test"
  /\ mutex = Writer <=> pc[Writer] \in {"test", "write", "tail"}
  /\ \A t \in asleep : pc[t] = "wait"

\* The number of buffers the provider handed over and did not get back.
InHand == IF new >= EOF THEN new - EOF ELSE new

\* The provider has a buffer of its own, which it fills ...
Filling == pc[Provider] \in {"walk", "toggle"}
\* ... and the writer is in the middle of one.
Emptying == pc[Writer] \in {"write", "tail"}

\* The two threads take the buffers in turn.
TurnInv ==
  /\ Filling \/ pc[Provider] \in {"join", "returned"} =>
       ptoggle = IF InHand = 1 THEN 1 - wtoggle ELSE wtoggle
  /\ pc[Provider] \in {"test", "wait", "toggled"} =>
       ptoggle = IF InHand = 1 THEN wtoggle ELSE 1 - wtoggle
  /\ pc[Provider] \notin {"test", "wait"} => InHand <= 1
  /\ Emptying => InHand >= 1

\* MDB_EOF comes with the last buffer; without an error the walk is over then.
EofInv ==
  /\ new >= EOF <=> pc[Provider] \notin {"walk", "toggle"} /\ adjust = 1 + EOF
  /\ pc[Provider] \in {"toggle", "test", "wait", "toggled"} => adjust \in {1, 1 + EOF}
  /\ pc[Provider] \in {"join", "returned"} => adjust = 1 + EOF
  /\ pc[Provider] = "walk" => adjust # 1 + EOF
  /\ adjust = 1 + EOF /\ ~error => item > Len(Items)
  /\ pc[Writer] = "ended" => new = EOF

ErrorInv ==
  /\ error = failed
  /\ pc[Provider] = "returned" => pc[Writer] = "ended" /\ rc = error

\* The buffers that hold something: those handed over, then the provider's.
Holding == InHand + (IF Filling THEN 1 ELSE 0)

\* The others are empty.
EmptyInv ==
  /\ Holding <= 1 => wlen[1 - wtoggle] = 0 /\ olen[1 - wtoggle] = 0
  /\ Holding = 0 => wlen[wtoggle] = 0 /\ olen[wtoggle] = 0
  /\ pc[Provider] = "walk" => olen[ptoggle] = 0

\* Buffer b holds the pages from s on.
HoldsFrom(b, s) ==
  /\ \A i \in 0..wlen[b] - 1 : mem[b][i] = s + i
  /\ olen[b] > 0 => over[b] = s + wlen[b]

\* What the writer has to write of its buffer, and the page after it.
Left == IF Emptying THEN wsize + olen[wtoggle] ELSE wlen[wtoggle] + olen[wtoggle]
Reached == Len(out) + Left

WriterInv ==
  /\ ~Emptying => HoldsFrom(wtoggle, Len(out))
  /\ Emptying /\ src = "buf" =>
       /\ ptr + wsize = wlen[wtoggle] /\ ptr <= Len(out)
       /\ HoldsFrom(wtoggle, Len(out) - ptr)
  /\ Emptying /\ src = "over" =>
       /\ olen[wtoggle] = 0
       /\ wsize > 0 => over[wtoggle] + ptr = Len(out)
  /\ pc[Writer] = "tail" => wsize = 0

(***************************************************************************)
(* Until something fails the output, what is left of the writer's buffer   *)
(* and the other buffer are together the pages numbered so far.            *)
(***************************************************************************)
StreamInv ==
  /\ WriterInv
  /\ HoldsFrom(1 - wtoggle, Reached)
  /\ nextPgno = Reached + wlen[1 - wtoggle] + olen[1 - wtoggle]

\* The numbers given out are those of the pages walked so far.
NumberedInv == nextPgno = Total[item - 1]

IInv ==
  /\ TypeOK /\ MutexInv /\ TurnInv /\ EofInv /\ ErrorInv /\ EmptyInv
  /\ ~error => StreamInv
  /\ PagesInPlace /\ NumberedInv
=============================================================================
