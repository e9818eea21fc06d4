----------------------------- MODULE RingBuffer -----------------------------
(***************************************************************************)
(* The ring buffer as internal/keeper/ring.go implements it: a circular    *)
(* array with the index of the oldest entry and the number of entries.     *)
(* Module RingLog is what it promises, and the operators of module Ring,   *)
(* with which module Keeper is written, are its methods.                   *)
(***************************************************************************)
EXTENDS Integers, Sequences

CONSTANTS
  Cap,   \* capacity; newRing replaces one that is not positive by 4096
  MaxSeq \* bound: entries ever pushed

ASSUME RingBufferAssumption == Cap \in Nat \ {0} /\ MaxSeq \in Nat

VARIABLES
  buf,     \* ring.buf
  start,   \* ring.start, index of the oldest entry
  len,     \* ring.len
  dropped, \* ring.dropped
  pushed,  \* history: entries ever pushed, which is the last one's seq
  seen     \* history: the newest seq any call of since returned

vars == <<buf, start, len, dropped, pushed, seen>>

Lines == [seq : 1 .. MaxSeq]

\* make([]Entry, capacity)
Zero == [seq |-> 0]

Init ==
  /\ buf = [i \in 0 .. Cap - 1 |-> Zero]
  /\ start = 0
  /\ len = 0
  /\ dropped = 0
  /\ pushed = 0
  /\ seen = 0

\* The array index of the entry i places after the oldest one.
Slot(i) == (start + i) % Cap

-----------------------------------------------------------------------------

\* push, when there is room ...
PushRoom(e) ==
  /\ len # Cap
  /\ buf' = [buf EXCEPT ![Slot(len)] = e]
  /\ len' = len + 1
  /\ UNCHANGED <<start, dropped>>

\* Mutant: the slot is computed before start moves.
PushEvictOldStart(e) ==
  /\ len = Cap
  /\ start' = (start + 1) % Cap
  /\ dropped' = dropped + 1
  /\ buf' = [buf EXCEPT ![(start + len - 1) % Cap] = e]
  /\ UNCHANGED len

\* ... and when the oldest entry has to go.
PushEvict(e) ==
  /\ len = Cap
  /\ start' = (start + 1) % Cap
  /\ dropped' = dropped + 1
  /\ buf' = [buf EXCEPT ![(start' + len - 1) % Cap] = e]
  /\ UNCHANGED len

\* Keeper's readLoop pushes lines in the order of their seqs.
push ==
  LET e == [seq |-> pushed + 1] IN
  /\ pushed < MaxSeq
  /\ PushRoom(e) \/ PushEvict(e)
  /\ pushed' = pushed + 1
  /\ UNCHANGED seen

\* Mutant: off by one at the watermark just before the oldest entry.
sinceStrict(after) ==
  len = 0 \/ ~(after < buf[start].seq /\ after # 0)

\* since's second result.
sinceOK(after) ==
  len = 0 \/ ~(after + 1 < buf[start].seq /\ after # 0)

\* since's first result.
since(after) ==
  SelectSeq([i \in 1 .. len |-> buf[Slot(i - 1)]], LAMBDA e : e.seq > after)

lastSeq == IF len = 0 THEN 0 ELSE buf[Slot(len - 1)].seq

\* A consumer reads the ring.
Read(after) ==
  /\ sinceOK(after)
  /\ since(after) # <<>>
  /\ seen' = IF lastSeq > seen THEN lastSeq ELSE seen
  /\ UNCHANGED <<buf, start, len, dropped, pushed>>

Next == push \/ \E a \in 0 .. MaxSeq : Read(a)

Spec == Init /\ [][Next]_vars

-----------------------------------------------------------------------------
(* Properties.                                                             *)

\* The retained entries, oldest first.
Contents == [i \in 1 .. len |-> buf[Slot(i - 1)]]

Abs == INSTANCE RingLog WITH contents <- Contents, lost <- dropped

\* The circular array implements the bounded log: every push of the code,
\* wherever start stands in the array, is a push of the log.
ImplementsLog == Abs!Spec

\* Every variable has its type.
TypeOK ==
  /\ buf \in [0 .. Cap - 1 -> [seq : 0 .. MaxSeq]]
  /\ start \in 0 .. Cap - 1
  /\ len \in 0 .. Cap
  /\ dropped \in Nat
  /\ pushed \in 0 .. MaxSeq
  /\ seen \in 0 .. MaxSeq

\* The array holds exactly the newest entries, in order and without a hole;
\* every other entry is counted as dropped, and none is while there is room.
RetainsNewest ==
  /\ dropped + len = pushed
  /\ dropped > 0 => len = Cap
  /\ \A i \in 0 .. len - 1 : buf[Slot(i)].seq = dropped + 1 + i

\* since reports a gap exactly when an entry the caller has not seen is gone
\* (a watermark of 0, "everything retained", never reports one): the boundary
\* afterSeq+1 == oldest is not a gap.  lastSeq is the newest entry's seq.
GapExact ==
  /\ \A a \in 0 .. MaxSeq : sinceOK(a) <=> (a = 0 \/ a >= dropped)
  /\ lastSeq = pushed

\* What since returns is all of the retained entries after the watermark, in
\* order, wherever the array wraps.
SinceExact ==
  \A a \in 0 .. MaxSeq : sinceOK(a) =>
    LET first == IF a >= dropped THEN a + 1 ELSE dropped + 1 IN
    since(a) = [i \in 1 .. pushed - first + 1 |-> [seq |-> first + i - 1]]

\* ring.go:52 says that dropped counts "entries evicted before any consumer
\* existed to read them", and ring.go:118-119 that it counts entries "evicted
\* before ever being read via since".
DroppedOnlyUnread == [][dropped' > dropped => buf[start].seq > seen]_vars
=============================================================================
