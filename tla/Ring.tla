-------------------------------- MODULE Ring --------------------------------
(***************************************************************************)
(* The bounded line buffer of one network, internal/keeper/ring.go, as     *)
(* operators on its contents: the retained entries, oldest first.  An      *)
(* entry is any record with a field seq.  That the circular array of the   *)
(* code has these contents is the subject of module RingBuffer.            *)
(***************************************************************************)
EXTENDS Naturals, Sequences, FiniteSets

\* push evicts the oldest entry exactly when the buffer is full.
PushEvicts(r, cap) == Len(r) = cap

Push(r, cap, e) == Append(IF PushEvicts(r, cap) THEN Tail(r) ELSE r, e)

\* since's second result: FALSE when the watermark has fallen out of the
\* buffer.  Watermark 0 means "everything retained" and never fails.
SinceOK(r, after) == r = <<>> \/ after = 0 \/ after + 1 >= r[1].seq

\* since's first result, when SinceOK: the entries after the watermark, in their order.
Since(r, after) ==
  LET later == {i \in DOMAIN r : r[i].seq > after}
      place(i) == Cardinality({k \in later : k <= i})
  IN  [n \in 1 .. Cardinality(later) |-> r[CHOOSE i \in later : place(i) = n]]

LastSeq(r) == IF r = <<>> THEN 0 ELSE r[Len(r)].seq
=============================================================================
