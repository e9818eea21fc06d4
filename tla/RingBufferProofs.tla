-------------------------- MODULE RingBufferProofs --------------------------
(***************************************************************************)
(* Proofs about RingBuffer, for every capacity: the circular array keeps   *)
(* the newest entries in order, and so implements the bounded log.  The    *)
(* argument is arithmetic modulo the capacity: slots of different entries  *)
(* differ, and moving start by one renumbers them by one.                  *)
(***************************************************************************)
EXTENDS RingBuffer, TLAPS

\* Below the capacity the remainder is the number itself, above it the number
\* less the capacity.
LEMMA ModSmall ==
  ASSUME NEW m \in Nat \ {0}, NEW a \in 0 .. 2 * m - 1
  PROVE  /\ a % m \in 0 .. m - 1
         /\ a < m => a % m = a
         /\ a >= m => a % m = a - m
<1>1. CASE a < m
  BY <1>1
<1>2. CASE a >= m
  BY <1>2
<1> QED
  BY <1>1, <1>2

\* Different entries have different slots.
LEMMA ModInjective ==
  ASSUME NEW m \in Nat \ {0}, NEW s \in 0 .. m - 1, NEW i \in 0 .. m - 1,
         NEW j \in 0 .. m - 1, i # j
  PROVE  (s + i) % m # (s + j) % m
<1>1. s + i \in 0 .. 2 * m - 1 /\ s + j \in 0 .. 2 * m - 1
  OBVIOUS
<1>2. ASSUME NEW a \in 0 .. 2 * m - 1
      PROVE  a % m = a \/ a % m = a - m
  <2>1. a < m \/ a >= m
    OBVIOUS
  <2> QED
    BY <2>1, ModSmall
<1>3. (s + i) % m = s + i \/ (s + i) % m = s + i - m
  BY <1>1, <1>2
<1>4. (s + j) % m = s + j \/ (s + j) % m = s + j - m
  BY <1>1, <1>2
<1> QED
  BY <1>3, <1>4

\* The slot after start moves is the next one before it moved.
LEMMA ModShift ==
  ASSUME NEW m \in Nat \ {0}, NEW s \in 0 .. m - 1, NEW i \in Nat, i < m - 1
  PROVE  (((s + 1) % m) + i) % m = (s + (i + 1)) % m
<1>1. s + 1 \in 0 .. 2 * m - 1 /\ s + (i + 1) \in 0 .. 2 * m - 1
  OBVIOUS
<1>2. CASE s + 1 < m
  <2>1. (s + 1) % m = s + 1
    BY <1>1, <1>2, ModSmall
  <2> QED
    BY <2>1
<1>3. CASE s + 1 >= m
  <2>1. s = m - 1 /\ (s + 1) % m = 0
    BY <1>1, <1>3, ModSmall
  <2>2. (s + (i + 1)) % m = i
    BY <1>1, <2>1, ModSmall
  <2>3. i % m = i
    BY ModSmall
  <2> QED
    BY <2>1, <2>2, <2>3
<1> QED
  BY <1>2, <1>3

\* Slots are array indices.
LEMMA SlotType ==
  ASSUME TypeOK, NEW i \in 0 .. Cap - 1
  PROVE  Slot(i) \in 0 .. Cap - 1
<1>1. Cap \in Nat \ {0} /\ start + i \in 0 .. 2 * Cap - 1
  BY RingBufferAssumption DEF TypeOK
<1> QED
  BY <1>1, ModSmall DEF Slot
-----------------------------------------------------------------------------
RingInv == TypeOK /\ RetainsNewest

\* What a push does to the retained entries: the ones kept move with start,
\* and the new one is the last.
LEMMA PushRoomContents ==
  ASSUME TypeOK, NEW e \in Lines, PushRoom(e)
  PROVE  /\ buf' \in [0 .. Cap - 1 -> [seq : 0 .. MaxSeq]]
         /\ len' = len + 1 /\ len' \in 0 .. Cap
         /\ start' = start /\ dropped' = dropped
         /\ \A i \in 0 .. len - 1 : buf'[Slot(i)'] = buf[Slot(i)]
         /\ buf'[Slot(len)] = e
<1> USE RingBufferAssumption
<1>1. len \in 0 .. Cap - 1 /\ start \in 0 .. Cap - 1
  BY DEF PushRoom, TypeOK
<1>2. Slot(len) \in 0 .. Cap - 1
  BY <1>1, SlotType
<1>3. e \in [seq : 0 .. MaxSeq]
  BY DEF Lines
<1>4. ASSUME NEW i \in 0 .. len - 1
      PROVE  buf'[Slot(i)'] = buf[Slot(i)]
  <2>1. i \in 0 .. Cap - 1 /\ i # len
    BY <1>1
  <2>2. Slot(i) \in 0 .. Cap - 1 /\ Slot(i) # Slot(len)
    BY <1>1, <2>1, SlotType, ModInjective DEF Slot
  <2>3. Slot(i)' = Slot(i)
    BY DEF PushRoom, Slot
  <2> QED
    BY <2>2, <2>3 DEF PushRoom, TypeOK
<1>5. buf'[Slot(len)] = e
  BY <1>2 DEF PushRoom, TypeOK
<1> QED
  BY <1>1, <1>2, <1>3, <1>4, <1>5 DEF PushRoom, TypeOK

\* What a push into a full array leaves: the entries after the oldest one, moved
\* down by one, and the new entry last.
LEMMA PushEvictContents ==
  ASSUME TypeOK, NEW e \in Lines, PushEvict(e)
  PROVE  /\ buf' \in [0 .. Cap - 1 -> [seq : 0 .. MaxSeq]]
         /\ len = Cap /\ len' = Cap
         /\ start' \in 0 .. Cap - 1 /\ dropped' = dropped + 1
         /\ \A i \in 0 .. Cap - 2 : buf'[Slot(i)'] = buf[Slot(i + 1)]
         /\ buf'[Slot(Cap - 1)'] = e
<1> USE RingBufferAssumption
<1>1. /\ len = Cap /\ start \in 0 .. Cap - 1
      /\ start' = (start + 1) % Cap
      /\ buf' = [buf EXCEPT ![(start' + (Cap - 1)) % Cap] = e]
  <2>1. len = Cap /\ start \in 0 .. Cap - 1
    BY DEF PushEvict, TypeOK
  <2>2. start' = (start + 1) % Cap /\ start' \in Int
    BY <2>1 DEF PushEvict
  <2>3. start' + len - 1 = start' + (Cap - 1)
    BY <2>1, <2>2
  <2> QED
    BY <2>1, <2>2, <2>3 DEF PushEvict
<1>2. start' \in 0 .. Cap - 1
  BY <1>1, ModSmall
<1> DEFINE w == (start' + (Cap - 1)) % Cap
<1>3. w \in 0 .. Cap - 1
  <2>1. ASSUME NEW t \in 0 .. Cap - 1 PROVE t + (Cap - 1) \in 0 .. 2 * Cap - 1
    OBVIOUS
  <2>2. start' + (Cap - 1) \in 0 .. 2 * Cap - 1
    BY <1>2, <2>1
  <2> QED
    BY <2>2, ModSmall
<1>4. Slot(Cap - 1)' = w
  BY DEF Slot
<1>5. ASSUME NEW i \in 0 .. Cap - 2
      PROVE  buf'[Slot(i)'] = buf[Slot(i + 1)]
  <2>1. Slot(i)' = Slot(i + 1)
    BY <1>1, ModShift DEF Slot
  <2>2. i \in 0 .. Cap - 1 /\ i # Cap - 1 /\ i + 1 \in 0 .. Cap - 1
    OBVIOUS
  <2>3. Slot(i)' # w
    <3>1. ASSUME NEW t \in 0 .. Cap - 1 PROVE (t + i) % Cap # (t + (Cap - 1)) % Cap
      BY <2>2, ModInjective
    <3> QED
      BY <1>2, <3>1 DEF Slot
  <2>4. Slot(i + 1) \in 0 .. Cap - 1
    BY <2>2, SlotType
  <2> QED
    BY <1>1, <2>1, <2>3, <2>4 DEF TypeOK
<1>6. e \in [seq : 0 .. MaxSeq]
  BY DEF Lines
<1>7. buf' \in [0 .. Cap - 1 -> [seq : 0 .. MaxSeq]] /\ buf'[w] = e
  BY <1>1, <1>3, <1>6 DEF TypeOK
<1> HIDE DEF w
<1> QED
  BY <1>1, <1>2, <1>4, <1>5, <1>7 DEF PushEvict

\* Every step keeps the newest entries in place.
LEMMA RingStep ==
  ASSUME RingInv, [Next]_vars
  PROVE  RingInv'
<1> USE RingBufferAssumption
<1>0. TypeOK /\ RetainsNewest
  BY DEF RingInv
<1>1. CASE push
  <2> DEFINE e == [seq |-> pushed + 1]
  <2>0. pushed' \in 0 .. MaxSeq /\ seen' \in 0 .. MaxSeq
    BY <1>0, <1>1 DEF push, TypeOK
  <2>1. e \in Lines /\ pushed' = pushed + 1 /\ pushed' \in 1 .. MaxSeq
    BY <1>0, <1>1 DEF push, TypeOK, Lines
  <2>2. CASE PushRoom(e)
    <3>1. TypeOK'
      <4>1. /\ buf' \in [0 .. Cap - 1 -> [seq : 0 .. MaxSeq]] /\ len' \in 0 .. Cap
            /\ start' = start /\ dropped' = dropped
        BY <1>0, <2>1, <2>2, PushRoomContents
      <4>2. start \in 0 .. Cap - 1 /\ dropped \in Nat
        BY <1>0 DEF TypeOK
      <4> QED
        BY <2>0, <4>1, <4>2 DEF TypeOK
    <3>2. ASSUME NEW i \in 0 .. len' - 1
          PROVE  buf'[Slot(i)'].seq = dropped' + 1 + i
      <4>1. CASE i = len
        <5>1. Slot(i)' = Slot(len)
          BY <2>2, <4>1 DEF Slot, PushRoom
        <5>2. buf'[Slot(i)'].seq = pushed + 1
          BY <1>0, <2>1, <2>2, <5>1, PushRoomContents
        <5>3. dropped' = dropped /\ dropped + len = pushed /\ dropped \in Nat /\ len \in Nat
          BY <1>0, <2>2 DEF RetainsNewest, PushRoom, TypeOK
        <5> QED
          BY <4>1, <5>2, <5>3
      <4>2. CASE i # len
        <5>1. i \in 0 .. len - 1
          BY <1>0, <2>2, <3>2, <4>2 DEF PushRoom, TypeOK
        <5>2. buf'[Slot(i)'] = buf[Slot(i)]
          BY <1>0, <2>1, <2>2, <5>1, PushRoomContents
        <5> QED
          BY <1>0, <2>2, <5>1, <5>2 DEF RetainsNewest, PushRoom
      <4> QED
        BY <4>1, <4>2
    <3>3. dropped' + len' = pushed'
      BY <1>0, <2>1, <2>2 DEF RetainsNewest, PushRoom, TypeOK
    <3>4. dropped' > 0 => len' = Cap
      BY <1>0, <2>2 DEF RetainsNewest, PushRoom, TypeOK
    <3> QED
      BY <3>1, <3>2, <3>3, <3>4 DEF RingInv, RetainsNewest
  <2>3. CASE PushEvict(e)
    <3>1. TypeOK'
      <4>1. /\ buf' \in [0 .. Cap - 1 -> [seq : 0 .. MaxSeq]] /\ len' = Cap
            /\ start' \in 0 .. Cap - 1 /\ dropped' = dropped + 1
        BY <1>0, <2>1, <2>3, PushEvictContents
      <4>2. dropped' \in Nat /\ len' \in 0 .. Cap
        BY <1>0, <4>1 DEF TypeOK
      <4> QED
        BY <2>0, <4>1, <4>2 DEF TypeOK
    <3>2. ASSUME NEW i \in 0 .. len' - 1
          PROVE  buf'[Slot(i)'].seq = dropped' + 1 + i
      <4>0. i \in 0 .. Cap - 1 /\ dropped' = dropped + 1 /\ dropped + Cap = pushed /\ len = Cap
        BY <1>0, <2>3, <3>2 DEF PushEvict, RetainsNewest, TypeOK
      <4>1. CASE i = Cap - 1
        <5>1. buf'[Slot(i)'].seq = pushed + 1
          BY <1>0, <2>1, <2>3, <4>1, PushEvictContents
        <5>2. pushed \in Nat /\ dropped \in Nat /\ Cap \in Nat
          BY <1>0 DEF TypeOK
        <5>3. dropped' + 1 + i = pushed + 1
          BY <4>0, <4>1, <5>2
        <5> QED
          BY <5>1, <5>3
      <4>2. CASE i # Cap - 1
        <5>1. i \in 0 .. Cap - 2 /\ i + 1 \in 0 .. len - 1
          BY <4>0, <4>2
        <5>2. buf'[Slot(i)'] = buf[Slot(i + 1)]
          BY <1>0, <2>1, <2>3, <5>1, PushEvictContents
        <5>3. buf[Slot(i + 1)].seq = dropped + 1 + (i + 1)
          BY <1>0, <5>1 DEF RetainsNewest
        <5>4. dropped \in Nat
          BY <1>0 DEF TypeOK
        <5>5. dropped' + 1 + i = dropped + 1 + (i + 1)
          BY <4>0, <5>4
        <5> QED
          BY <5>2, <5>3, <5>5
      <4> QED
        BY <4>1, <4>2
    <3>3. dropped' + len' = pushed'
      BY <1>0, <2>1, <2>3 DEF RetainsNewest, PushEvict, TypeOK
    <3>4. dropped' > 0 => len' = Cap
      BY <1>0, <2>3 DEF RetainsNewest, PushEvict, TypeOK
    <3> QED
      BY <3>1, <3>2, <3>3, <3>4 DEF RingInv, RetainsNewest
  <2> QED
    BY <1>1, <2>2, <2>3 DEF push
<1>2. ASSUME NEW a \in 0 .. MaxSeq, Read(a)
      PROVE  RingInv'
  <2>1. lastSeq \in 0 .. MaxSeq
    <3>1. CASE len = 0
      BY <3>1 DEF lastSeq
    <3>2. CASE len # 0
      <4>1. len - 1 \in 0 .. Cap - 1
        BY <1>0, <3>2 DEF TypeOK
      <4>2. buf[Slot(len - 1)] \in [seq : 0 .. MaxSeq]
        BY <1>0, <4>1, SlotType DEF TypeOK
      <4> QED
        BY <3>2, <4>2 DEF lastSeq
    <3> QED
      BY <3>1, <3>2
  <2>2. seen' \in 0 .. MaxSeq /\ UNCHANGED <<buf, start, len, dropped, pushed>>
    BY <1>0, <1>2, <2>1 DEF Read, TypeOK
  <2>3. TypeOK'
    BY <1>0, <2>2 DEF TypeOK
  <2>4. RetainsNewest'
    BY <1>0, <2>2 DEF RetainsNewest, Slot
  <2> QED
    BY <2>3, <2>4 DEF RingInv
<1>3. CASE UNCHANGED vars
  BY <1>0, <1>3 DEF RingInv, TypeOK, RetainsNewest, Slot, vars
<1> QED
  BY <1>1, <1>2, <1>3 DEF Next

\* An empty ring (newRing) satisfies the invariant.
LEMMA RingInit == Init => RingInv
BY RingBufferAssumption DEF Init, RingInv, TypeOK, RetainsNewest, Zero

\* The array keeps exactly the newest entries, in order, wherever start stands:
\* for every capacity and however many entries are pushed.
THEOREM KeepsNewest == Spec => [](TypeOK /\ RetainsNewest)
<1>1. Init => RingInv
  BY RingInit
<1>2. RingInv /\ [Next]_vars => RingInv'
  BY RingStep
<1> QED
  BY <1>1, <1>2, PTL DEF Spec, RingInv

\* For every capacity and every watermark, since reports a gap exactly when
\* an entry after the watermark was evicted, and lastSeq the newest entry.
THEOREM GapsReported == Spec => []GapExact
<1> USE RingBufferAssumption
<1>1. TypeOK /\ RetainsNewest => GapExact
  <2> SUFFICES ASSUME TypeOK, RetainsNewest PROVE GapExact
    OBVIOUS
  <2>1. CASE len = 0
    <3>1. dropped = pushed /\ pushed = 0
      BY <2>1 DEF TypeOK, RetainsNewest
    <3> QED
      BY <2>1, <3>1 DEF GapExact, sinceOK, lastSeq
  <2>2. CASE len # 0
    <3>1. /\ 0 \in 0 .. len - 1 /\ len - 1 \in 0 .. len - 1
          /\ start \in 0 .. Cap - 1 /\ dropped \in Nat /\ len \in Nat
          /\ dropped + len = pushed
      BY <2>2 DEF TypeOK, RetainsNewest
    <3>2. Slot(0) = start
      <4>1. start + 0 = start /\ start \in 0 .. 2 * Cap - 1 /\ start < Cap
        BY <3>1
      <4>2. start % Cap = start
        BY <4>1, ModSmall
      <4> QED
        BY <4>1, <4>2 DEF Slot
    <3>3. buf[start].seq = dropped + 1
      BY <3>1, <3>2 DEF RetainsNewest
    <3>4. buf[Slot(len - 1)].seq = pushed
      BY <3>1 DEF RetainsNewest
    <3> QED
      BY <2>2, <3>1, <3>3, <3>4 DEF GapExact, sinceOK, lastSeq
  <2> QED
    BY <2>1, <2>2
<1> QED
  BY <1>1, KeepsNewest, PTL

-----------------------------------------------------------------------------
(* The refinement.                                                         *)

\* The retained entries as a sequence.
ContentsTyped == Contents \in Seq([seq : 0 .. MaxSeq]) /\ Len(Contents) = len

\* The retained entries form a sequence of entries as long as len says.
LEMMA ContentsType == TypeOK => ContentsTyped
<1> SUFFICES ASSUME TypeOK PROVE ContentsTyped
  OBVIOUS
<1>1. len \in Nat
  BY DEF TypeOK
<1>2. ASSUME NEW i \in 1 .. len
      PROVE  buf[Slot(i - 1)] \in [seq : 0 .. MaxSeq]
  <2>1. i - 1 \in 0 .. Cap - 1
    BY RingBufferAssumption DEF TypeOK
  <2> QED
    BY <2>1, SlotType DEF TypeOK
<1>3. Contents \in [1 .. len -> [seq : 0 .. MaxSeq]]
  BY <1>2 DEF Contents
<1>4. ASSUME NEW S, NEW n \in Nat, NEW f \in [1 .. n -> S]
      PROVE  f \in Seq(S) /\ Len(f) = n
  OBVIOUS
<1> QED
  BY <1>1, <1>3, <1>4 DEF ContentsTyped

\* A push with room appends to the retained entries.
LEMMA RoomRefines ==
  ASSUME TypeOK, NEW e \in Lines, PushRoom(e), ContentsTyped'
  PROVE  Contents' = Append(Contents, e)
<1>1. Contents \in Seq([seq : 0 .. MaxSeq]) /\ Len(Contents) = len
  BY ContentsType DEF ContentsTyped
<1>2. len' = len + 1 /\ len \in Nat /\ start' = start
  BY DEF PushRoom, TypeOK
<1>3. ASSUME NEW i \in 1 .. len + 1
      PROVE  Contents'[i] = Append(Contents, e)[i]
  <2>1. Contents'[i] = buf'[Slot(i - 1)']
    BY <1>2 DEF Contents
  <2>2. CASE i = len + 1
    <3>1. Slot(i - 1)' = Slot(len)
      BY <1>2, <2>2 DEF Slot
    <3> QED
      BY <1>1, <2>1, <2>2, <3>1, PushRoomContents
  <2>3. CASE i # len + 1
    <3>1. i - 1 \in 0 .. len - 1 /\ i \in 1 .. len
      BY <1>2, <2>3
    <3>2. Contents'[i] = buf[Slot(i - 1)]
      BY <2>1, <3>1, PushRoomContents
    <3>3. Contents[i] = buf[Slot(i - 1)]
      BY <3>1 DEF Contents
    <3> QED
      BY <1>1, <1>2, <3>1, <3>2, <3>3
  <2> QED
    BY <2>2, <2>3
<1>4. Append(Contents, e) \in Seq([seq : 0 .. MaxSeq]) /\ Len(Append(Contents, e)) = len + 1
  BY <1>1 DEF Lines
<1> QED
  BY <1>2, <1>3, <1>4 DEF ContentsTyped

\* A push into a full array drops the oldest retained entry and appends.
LEMMA EvictRefines ==
  ASSUME TypeOK, NEW e \in Lines, PushEvict(e), ContentsTyped'
  PROVE  Contents' = Append(Tail(Contents), e)
<1> USE RingBufferAssumption
<1>1. Contents \in Seq([seq : 0 .. MaxSeq]) /\ Len(Contents) = Cap
  BY ContentsType DEF PushEvict, ContentsTyped
<1>2. len = Cap /\ len' = Cap
  BY DEF PushEvict
<1>3. /\ Tail(Contents) \in Seq([seq : 0 .. MaxSeq]) /\ Len(Tail(Contents)) = Cap - 1
      /\ \A i \in 1 .. Cap - 1 : Tail(Contents)[i] = Contents[i + 1]
  BY <1>1
<1>4. ASSUME NEW i \in 1 .. Cap
      PROVE  Contents'[i] = Append(Tail(Contents), e)[i]
  <2>1. Contents'[i] = buf'[Slot(i - 1)']
    BY <1>2 DEF Contents
  <2>2. CASE i = Cap
    BY <1>3, <2>1, <2>2, PushEvictContents
  <2>3. CASE i # Cap
    <3>1. i - 1 \in 0 .. Cap - 2 /\ i \in 1 .. Cap - 1 /\ (i - 1) + 1 = i /\ i + 1 \in 1 .. len
      BY <1>2, <2>3
    <3>2. Contents'[i] = buf[Slot((i - 1) + 1)]
      BY <2>1, <3>1, PushEvictContents
    <3>3. Contents[i + 1] = buf[Slot(i)]
      BY <3>1 DEF Contents
    <3>4. Append(Tail(Contents), e)[i] = Contents[i + 1]
      BY <1>3, <3>1
    <3> QED
      BY <3>1, <3>2, <3>3, <3>4
  <2> QED
    BY <2>2, <2>3
<1>5. /\ Append(Tail(Contents), e) \in Seq([seq : 0 .. MaxSeq])
      /\ Len(Append(Tail(Contents), e)) = Cap
  BY <1>3 DEF Lines
<1> QED
  BY <1>2, <1>4, <1>5, SMTT(30) DEF ContentsTyped

\* The circular array implements the bounded log: its initial state is the
\* empty log, every push is a push of the log, and a read changes nothing.
THEOREM Implements == Spec => ImplementsLog
<1>0. TypeOK' => ContentsTyped'
  BY ContentsType, PTL
<1>1. Init => Abs!Init
  <2>1. ASSUME Init PROVE Contents = <<>>
    BY <2>1 DEF Init, Contents
  <2> QED
    BY <2>1 DEF Init, Abs!Init
<1>2. ASSUME TypeOK, TypeOK', [Next]_vars
      PROVE  [Abs!Next]_<<Contents, dropped>>
  <2>1. CASE push
    <3> DEFINE e == [seq |-> pushed + 1]
    <3>1. e \in Lines
      BY <1>2, <2>1, RingBufferAssumption DEF push, TypeOK, Lines
    <3>2. ContentsTyped /\ ContentsTyped'
      BY <1>0, <1>2, ContentsType
    <3>3. CASE PushRoom(e)
      <4>1. Contents' = Append(Contents, e)
        BY <1>2, <3>1, <3>2, <3>3, RoomRefines
      <4>2. Abs!PushEntry(e)
        BY <3>2, <3>3, <4>1 DEF ContentsTyped, Abs!PushEntry, Abs!Push, Abs!PushEvicts, PushRoom
      <4> QED
        BY <3>1, <4>2 DEF Abs!Next
    <3>4. CASE PushEvict(e)
      <4>1. Contents' = Append(Tail(Contents), e)
        BY <1>2, <3>1, <3>2, <3>4, EvictRefines
      <4>2. Abs!PushEntry(e)
        BY <3>2, <3>4, <4>1 DEF ContentsTyped, Abs!PushEntry, Abs!Push, Abs!PushEvicts, PushEvict
      <4> QED
        BY <3>1, <4>2 DEF Abs!Next
    <3> QED
      BY <2>1, <3>3, <3>4 DEF push
  <2>2. CASE UNCHANGED <<buf, start, len, dropped>>
    BY <2>2 DEF Contents, Slot
  <2>3. ASSUME NEW a \in 0 .. MaxSeq, Read(a)  PROVE UNCHANGED <<buf, start, len, dropped>>
    BY <2>3 DEF Read
  <2>4. CASE UNCHANGED vars
    BY <2>2, <2>4 DEF vars
  <2> QED
    BY <1>2, <2>1, <2>2, <2>3, <2>4 DEF Next
<1> QED
  BY <1>1, <1>2, KeepsNewest, PTL DEF Spec, ImplementsLog, Abs!Spec
=============================================================================
