-------------------------- MODULE LiveSessionProofs --------------------------
(***************************************************************************)
(* Proofs about Keeper, and about LiveSession, which composes it with the  *)
(* attaches of a brain.                                                    *)
(*                                                                         *)
(* Of Keeper: a connection it reports is read, what it tells is true, a    *)
(* Close returns, no seq is used twice.                                    *)
(*                                                                         *)
(* Of LiveSession, for any number of attaches, connections and lines, any  *)
(* capacities, and a brain that crashes anywhere: the ring and             *)
(* what is sent from it have no gap (StreamWhole), lines out of a feed     *)
(* come before the loss of their connection (LossAfterLines), a brain is   *)
(* resumed with all it needs (ResumeComplete, AckedIsDurable, if no line   *)
(* is lost on the way), and the keeper inside the composition is still     *)
(* module Keeper's.                                                        *)
(*                                                                         *)
(* StreamWhole is not inductive.  It needs that no two loops have a line   *)
(* in hand (LinesApart, a premise: see there), where that line is          *)
(* (LineInHand), that the ring and every feed that has not overflowed end  *)
(* at the line that was last pushed or published (RingAtHead, FeedsAtHead) *)
(* and that a fan-in that reads a feed stands where the feed begins        *)
(* (FansInStep).  LossAfterLines needs besides that a loss is news of a    *)
(* loop that has ended (LossesOver), so that a feed from which its lines   *)
(* were drained stays rid of them (FeedsRid).  ResumeComplete follows the  *)
(* lines of the live connection from the ring to the blob: at each place   *)
(* on the way, what is there and what is further on cover everything       *)
(* before (ResumeInv); a connection that has just been made has no lines,  *)
(* and nothing of an earlier one is left to run (OneAtATime, which callers *)
(* that never overlap Dial and Close guarantee).                           *)
(***************************************************************************)
EXTENDS LiveSession, FiniteSetTheorems, TLAPS

-----------------------------------------------------------------------------
(***************************************************************************)
(* The keeper by itself: any ring capacity, any number of Dial and Close   *)
(* calls at once, any subscriptions and any number of connections.         *)
(*                                                                         *)
(* ConnectedHasReader is not inductive: that the loop of the current       *)
(* connection cannot be past its cleanup follows from the connection       *)
(* having been taken from Keeper.conn there, and that a Dial which has yet *)
(* to start a loop starts one that never ran follows from its epoch being  *)
(* fresh.  KeeperInv adds what the steps rely on.                          *)
(*                                                                         *)
(* EventsTruthful and CloseWillReturn need what ties the log to the loops  *)
(* and a Close to the connection it took (CallInv); SeqsDistinct needs     *)
(* that no seq in use is ahead of the counter (SeqInv).                    *)
(***************************************************************************)

\* A loop about to push or publish a line has taken a seq for it.
ReaderHasSeq ==
  \A e \in Epochs : reader[e].pc \in {"push", "publish"} => reader[e].seq # 0

\* No connection runs ahead of the epoch counter.
EpochsFresh ==
  /\ conn <= epoch
  /\ \A e \in Epochs : e > epoch => reader[e].pc = "none"

\* A Dial that has installed its connection has not started its loop, and no
\* other Dial will.
DialOwnsEpoch ==
  \A d \in Dialers : dialer[d].pc = "publish" =>
    /\ dialer[d].epoch \in 1 .. epoch
    /\ reader[dialer[d].epoch].pc = "none"
    /\ \A f \in Dialers \ {d} :
         dialer[f].pc = "publish" => dialer[f].epoch # dialer[d].epoch

KeeperInv ==
  TypeOK /\ ReaderHasSeq /\ EpochsFresh /\ DialOwnsEpoch /\ ConnectedHasReader

-----------------------------------------------------------------------------
(* The ring and the feeds.                                                 *)

\* A push keeps the ring within its capacity.
LEMMA PushType ==
  ASSUME NEW S, NEW r \in Seq(S), NEW cap \in Nat \ {0}, Len(r) <= cap, NEW x \in S
  PROVE  Push(r, cap, x) \in Seq(S) /\ Len(Push(r, cap, x)) <= cap
<1>1. CASE Len(r) = cap
  <2>1. r # <<>>
    BY <1>1
  <2>2. Tail(r) \in Seq(S) /\ Len(Tail(r)) = Len(r) - 1
    BY <2>1
  <2> QED
    BY <1>1, <2>2 DEF Push, PushEvicts
<1>2. CASE Len(r) # cap
  BY <1>2 DEF Push, PushEvicts
<1> QED
  BY <1>1, <1>2

\* An event in a subscriber's channel keeps the channels' type.
LEMMA PublishType ==
  ASSUME evSub \in [Subs -> EvState], evlog \in Seq(Event), NEW ev \in Event, Publish(ev)
  PROVE  evSub' \in [Subs -> EvState] /\ evlog' \in Seq(Event)
<1>1. ASSUME NEW r \in EvState
      PROVE  [r EXCEPT !.q = Append(@, ev)] \in EvState
  <2>1. r.q \in Seq(Event)
    BY DEF EvState
  <2>2. Append(r.q, ev) \in Seq(Event)
    BY <2>1
  <2> QED
    BY <2>2 DEF EvState
<1>2. evSub' \in [Subs -> EvState]
  BY <1>1 DEF Publish
<1>3. evlog' \in Seq(Event)
  BY DEF Publish
<1> QED
  BY <1>2, <1>3

\* A line in a subscriber's feed keeps the feeds' type.
LEMMA PublishLineType ==
  ASSUME lineSub \in [Subs -> LineState], NEW x \in Entry, PublishLine(x)
  PROVE  lineSub' \in [Subs -> LineState]
<1>1. ASSUME NEW r \in LineState
      PROVE  FeedLine(r, x) \in LineState
  <2>1. [r EXCEPT !.q = Append(@, x)] \in LineState
    BY DEF LineState
  <2>2. [r EXCEPT !.over = TRUE] \in LineState
    BY DEF LineState
  <2> QED
    BY <2>1, <2>2 DEF FeedLine
<1> QED
  BY <1>1 DEF PublishLine

-----------------------------------------------------------------------------
(* Types.                                                                  *)

\* The assignments that the goroutines' steps make to their own state.
LEMMA ReaderType ==
  ASSUME reader \in [Epochs -> ReaderState], NEW e \in Epochs, NEW pc \in ReaderPC,
         NEW n \in 0 .. MaxSeq, NEW b \in BOOLEAN
  PROVE  /\ [reader EXCEPT ![e].pc = pc] \in [Epochs -> ReaderState]
         /\ [reader EXCEPT ![e].pc = pc, ![e].seq = n] \in [Epochs -> ReaderState]
         /\ [reader EXCEPT ![e].pc = pc, ![e].evicted = b] \in [Epochs -> ReaderState]
         /\ [reader EXCEPT ![e].pc = pc, ![e].overflow = b] \in [Epochs -> ReaderState]
<1>1. ASSUME NEW r \in ReaderState
      PROVE  /\ [r EXCEPT !.pc = pc] \in ReaderState
             /\ [r EXCEPT !.pc = pc, !.seq = n] \in ReaderState
             /\ [r EXCEPT !.pc = pc, !.evicted = b] \in ReaderState
             /\ [r EXCEPT !.pc = pc, !.overflow = b] \in ReaderState
  BY <1>1 DEF ReaderState
<1>2. reader[e] \in ReaderState
  OBVIOUS
<1> QED
  BY <1>1, <1>2

\* Moving a Dial call on keeps its type.
LEMMA DialerType ==
  ASSUME dialer \in [Dialers -> DialerState], NEW d \in Dialers, NEW pc \in DialerPC,
         NEW n \in 0 .. MaxEpoch
  PROVE  /\ [dialer EXCEPT ![d].pc = pc] \in [Dialers -> DialerState]
         /\ [dialer EXCEPT ![d] = [pc |-> pc, epoch |-> n]] \in [Dialers -> DialerState]
  BY DEF DialerState

\* Moving a Close or QuitClose call on keeps its type.
LEMMA CloserType ==
  ASSUME closer \in [Closers -> CloserState], NEW c \in Closers, NEW pc \in CloserPC,
         NEW n \in 0 .. MaxEpoch
  PROVE  /\ [closer EXCEPT ![c].pc = pc] \in [Closers -> CloserState]
         /\ [closer EXCEPT ![c] = [pc |-> pc, epoch |-> n]] \in [Closers -> CloserState]
  BY DEF CloserState

\* Every step keeps the types, given that a line to be pushed has a seq and a
\* connection to be announced an epoch.
LEMMA TypeStep ==
  ASSUME KeeperInv, [Next]_keeperVars
  PROVE  TypeOK'
<1> USE KeeperAssumption DEF connVars, streamVars, procVars
<1>0. TypeOK
  BY DEF KeeperInv
<1>1. ASSUME NEW d \in Dialers, DialStart(d)  PROVE TypeOK'
  <2>1. dialer' \in [Dialers -> DialerState]
    BY <1>0, <1>1, DialerType DEF TypeOK, DialStart, DialerPC
  <2> QED
    BY <1>0, <1>1, <2>1 DEF TypeOK, DialStart
<1>2. ASSUME NEW d \in Dialers, DialReject(d)  PROVE TypeOK'
  <2>1. dialer' \in [Dialers -> DialerState]
    <3>1. IdleDialer \in DialerState
      BY DEF IdleDialer, DialerState, DialerPC
    <3> QED
      BY <1>0, <1>2, <3>1 DEF TypeOK, DialReject
  <2> QED
    BY <1>0, <1>2, <2>1 DEF TypeOK, DialReject
<1>3. ASSUME NEW d \in Dialers, DialInstall(d)  PROVE TypeOK'
  <2>1. epoch + 1 \in Epochs
    BY <1>0, <1>3 DEF TypeOK, DialInstall, Epochs
  <2>2. dialer' \in [Dialers -> DialerState]
    <3>1. [pc |-> "publish", epoch |-> epoch + 1] \in DialerState
      BY <2>1 DEF DialerState, DialerPC, Epochs
    <3> QED
      BY <1>0, <1>3, <3>1 DEF TypeOK, DialInstall
  <2>3. conn' \in 0 .. MaxEpoch /\ epoch' \in 0 .. MaxEpoch
    BY <1>3, <2>1 DEF DialInstall, Epochs
  <2>4. alive' \subseteq Epochs
    BY <1>0, <1>3, <2>1 DEF TypeOK, DialInstall
  <2> QED
    BY <1>0, <1>3, <2>2, <2>3, <2>4 DEF TypeOK, DialInstall
<1>4. ASSUME NEW d \in Dialers, DialPublish(d)  PROVE TypeOK'
  <2>1. dialer[d].epoch \in Epochs
    BY <1>0, <1>4 DEF TypeOK, KeeperInv, DialOwnsEpoch, DialPublish, Epochs
  <2>2. evSub' \in [Subs -> EvState] /\ evlog' \in Seq(Event)
    BY <1>0, <1>4, <2>1, PublishType DEF TypeOK, DialPublish, Event
  <2>3. dialer' \in [Dialers -> DialerState]
    <3>1. IdleDialer \in DialerState
      BY DEF IdleDialer, DialerState, DialerPC
    <3> QED
      BY <1>0, <1>4, <3>1 DEF TypeOK, DialPublish
  <2>4. reader' \in [Epochs -> ReaderState]
    BY <1>0, <1>4, <2>1, ReaderType DEF TypeOK, DialPublish, ReaderPC
  <2> QED
    BY <1>0, <1>4, <2>1, <2>2, <2>3, <2>4 DEF TypeOK, DialPublish
<1>5. ASSUME NEW c \in Closers, CloseStart(c)  PROVE TypeOK'
  <2>1. closer' \in [Closers -> CloserState]
    BY <1>0, <1>5, CloserType DEF TypeOK, CloseStart, CloserPC, TakeConn
  <2> QED
    BY <1>0, <1>5, <2>1 DEF TypeOK, CloseStart, TakeConn
<1>6. ASSUME NEW c \in Closers, QuitStart(c)  PROVE TypeOK'
  <2>1. closer' \in [Closers -> CloserState]
    BY <1>0, <1>6, CloserType DEF TypeOK, QuitStart, CloserPC
  <2> QED
    BY <1>0, <1>6, <2>1 DEF TypeOK, QuitStart
<1>7. ASSUME NEW c \in Closers, QuitClose(c)  PROVE TypeOK'
  <2>1. closer' \in [Closers -> CloserState]
    <3>1. IdleCloser \in CloserState /\ [pc |-> "clear", epoch |-> conn] \in CloserState
      BY <1>0 DEF TypeOK, IdleCloser, CloserState, CloserPC
    <3> QED
      BY <1>0, <1>7, <3>1 DEF TypeOK, QuitClose, TakeConn
  <2> QED
    BY <1>0, <1>7, <2>1 DEF TypeOK, QuitClose, TakeConn
<1>8. ASSUME NEW c \in Closers, CloseClear(c)  PROVE TypeOK'
  <2>1. closer' \in [Closers -> CloserState]
    BY <1>0, <1>8, CloserType DEF TypeOK, CloseClear, CloserPC
  <2> QED
    BY <1>0, <1>8, <2>1 DEF TypeOK, CloseClear
<1>9. ASSUME NEW c \in Closers, CloseShut(c)  PROVE TypeOK'
  <2>1. closer' \in [Closers -> CloserState]
    BY <1>0, <1>9, CloserType DEF TypeOK, CloseShut, CloserPC
  <2> QED
    BY <1>0, <1>9, <2>1 DEF TypeOK, CloseShut
<1>10. ASSUME NEW c \in Closers, CloseReturn(c)  PROVE TypeOK'
  <2>1. closer' \in [Closers -> CloserState]
    <3>1. IdleCloser \in CloserState
      BY DEF IdleCloser, CloserState, CloserPC
    <3> QED
      BY <1>0, <1>10, <3>1 DEF TypeOK, CloseReturn
  <2> QED
    BY <1>0, <1>10, <2>1 DEF TypeOK, CloseReturn
<1>11. ASSUME NEW e \in Epochs, ReadLine(e)  PROVE TypeOK'
  <2>1. seqCounter + 1 \in 0 .. MaxSeq
    BY <1>0, <1>11 DEF TypeOK, ReadLine
  <2>2. reader' \in [Epochs -> ReaderState]
    BY <1>0, <1>11, <2>1, ReaderType DEF TypeOK, ReadLine, ReaderPC
  <2> QED
    BY <1>0, <1>11, <2>1, <2>2 DEF TypeOK, ReadLine
<1>12. ASSUME NEW e \in Epochs, PushLine(e)  PROVE TypeOK'
  <2>1. [seq |-> reader[e].seq, epoch |-> e] \in Entry
    BY <1>0, <1>12 DEF TypeOK, KeeperInv, ReaderHasSeq, PushLine, Entry, Seqs, ReaderState
  <2>2. ring' \in Seq(Entry) /\ Len(ring') <= RingCap
    BY <1>0, <1>12, <2>1, PushType DEF TypeOK, PushLine
  <2>3. reader' \in [Epochs -> ReaderState]
    BY <1>0, <1>12, ReaderType DEF TypeOK, PushLine, ReaderPC, PushEvicts
  <2> QED
    BY <1>0, <1>12, <2>1, <2>2, <2>3 DEF TypeOK, PushLine
<1>13. ASSUME NEW e \in Epochs, PublishRead(e)  PROVE TypeOK'
  <2>1. [seq |-> reader[e].seq, epoch |-> e] \in Entry
    BY <1>0, <1>13 DEF TypeOK, KeeperInv, ReaderHasSeq, PublishRead, Entry, Seqs, ReaderState
  <2>2. lineSub' \in [Subs -> LineState]
    BY <1>0, <1>13, <2>1, PublishLineType DEF TypeOK, PublishRead
  <2>3. reader' \in [Epochs -> ReaderState]
    BY <1>0, <1>13, ReaderType DEF TypeOK, PublishRead, ReaderPC
  <2> QED
    BY <1>0, <1>13, <2>1, <2>2, <2>3 DEF TypeOK, PublishRead
<1>14. ASSUME NEW e \in Epochs, OverflowClose(e)  PROVE TypeOK'
  <2>1. reader' \in [Epochs -> ReaderState]
    BY <1>0, <1>14, ReaderType DEF TypeOK, OverflowClose, ReaderPC
  <2> QED
    BY <1>0, <1>14, <2>1 DEF TypeOK, OverflowClose
<1>15. ASSUME NEW e \in Epochs, AfterLine(e)  PROVE TypeOK'
  <2>1. reader' \in [Epochs -> ReaderState]
    <3>1. reader' = [reader EXCEPT ![e].pc = "read"] \/ reader' = [reader EXCEPT ![e].pc = "cleanup"]
      BY <1>15 DEF AfterLine
    <3>2. "read" \in ReaderPC /\ "cleanup" \in ReaderPC
      BY DEF ReaderPC
    <3>3. /\ [reader EXCEPT ![e].pc = "read"] \in [Epochs -> ReaderState]
          /\ [reader EXCEPT ![e].pc = "cleanup"] \in [Epochs -> ReaderState]
      BY <1>0, <3>2, ReaderType DEF TypeOK
    <3> QED
      BY <3>1, <3>3
  <2> QED
    BY <1>0, <1>15, <2>1 DEF TypeOK, AfterLine
<1>16. ASSUME NEW e \in Epochs, ReadError(e)  PROVE TypeOK'
  <2>1. reader' \in [Epochs -> ReaderState]
    BY <1>0, <1>16, ReaderType DEF TypeOK, ReadError, ReaderPC
  <2> QED
    BY <1>0, <1>16, <2>1 DEF TypeOK, ReadError
<1>17. ASSUME NEW e \in Epochs, Cleanup(e)  PROVE TypeOK'
  <2>1. reader' \in [Epochs -> ReaderState]
    <3>1. reader' = [reader EXCEPT ![e].pc = "clear"] \/ reader' = [reader EXCEPT ![e].pc = "done"]
      BY <1>17 DEF Cleanup
    <3>2. "clear" \in ReaderPC /\ "done" \in ReaderPC
      BY DEF ReaderPC
    <3>3. /\ [reader EXCEPT ![e].pc = "clear"] \in [Epochs -> ReaderState]
          /\ [reader EXCEPT ![e].pc = "done"] \in [Epochs -> ReaderState]
      BY <1>0, <3>2, ReaderType DEF TypeOK
    <3> QED
      BY <3>1, <3>3
  <2> QED
    BY <1>0, <1>17, <2>1 DEF TypeOK, Cleanup
<1>18. ASSUME NEW e \in Epochs, CleanupClear(e)  PROVE TypeOK'
  <2>1. reader' \in [Epochs -> ReaderState]
    BY <1>0, <1>18, ReaderType DEF TypeOK, CleanupClear, ReaderPC
  <2> QED
    BY <1>0, <1>18, <2>1 DEF TypeOK, CleanupClear
<1>19. ASSUME NEW e \in Epochs, CleanupEvent(e)  PROVE TypeOK'
  <2>1. evSub' \in [Subs -> EvState] /\ evlog' \in Seq(Event)
    BY <1>0, <1>19, PublishType DEF TypeOK, CleanupEvent, Event
  <2>2. reader' \in [Epochs -> ReaderState]
    BY <1>0, <1>19, ReaderType DEF TypeOK, CleanupEvent, ReaderPC
  <2> QED
    BY <1>0, <1>19, <2>1, <2>2 DEF TypeOK, CleanupEvent
<1>20. ASSUME NEW e \in Epochs, Finalize(e)  PROVE TypeOK'
  BY <1>0, <1>20 DEF TypeOK, Finalize
<1>21. ASSUME NEW s \in Subs, Subscribe(s)  PROVE TypeOK'
  <2>1. [on |-> TRUE, q |-> <<>>] \in EvState
    BY <1>0, <1>21 DEF EvState
  <2> QED
    BY <1>0, <1>21, <2>1 DEF TypeOK, Subscribe
<1>22. ASSUME NEW s \in Subs, SubscribeLines(s)  PROVE TypeOK'
  <2>1. [on |-> TRUE, q |-> <<>>, over |-> FALSE] \in LineState
    BY <1>0, <1>22 DEF LineState
  <2> QED
    BY <1>0, <1>22, <2>1 DEF TypeOK, SubscribeLines
<1>23. ASSUME NEW s \in Subs, Unsubscribe(s)  PROVE TypeOK'
  <2>1. NoEvSub \in EvState
    BY <1>0, <1>23 DEF EvState, NoEvSub
  <2> QED
    BY <1>0, <1>23, <2>1 DEF TypeOK, Unsubscribe
<1>24. ASSUME NEW s \in Subs, UnsubscribeLines(s)  PROVE TypeOK'
  <2>1. NoLineSub \in LineState
    BY <1>0, <1>24 DEF LineState, NoLineSub
  <2> QED
    BY <1>0, <1>24, <2>1 DEF TypeOK, UnsubscribeLines
<1>25. ASSUME NEW s \in Subs, RecvLine(s)  PROVE TypeOK'
  <2>1. lineSub[s] \in LineState /\ lineSub[s].q # <<>>
    BY <1>0, <1>25 DEF TypeOK, RecvLine
  <2>2. [lineSub[s] EXCEPT !.q = Tail(@)] \in LineState
    <3>1. lineSub[s].q \in Seq(Entry)
      BY <2>1 DEF LineState
    <3>2. Tail(lineSub[s].q) \in Seq(Entry)
      BY <2>1, <3>1
    <3> QED
      BY <2>1, <3>2 DEF LineState
  <2> QED
    BY <1>0, <1>25, <2>1, <2>2 DEF TypeOK, RecvLine
<1>26. ASSUME NEW s \in Subs, RecvEvent(s)  PROVE TypeOK'
  <2>1. evSub[s] \in EvState /\ evSub[s].q # <<>>
    BY <1>0, <1>26 DEF TypeOK, RecvEvent
  <2>2. [evSub[s] EXCEPT !.q = Tail(@)] \in EvState
    <3>1. evSub[s].q \in Seq(Event)
      BY <2>1 DEF EvState
    <3>2. Tail(evSub[s].q) \in Seq(Event)
      BY <2>1, <3>1
    <3> QED
      BY <2>1, <3>2 DEF EvState
  <2> QED
    BY <1>0, <1>26, <2>1, <2>2 DEF TypeOK, RecvEvent
<1>27. ASSUME NEW j \in DOMAIN ring, PushBlob(ring[j])  PROVE TypeOK'
  BY <1>0, <1>27 DEF TypeOK, PushBlob
<1>28. ASSUME NEW j \in DOMAIN ring, AckSeq(ring[j].seq)  PROVE TypeOK'
  <2>1. ring[j] \in Entry
    BY <1>0, <1>28 DEF TypeOK
  <2>2. ring[j].seq \in 0 .. MaxSeq
    BY <2>1 DEF Entry, Seqs
  <2>3. deliveredSeq' \in 0 .. MaxSeq
    BY <1>0, <1>28, <2>2 DEF TypeOK, AckSeq
  <2> QED
    BY <1>0, <1>28, <2>3 DEF TypeOK, AckSeq
<1>29. ASSUME UNCHANGED keeperVars  PROVE TypeOK'
  BY <1>0, <1>29 DEF TypeOK, keeperVars
<1> QED
  BY <1>1, <1>2, <1>3, <1>4, <1>5, <1>6, <1>7, <1>8, <1>9, <1>10, <1>11, <1>12, <1>13, <1>14, <1>15, <1>16, <1>17, <1>18, <1>19, <1>20, <1>21, <1>22, <1>23, <1>24, <1>25, <1>26, <1>27, <1>28, <1>29
     DEF Next, DialStep, CloseStep, ReadStep, ClientStep

-----------------------------------------------------------------------------
(* The current connection and its loop.                                    *)

\* Keeper.conn, the epoch counter, the Dial calls and the loops; nothing else
\* matters to the rest of KeeperInv.
ConnInv == ReaderHasSeq /\ EpochsFresh /\ DialOwnsEpoch /\ ConnectedHasReader

Looping == {"read", "push", "publish", "check", "cleanup"}

\* What every step of a started loop does: it moves on itself, it never goes
\* back to not having started, and when it leaves its reading part behind its
\* connection is not the current one any more.
LEMMA LoopMoves ==
  ASSUME KeeperInv, NEW e \in Epochs, UNCHANGED <<epoch, dialer>>,
         conn' \in {0, conn},
         reader[e].pc # "none",
         reader'[e].pc # "none",
         reader'[e].pc \in {"push", "publish"} => reader'[e].seq # 0,
         conn' = e => reader'[e].pc \in Looping,
         \A f \in Epochs \ {e} : reader'[f] = reader[f]
  PROVE  ConnInv'
<1> USE KeeperAssumption
<1>1. ReaderHasSeq'
  BY DEF KeeperInv, ReaderHasSeq, Epochs
<1>2. e <= epoch
  BY DEF KeeperInv, EpochsFresh, TypeOK, Epochs
<1>3. EpochsFresh'
  BY <1>2 DEF KeeperInv, EpochsFresh, TypeOK, Epochs
<1>4. ASSUME NEW d \in Dialers, dialer[d].pc = "publish"
      PROVE  /\ dialer[d].epoch \in Epochs \ {e}
             /\ reader'[dialer[d].epoch].pc = "none"
  <2>1. dialer[d].epoch \in 1 .. epoch /\ reader[dialer[d].epoch].pc = "none"
    BY <1>4 DEF KeeperInv, DialOwnsEpoch
  <2>2. dialer[d].epoch \in Epochs /\ dialer[d].epoch # e
    BY <2>1 DEF KeeperInv, TypeOK, Epochs
  <2> QED
    BY <2>1, <2>2
<1>5. DialOwnsEpoch'
  BY <1>4 DEF KeeperInv, DialOwnsEpoch
<1>6. ConnectedHasReader'
  <2>1. CASE conn' = 0
    BY <2>1 DEF ConnectedHasReader
  <2>2. CASE conn' = e
    BY <2>2 DEF ConnectedHasReader, Looping, Epochs
  <2>3. CASE conn' = conn /\ conn # 0 /\ conn # e
    <3>1. conn \in Epochs \ {e}
      BY <2>3 DEF KeeperInv, TypeOK, Epochs
    <3> QED
      BY <2>3, <3>1 DEF KeeperInv, ConnectedHasReader
  <2> QED
    BY <2>1, <2>2, <2>3
<1> QED
  BY <1>1, <1>3, <1>5, <1>6 DEF ConnInv

\* Every step keeps ConnInv.
LEMMA ConnStep ==
  ASSUME KeeperInv, [Next]_keeperVars
  PROVE  ConnInv'
<1> USE KeeperAssumption DEF connVars, streamVars, procVars
<1>0. TypeOK /\ ConnInv
  BY DEF KeeperInv, ConnInv
<1>1. CASE UNCHANGED <<conn, epoch, dialer, reader>>
  BY <1>0, <1>1 DEF ConnInv, ReaderHasSeq, EpochsFresh, DialOwnsEpoch, ConnectedHasReader
<1>2. CASE conn' = 0 /\ UNCHANGED <<epoch, dialer, reader>>
  <2>1. EpochsFresh'
    BY <1>0, <1>2 DEF ConnInv, EpochsFresh, TypeOK
  <2> QED
    BY <1>0, <1>2, <2>1 DEF ConnInv, ReaderHasSeq, DialOwnsEpoch, ConnectedHasReader
<1>3. ASSUME NEW d \in Dialers, DialStart(d) \/ DialReject(d)
      PROVE  ConnInv'
  <2>1. /\ UNCHANGED <<conn, epoch, reader>>
        /\ dialer[d].pc # "publish" /\ dialer'[d].pc # "publish"
        /\ \A f \in Dialers \ {d} : dialer'[f] = dialer[f]
    <3>1. dialer[d] \in DialerState
      BY <1>0 DEF TypeOK
    <3>2. CASE DialStart(d)
      BY <1>0, <3>1, <3>2 DEF DialStart, DialerState, TypeOK
    <3>3. CASE DialReject(d)
      BY <1>0, <3>1, <3>3 DEF DialReject, IdleDialer, DialerState, TypeOK
    <3> QED
      BY <1>3, <3>2, <3>3
  <2>2. ReaderHasSeq' /\ EpochsFresh'
    BY <1>0, <2>1 DEF ConnInv, ReaderHasSeq, EpochsFresh
  <2>3. DialOwnsEpoch'
    BY <1>0, <2>1 DEF ConnInv, DialOwnsEpoch
  <2>4. ConnectedHasReader'
    BY <1>0, <2>1 DEF ConnInv, ConnectedHasReader
  <2> QED
    BY <2>2, <2>3, <2>4 DEF ConnInv
<1>4. ASSUME NEW d \in Dialers, DialInstall(d)
      PROVE  ConnInv'
  <2>1. /\ epoch \in Nat /\ epoch + 1 \in Epochs
        /\ epoch' = epoch + 1 /\ conn' = epoch + 1 /\ reader' = reader
        /\ dialer[d].pc # "publish"
        /\ dialer'[d] = [pc |-> "publish", epoch |-> epoch + 1]
        /\ \A f \in Dialers \ {d} : dialer'[f] = dialer[f]
    BY <1>0, <1>4 DEF DialInstall, TypeOK, Epochs
  <2>2. reader[epoch + 1].pc = "none"
    BY <1>0, <2>1 DEF ConnInv, EpochsFresh
  <2>3. ReaderHasSeq' /\ EpochsFresh'
    BY <1>0, <2>1 DEF ConnInv, ReaderHasSeq, EpochsFresh, Epochs
  <2>4. ASSUME NEW f \in Dialers \ {d}, dialer[f].pc = "publish"
        PROVE  dialer[f].epoch \in 1 .. epoch
    BY <1>0, <2>4 DEF ConnInv, DialOwnsEpoch
  <2>5. DialOwnsEpoch'
    <3>1. ASSUME NEW f \in Dialers, dialer'[f].pc = "publish"
          PROVE  /\ dialer'[f].epoch \in 1 .. epoch'
                 /\ reader'[dialer'[f].epoch].pc = "none"
                 /\ \A g \in Dialers \ {f} :
                      dialer'[g].pc = "publish" => dialer'[g].epoch # dialer'[f].epoch
      <4>1. CASE f = d
        BY <2>1, <2>2, <2>4, <4>1
      <4>2. CASE f # d
        <5>1. dialer'[f] = dialer[f] /\ dialer[f].epoch \in 1 .. epoch
          BY <2>1, <2>4, <3>1, <4>2
        <5>2. reader[dialer[f].epoch].pc = "none"
          BY <1>0, <3>1, <5>1 DEF ConnInv, DialOwnsEpoch
        <5>3. ASSUME NEW g \in Dialers \ {f}, dialer'[g].pc = "publish"
              PROVE  dialer'[g].epoch # dialer[f].epoch
          <6>1. CASE g = d
            BY <2>1, <5>1, <6>1
          <6>2. CASE g # d
            BY <1>0, <2>1, <3>1, <5>1, <5>3, <6>2 DEF ConnInv, DialOwnsEpoch
          <6> QED
            BY <6>1, <6>2
        <5> QED
          BY <2>1, <5>1, <5>2, <5>3
      <4> QED
        BY <4>1, <4>2
    <3> QED
      BY <3>1 DEF DialOwnsEpoch
  <2>6. ConnectedHasReader'
    BY <2>1 DEF ConnectedHasReader
  <2> QED
    BY <2>3, <2>5, <2>6 DEF ConnInv
<1>5. ASSUME NEW d \in Dialers, DialPublish(d)
      PROVE  ConnInv'
  <2> DEFINE e == dialer[d].epoch
  <2>1. /\ e \in 1 .. epoch /\ e \in Epochs
        /\ \A f \in Dialers \ {d} : dialer[f].pc = "publish" => dialer[f].epoch # e
    BY <1>0, <1>5 DEF DialPublish, ConnInv, DialOwnsEpoch, TypeOK, Epochs
  <2>2. /\ UNCHANGED <<conn, epoch>>
        /\ dialer'[d].pc = "idle"
        /\ \A f \in Dialers \ {d} : dialer'[f] = dialer[f]
        /\ reader'[e].pc = "read"
        /\ \A f \in Epochs \ {e} : reader'[f] = reader[f]
    BY <1>0, <1>5, <2>1 DEF DialPublish, TypeOK, IdleDialer
  <2> HIDE DEF e
  <2>3. ReaderHasSeq'
    BY <1>0, <2>1, <2>2 DEF ConnInv, ReaderHasSeq
  <2>4. EpochsFresh'
    BY <1>0, <2>1, <2>2 DEF ConnInv, EpochsFresh, TypeOK, Epochs
  <2>5. DialOwnsEpoch'
    <3>1. ASSUME NEW f \in Dialers, dialer'[f].pc = "publish"
          PROVE  /\ dialer'[f].epoch \in 1 .. epoch
                 /\ reader'[dialer'[f].epoch].pc = "none"
                 /\ \A g \in Dialers \ {f} :
                      dialer'[g].pc = "publish" => dialer'[g].epoch # dialer'[f].epoch
      <4>1. f # d /\ dialer'[f] = dialer[f]
        BY <2>2, <3>1
      <4>2. dialer[f].epoch \in Epochs \ {e}
        BY <1>0, <2>1, <3>1, <4>1 DEF ConnInv, DialOwnsEpoch, TypeOK, Epochs
      <4>3. ASSUME NEW g \in Dialers \ {f}, dialer'[g].pc = "publish"
            PROVE  dialer'[g].epoch # dialer[f].epoch
        <5>1. g # d /\ dialer'[g] = dialer[g]
          BY <2>2, <4>3
        <5> QED
          BY <1>0, <3>1, <4>1, <4>3, <5>1 DEF ConnInv, DialOwnsEpoch
      <4> QED
        BY <1>0, <2>2, <3>1, <4>1, <4>2, <4>3 DEF ConnInv, DialOwnsEpoch
    <3> QED
      BY <2>2, <3>1 DEF DialOwnsEpoch
  <2>6. ConnectedHasReader'
    <3>1. CASE conn = e
      BY <2>2, <3>1 DEF ConnectedHasReader
    <3>2. CASE conn # e /\ conn # 0
      <4>1. reader'[conn] = reader[conn]
        BY <1>0, <2>2, <3>2 DEF TypeOK, Epochs
      <4>2. ASSUME NEW f \in Dialers, dialer[f] = [pc |-> "publish", epoch |-> conn]
            PROVE  dialer'[f] = dialer[f]
        BY <2>2, <3>2, <4>2 DEF e
      <4> QED
        BY <1>0, <2>2, <3>2, <4>1, <4>2 DEF ConnInv, ConnectedHasReader
    <3> QED
      BY <2>2, <3>1, <3>2 DEF ConnectedHasReader
  <2> QED
    BY <2>3, <2>4, <2>5, <2>6 DEF ConnInv
<1>6. ASSUME NEW e \in Epochs,
             ReadLine(e) \/ PushLine(e) \/ PublishRead(e) \/ OverflowClose(e)
               \/ AfterLine(e) \/ ReadError(e)
      PROVE  ConnInv'
  <2>1. /\ UNCHANGED <<conn, epoch, dialer>>
        /\ reader[e].pc # "none" /\ reader'[e].pc \in Looping
        /\ \A f \in Epochs \ {e} : reader'[f] = reader[f]
    <3>1. reader[e] \in ReaderState
      BY <1>0 DEF TypeOK
    <3>2. CASE ReadLine(e)
      BY <1>0, <3>1, <3>2 DEF TypeOK, Looping, ReaderState, ReadLine
    <3>3. CASE PushLine(e)
      BY <1>0, <3>1, <3>3 DEF TypeOK, Looping, ReaderState, PushLine
    <3>4. CASE PublishRead(e)
      BY <1>0, <3>1, <3>4 DEF TypeOK, Looping, ReaderState, PublishRead
    <3>5. CASE OverflowClose(e)
      BY <1>0, <3>1, <3>5 DEF TypeOK, Looping, ReaderState, OverflowClose
    <3>6. CASE AfterLine(e)
      BY <1>0, <3>1, <3>6 DEF TypeOK, Looping, ReaderState, AfterLine
    <3>7. CASE ReadError(e)
      BY <1>0, <3>1, <3>7 DEF TypeOK, Looping, ReaderState, ReadError
    <3> QED
      BY <1>6, <3>2, <3>3, <3>4, <3>5, <3>6, <3>7
  <2>2. reader'[e].pc \in {"push", "publish"} => reader'[e].seq # 0
    <3>1. CASE ReadLine(e)
      BY <1>0, <3>1 DEF TypeOK, ReadLine, ReaderState
    <3>2. CASE PushLine(e)
      BY <1>0, <3>2 DEF TypeOK, PushLine, ReaderState, ConnInv, ReaderHasSeq
    <3>3. CASE PublishRead(e) \/ OverflowClose(e) \/ AfterLine(e) \/ ReadError(e)
      <4>1. reader[e] \in ReaderState
        BY <1>0 DEF TypeOK
      <4>2. reader'[e].pc \in {"read", "check", "cleanup"}
        BY <1>0, <3>3, <4>1 DEF TypeOK, ReaderState, PublishRead, OverflowClose, AfterLine, ReadError
      <4> QED
        BY <4>2
    <3> QED
      BY <1>6, <3>1, <3>2, <3>3
  <2> QED
    BY <2>1, <2>2, LoopMoves DEF Looping
<1>7. ASSUME NEW e \in Epochs, Cleanup(e)
      PROVE  ConnInv'
  <2>1. /\ UNCHANGED <<epoch, dialer>> /\ conn' \in {0, conn} /\ conn' # e
        /\ reader[e].pc # "none" /\ reader'[e].pc \in {"clear", "done"}
        /\ \A f \in Epochs \ {e} : reader'[f] = reader[f]
    <3>1. reader[e] \in ReaderState /\ e # 0
      BY <1>0 DEF TypeOK, Epochs
    <3> QED
      BY <1>0, <1>7, <3>1 DEF TypeOK, Cleanup, ReaderState
  <2> QED
    BY <2>1, LoopMoves
<1>8. ASSUME NEW e \in Epochs, CleanupClear(e) \/ CleanupEvent(e)
      PROVE  ConnInv'
  <2>1. /\ UNCHANGED <<conn, epoch, dialer>>
        /\ reader[e].pc \in {"clear", "event"} /\ reader'[e].pc \in {"event", "done"}
        /\ \A f \in Epochs \ {e} : reader'[f] = reader[f]
    <3>1. reader[e] \in ReaderState
      BY <1>0 DEF TypeOK
    <3> QED
      BY <1>0, <1>8, <3>1 DEF TypeOK, CleanupClear, CleanupEvent, ReaderState
  <2>2. conn # e
    <3>1. SUFFICES ASSUME conn = e PROVE FALSE
      OBVIOUS
    <3>2. PICK d \in Dialers : dialer[d] = [pc |-> "publish", epoch |-> e]
      BY <1>0, <2>1, <3>1 DEF ConnInv, ConnectedHasReader, Epochs
    <3>3. reader[e].pc = "none"
      BY <1>0, <3>2 DEF ConnInv, DialOwnsEpoch
    <3> QED
      BY <2>1, <3>3
  <2> QED
    BY <2>1, <2>2, LoopMoves
<1>9. ASSUME NEW c \in Closers, CloseStep(c)
      PROVE  ConnInv'
  <2>1. \/ UNCHANGED <<conn, epoch, dialer, reader>>
        \/ conn' = 0 /\ UNCHANGED <<epoch, dialer, reader>>
    BY <1>9 DEF CloseStep, CloseStart, QuitStart, QuitClose, TakeConn, CloseClear, CloseShut,
                CloseReturn
  <2> QED
    BY <1>1, <1>2, <2>1
<1>10. ASSUME NEW e \in Epochs, Finalize(e)
       PROVE  ConnInv'
  BY <1>1, <1>10 DEF Finalize
<1>11. CASE ClientStep
  <2>1. UNCHANGED <<conn, epoch, dialer, reader>>
    BY <1>11 DEF ClientStep, Subscribe, Unsubscribe, RecvEvent, SubscribeLines,
                 UnsubscribeLines, RecvLine, PushBlob, AckSeq
  <2> QED
    BY <1>1, <2>1
<1>12. CASE UNCHANGED keeperVars
  BY <1>1, <1>12 DEF keeperVars
<1> QED
  BY <1>3, <1>4, <1>5, <1>6, <1>7, <1>8, <1>9, <1>10, <1>11, <1>12
     DEF Next, DialStep, ReadStep

-----------------------------------------------------------------------------
(* The log of events, and what each Close has taken.                        *)

\* A Close or QuitClose that has taken its connection and not yet returned.
Taken(c) == closer[c].pc \in {"clear", "shut", "wait"}

\* The Dial that made the connection has yet to start its loop.
Starting(e) == \E d \in Dialers : dialer[d] = [pc |-> "publish", epoch |-> e]

\* What a Close has taken is not current any more, its loop is not in the part
\* of its cleanup that only the current connection's loop enters, and the loop
\* has been started or will be.
ClosersTookOld ==
  \A c \in Closers : Taken(c) =>
    /\ closer[c].epoch \in 1 .. epoch
    /\ closer[c].epoch # conn
    /\ reader[closer[c].epoch].pc \notin {"clear", "event"}
    /\ reader[closer[c].epoch].pc # "none" \/ Starting(closer[c].epoch)

\* A connection is announced when its loop starts, and its loss is the last
\* thing its loop does.
LogMatchesLoops ==
  /\ \A i \in DOMAIN evlog :
       /\ evlog[i].kind = "connected" => reader[evlog[i].epoch].pc # "none"
       /\ evlog[i].kind = "disconnected" => reader[evlog[i].epoch].pc = "done"
  /\ \A e \in Epochs : reader[e].pc # "none" =>
       \E i \in DOMAIN evlog : evlog[i] = [kind |-> "connected", epoch |-> e]

CallInv == ClosersTookOld /\ LogMatchesLoops /\ EventsTruthful /\ CloseWillReturn

\* A step that says nothing and lets no loop start, end or reach the event
\* keeps the log in step with the loops.
LEMMA QuietStep ==
  ASSUME TypeOK, LogMatchesLoops, EventsPaired, evlog' = evlog,
         \A e \in Epochs : /\ reader'[e].pc = "none" <=> reader[e].pc = "none"
                           /\ reader[e].pc = "done" => reader'[e].pc = "done"
  PROVE  LogMatchesLoops' /\ EventsPaired'
<1>1. \A i \in DOMAIN evlog : evlog[i] \in Event
  BY DEF TypeOK
<1>2. \A i \in DOMAIN evlog : evlog[i].epoch \in Epochs
  BY <1>1 DEF Event
<1> QED
  BY <1>2 DEF LogMatchesLoops, EventsPaired

\* What ClosersTookOld, CloseIsSilent and CloseWillReturn say of a Close at c
\* that has taken connection e.
TookOld(c, e) ==
  /\ closer[c].epoch = e
  /\ e \in 1 .. epoch
  /\ e # conn
  /\ reader[e].pc \notin {"clear", "event"}
  /\ reader[e].pc # "none" \/ Starting(e)
  /\ \A i \in DOMAIN evlog : evlog[i] # [kind |-> "disconnected", epoch |-> e]
  /\ closer[c].pc = "wait" => e \notin alive

\* What the three of them say of one Close ...
LEMMA OneCloser ==
  ASSUME TypeOK, ClosersTookOld, CloseIsSilent, CloseWillReturn, NEW c \in Closers, Taken(c)
  PROVE  \E e \in Epochs : TookOld(c, e)
<1>1. epoch \in Nat /\ epoch <= MaxEpoch /\ MaxEpoch \in Nat
  BY KeeperAssumption DEF TypeOK
<1>2. PICK e \in Epochs : closer[c].epoch = e
  BY <1>1 DEF ClosersTookOld, Epochs
<1>3. TookOld(c, e)
  BY <1>2 DEF TookOld, ClosersTookOld, CloseIsSilent, CloseWillReturn, Taken
<1> QED
  BY <1>3

\* ... and said of every one, after a step, they hold after it.
LEMMA EveryCloser ==
  ASSUME \A c \in Closers : Taken(c)' => \E e \in Epochs : TookOld(c, e)'
  PROVE  ClosersTookOld' /\ CloseIsSilent' /\ CloseWillReturn'
<1>1. ASSUME NEW c \in Closers, Taken(c)'
      PROVE  \E e \in Epochs : closer'[c].epoch = e /\ TookOld(c, e)'
  BY <1>1 DEF TookOld
<1>2. ClosersTookOld'
  BY <1>1 DEF TookOld, ClosersTookOld
<1>3. CloseIsSilent'
  BY <1>1 DEF TookOld, CloseIsSilent, Taken
<1>4. CloseWillReturn'
  BY <1>1 DEF TookOld, CloseWillReturn, Taken, Starting
<1> QED
  BY <1>2, <1>3, <1>4

\* A step keeps what is said of a Close if it leaves the Close's connection
\* taken, says nothing of its loss, does not bring its loop to its event and
\* does not undo the start of its loop.
LEMMA TookOldKept ==
  ASSUME TypeOK, NEW c \in Closers, NEW e \in Epochs, TookOld(c, e),
         closer'[c].epoch = e,
         epoch' \in {epoch, epoch + 1}, conn' \in {conn, 0, epoch + 1},
         alive' \subseteq alive \union {epoch + 1},
         closer'[c].pc = "wait" => closer[c].pc = "wait" \/ e \notin alive',
         reader'[e].pc \notin {"clear", "event"},
         reader[e].pc # "none" => reader'[e].pc # "none",
         Starting(e) => Starting(e)' \/ reader'[e].pc # "none",
         evlog' = evlog \/ \E ev : evlog' = Append(evlog, ev)
                                   /\ ev # [kind |-> "disconnected", epoch |-> e]
  PROVE  TookOld(c, e)'
<1>1. epoch \in Nat
  BY KeeperAssumption DEF TypeOK
<1>2. e # epoch + 1 /\ e # 0 /\ e \in 1 .. epoch'
  BY <1>1 DEF TookOld
<1>3. \A i \in DOMAIN evlog' : evlog'[i] # [kind |-> "disconnected", epoch |-> e]
  <2>1. CASE evlog' = evlog
    BY <2>1 DEF TookOld
  <2>2. ASSUME NEW ev, evlog' = Append(evlog, ev),
               ev # [kind |-> "disconnected", epoch |-> e]
        PROVE  \A i \in DOMAIN evlog' : evlog'[i] # [kind |-> "disconnected", epoch |-> e]
    <3>1. evlog \in Seq(Event)
      BY DEF TypeOK
    <3>2. ASSUME NEW i \in DOMAIN evlog'
          PROVE  (i \in DOMAIN evlog /\ evlog'[i] = evlog[i]) \/ evlog'[i] = ev
      BY <2>2, <3>1, <3>2
    <3> QED
      BY <2>2, <3>2 DEF TookOld
  <2> QED
    BY <2>1, <2>2
<1> QED
  BY <1>2, <1>3 DEF TookOld

\* The log and the loops after an event ev about connection e: the first one
\* of its kind, and a loss only after the connection itself.
LEMMA LogGrows ==
  ASSUME TypeOK, LogMatchesLoops, EventsPaired, NEW e \in Epochs,
         NEW k \in {"connected", "disconnected"},
         evlog' = Append(evlog, [kind |-> k, epoch |-> e]),
         k = "connected" => reader[e].pc = "none" /\ reader'[e].pc = "read",
         k = "disconnected" => reader[e].pc = "event" /\ reader'[e].pc = "done",
         \A f \in Epochs \ {e} : reader'[f] = reader[f]
  PROVE  LogMatchesLoops' /\ EventsPaired'
<1> DEFINE ev == [kind |-> k, epoch |-> e]
           n  == Len(evlog)
<1>1. /\ n \in Nat /\ DOMAIN evlog = 1 .. n /\ DOMAIN evlog' = 1 .. n + 1
      /\ evlog'[n + 1] = ev
      /\ \A i \in 1 .. n : evlog'[i] = evlog[i] /\ evlog[i] \in Event
  BY DEF TypeOK
<1>2. \A i \in 1 .. n : evlog[i].epoch \in Epochs /\ evlog[i].kind \in {"connected", "disconnected"}
  BY <1>1 DEF Event
<1> HIDE DEF n
<1>3. \A i \in 1 .. n : evlog[i] # ev
  BY <1>1 DEF LogMatchesLoops
<1>4. \A i \in 1 .. n : evlog[i].epoch = e => k = "disconnected" /\ evlog[i].kind = "connected"
  BY <1>1, <1>2, SMTT(30) DEF LogMatchesLoops
<1>5. LogMatchesLoops'
  <2>1. ASSUME NEW i \in 1 .. n + 1
        PROVE  /\ evlog'[i].kind = "connected" => reader'[evlog'[i].epoch].pc # "none"
               /\ evlog'[i].kind = "disconnected" => reader'[evlog'[i].epoch].pc = "done"
    <3>1. CASE i = n + 1
      BY <1>1, <3>1
    <3>2. CASE i \in 1 .. n /\ evlog[i].epoch = e
      BY <1>1, <1>4, <3>2
    <3>3. CASE i \in 1 .. n /\ evlog[i].epoch # e
      BY <1>1, <1>2, <3>3 DEF LogMatchesLoops
    <3> QED
      BY <1>1, <3>1, <3>2, <3>3
  <2>2. ASSUME NEW f \in Epochs, reader'[f].pc # "none"
        PROVE  \E i \in 1 .. n + 1 : evlog'[i] = [kind |-> "connected", epoch |-> f]
    <3>1. CASE f = e /\ k = "connected"
      BY <1>1, <3>1
    <3>2. CASE ~(f = e /\ k = "connected")
      <4>1. reader[f].pc # "none"
        BY <2>2, <3>2
      <4>2. PICK i \in 1 .. n : evlog[i] = [kind |-> "connected", epoch |-> f]
        BY <1>1, <4>1 DEF LogMatchesLoops
      <4>3. i \in 1 .. n + 1 /\ evlog'[i] = [kind |-> "connected", epoch |-> f]
        BY <1>1, <4>2
      <4> QED
        BY <4>3
    <3> QED
      BY <3>1, <3>2
  <2> QED
    BY <1>1, <2>1, <2>2 DEF LogMatchesLoops
<1>6. EventsPaired'
  <2>1. ASSUME NEW i \in 1 .. n + 1, NEW j \in 1 .. n + 1
        PROVE  /\ i # j => evlog'[i] # evlog'[j]
               /\ (evlog'[i].epoch = evlog'[j].epoch /\ evlog'[i].kind = "disconnected"
                     /\ evlog'[j].kind = "connected") => j < i
    <3>1. CASE i \in 1 .. n /\ j \in 1 .. n
      BY <1>1, <3>1 DEF EventsPaired
    <3>2. CASE i = n + 1 /\ j \in 1 .. n
      BY <1>1, <1>3, <3>2
    <3>3. CASE i \in 1 .. n /\ j = n + 1
      BY <1>1, <1>3, <1>4, <3>3
    <3>4. CASE i = n + 1 /\ j = n + 1
      BY <1>1, <3>4
    <3> QED
      BY <1>1, <3>1, <3>2, <3>3, <3>4
  <2> QED
    BY <1>1, <2>1 DEF EventsPaired
<1> QED
  BY <1>5, <1>6

\* Every step keeps the log true of the loops.
LEMMA LogStep ==
  ASSUME KeeperInv, LogMatchesLoops, EventsPaired, [Next]_keeperVars
  PROVE  LogMatchesLoops' /\ EventsPaired'
<1> USE DEF connVars, streamVars, procVars
<1>0. TypeOK
  BY DEF KeeperInv
<1>1. CASE UNCHANGED <<reader, evlog>>
  BY <1>0, <1>1, QuietStep
<1>2. ASSUME NEW d \in Dialers, DialStep(d)
      PROVE  LogMatchesLoops' /\ EventsPaired'
  <2>1. CASE DialStart(d) \/ DialReject(d) \/ DialInstall(d)
    BY <1>1, <2>1 DEF DialStart, DialReject, DialInstall
  <2>2. CASE DialPublish(d)
    <3>1. dialer[d].epoch \in Epochs /\ reader[dialer[d].epoch].pc = "none"
      <4>1. dialer[d].pc = "publish"
        BY <2>2 DEF DialPublish
      <4>2. dialer[d].epoch \in 1 .. epoch /\ reader[dialer[d].epoch].pc = "none"
        BY <4>1 DEF KeeperInv, DialOwnsEpoch
      <4> QED
        BY <1>0, <4>2, KeeperAssumption DEF TypeOK, Epochs
    <3>2. /\ evlog' = Append(evlog, [kind |-> "connected", epoch |-> dialer[d].epoch])
          /\ reader'[dialer[d].epoch].pc = "read"
          /\ \A f \in Epochs \ {dialer[d].epoch} : reader'[f] = reader[f]
      BY <1>0, <2>2, <3>1 DEF DialPublish, Publish, TypeOK, ReaderState
    <3> QED
      BY <1>0, <3>1, <3>2, LogGrows
  <2> QED
    BY <1>2, <2>1, <2>2 DEF DialStep
<1>3. ASSUME NEW c \in Closers, CloseStep(c)
      PROVE  LogMatchesLoops' /\ EventsPaired'
  BY <1>1, <1>3 DEF CloseStep, CloseStart, QuitStart, QuitClose, TakeConn, CloseClear,
                    CloseShut, CloseReturn
<1>4. ASSUME NEW e \in Epochs, ReadStep(e)
      PROVE  LogMatchesLoops' /\ EventsPaired'
  <2>1. reader[e] \in ReaderState
    BY <1>0 DEF TypeOK
  <2>2. CASE ~CleanupEvent(e)
    <3>1. evlog' = evlog /\ reader[e].pc \notin {"none", "done"} /\ reader'[e].pc # "none"
          /\ \A f \in Epochs \ {e} : reader'[f] = reader[f]
      BY <1>0, <1>4, <2>1, <2>2
         DEF ReadStep, ReadLine, PushLine, PublishRead, OverflowClose, AfterLine, ReadError,
             Cleanup, CleanupClear, TypeOK, ReaderState
    <3> QED
      BY <1>0, <3>1, QuietStep
  <2>3. CASE CleanupEvent(e)
    <3>1. /\ evlog' = Append(evlog, [kind |-> "disconnected", epoch |-> e])
          /\ reader[e].pc = "event" /\ reader'[e].pc = "done"
          /\ \A f \in Epochs \ {e} : reader'[f] = reader[f]
      BY <1>0, <2>1, <2>3 DEF CleanupEvent, Publish, TypeOK, ReaderState
    <3> QED
      BY <1>0, <3>1, LogGrows
  <2> QED
    BY <2>2, <2>3
<1>5. ASSUME NEW e \in Epochs, Finalize(e)
      PROVE  LogMatchesLoops' /\ EventsPaired'
  BY <1>1, <1>5 DEF Finalize
<1>6. CASE ClientStep
  BY <1>1, <1>6 DEF ClientStep, Subscribe, Unsubscribe, RecvEvent, SubscribeLines,
                    UnsubscribeLines, RecvLine, PushBlob, AckSeq
<1>7. CASE UNCHANGED keeperVars
  BY <1>1, <1>7 DEF keeperVars
<1> QED
  BY <1>2, <1>3, <1>4, <1>5, <1>6, <1>7 DEF Next

\* Every step keeps what is said of a Close that had taken its connection
\* before, and makes it true of one that takes its connection now.
LEMMA ClosersStep ==
  ASSUME KeeperInv, CallInv, [Next]_keeperVars, NEW c \in Closers, Taken(c)'
  PROVE  \E e \in Epochs : TookOld(c, e)'
<1> USE DEF connVars, streamVars, procVars
<1>0. /\ TypeOK /\ EpochsFresh /\ DialOwnsEpoch /\ ConnectedHasReader /\ LogMatchesLoops
      /\ closer \in [Closers -> CloserState]
      /\ \A f \in Epochs : reader[f] \in ReaderState
      /\ epoch \in Nat /\ conn \in Nat /\ epoch <= MaxEpoch /\ MaxEpoch \in Nat
  BY KeeperAssumption DEF KeeperInv, CallInv, TypeOK
\* The Close takes the connection.
<1>1. CASE TakeConn(c)
  <2>1. PICK e \in Epochs : e = conn /\ e \in 1 .. epoch
    BY <1>0, <1>1 DEF TakeConn, EpochsFresh, Epochs
  <2>2. /\ e # conn' /\ closer'[c].pc = "clear" /\ closer'[c].epoch = e
        /\ UNCHANGED <<epoch, alive, dialer, reader, evlog>>
    BY <1>0, <1>1, <2>1 DEF TakeConn
  <2>3. reader[e].pc \in Looping \/ Starting(e)
    BY <1>0, <1>1, <2>1 DEF TakeConn, ConnectedHasReader, Looping, Starting
  <2>4. reader[e].pc \in Looping \/ (reader[e].pc = "none" /\ Starting(e))
    BY <1>0, <2>3 DEF DialOwnsEpoch, Starting
  <2>5. reader[e].pc \notin {"clear", "event", "done"} /\ (reader[e].pc # "none" \/ Starting(e))
    BY <2>4 DEF Looping
  <2>6. \A i \in DOMAIN evlog : evlog[i] # [kind |-> "disconnected", epoch |-> e]
    BY <1>0, <2>5 DEF LogMatchesLoops
  <2>7. Starting(e)' = Starting(e)
    BY <2>2 DEF Starting
  <2> QED
    BY <2>1, <2>2, <2>5, <2>6, <2>7 DEF TookOld
\* It had taken it before: whatever else happens, what is said of it stays true.
<1>2. ASSUME Taken(c), closer'[c].epoch = closer[c].epoch,
             closer[c].pc # "wait" /\ closer'[c].pc = "wait" => closer[c].epoch \notin alive'
      PROVE  \E e \in Epochs : TookOld(c, e)'
  <2>1. PICK e \in Epochs : TookOld(c, e)
    BY <1>0, <1>2, OneCloser DEF CallInv, EventsTruthful
  <2>2. /\ closer[c].epoch = e /\ e # conn /\ reader[e].pc \notin {"clear", "event"}
        /\ closer'[c].epoch = e
        /\ closer'[c].pc = "wait" => closer[c].pc = "wait" \/ e \notin alive'
    BY <1>2, <2>1 DEF TookOld
  <2> DEFINE Kept ==
        /\ epoch' \in {epoch, epoch + 1} /\ conn' \in {conn, 0, epoch + 1}
        /\ alive' \subseteq alive \union {epoch + 1}
        /\ reader'[e].pc \notin {"clear", "event"}
        /\ reader[e].pc # "none" => reader'[e].pc # "none"
        /\ Starting(e) => Starting(e)' \/ reader'[e].pc # "none"
        /\ \/ evlog' = evlog
           \/ \E ev : evlog' = Append(evlog, ev) /\ ev # [kind |-> "disconnected", epoch |-> e]
  <2>3. ASSUME NEW d \in Dialers, DialStart(d) \/ DialReject(d) \/ DialInstall(d)
        PROVE  Kept
    <3>1. dialer[d].pc # "publish" /\ \A f \in Dialers \ {d} : dialer'[f] = dialer[f]
      BY <1>0, <2>3 DEF DialStart, DialReject, DialInstall, TypeOK
    <3>2. Starting(e) => Starting(e)'
      BY <3>1 DEF Starting
    <3> QED
      BY <2>2, <2>3, <3>2 DEF DialStart, DialReject, DialInstall
  <2>4. ASSUME NEW d \in Dialers, DialPublish(d)
        PROVE  Kept
    <3> DEFINE n == dialer[d].epoch
    <3>1. n \in Epochs
      <4>1. dialer[d].pc = "publish"
        BY <2>4 DEF DialPublish
      <4>2. n \in 1 .. epoch
        BY <1>0, <4>1 DEF DialOwnsEpoch
      <4> QED
        BY <1>0, <4>2 DEF Epochs
    <3>2. /\ reader'[n].pc = "read" /\ \A f \in Epochs \ {n} : reader'[f] = reader[f]
          /\ \A f \in Dialers \ {d} : dialer'[f] = dialer[f]
          /\ evlog' = Append(evlog, [kind |-> "connected", epoch |-> n])
          /\ UNCHANGED <<conn, epoch, alive>>
      BY <1>0, <2>4, <3>1 DEF DialPublish, Publish, TypeOK, ReaderState
    <3> HIDE DEF n
    <3>3. Starting(e) => Starting(e)' \/ n = e
      BY <3>2 DEF Starting, n
    <3> QED
      BY <2>2, <3>1, <3>2, <3>3
  <2>5. ASSUME NEW b \in Closers, CloseStep(b)
        PROVE  Kept
    <3>1. /\ UNCHANGED <<epoch, dialer, reader, evlog>>
          /\ conn' \in {conn, 0} /\ alive' \subseteq alive
      BY <2>5 DEF CloseStep, CloseStart, QuitStart, QuitClose, TakeConn, CloseClear,
                  CloseShut, CloseReturn
    <3>2. Starting(e) => Starting(e)'
      BY <3>1 DEF Starting
    <3> QED
      BY <2>2, <3>1, <3>2
  <2>6. ASSUME NEW f \in Epochs, ReadStep(f) \/ Finalize(f)
        PROVE  Kept
    <3>1. /\ UNCHANGED <<epoch, dialer>> /\ conn' \in {conn, 0} /\ alive' \subseteq alive
          /\ \A g \in Epochs \ {f} : reader'[g] = reader[g]
          /\ reader[f].pc # "none" => reader'[f].pc # "none"
          /\ reader'[f].pc \in {"clear", "event"} =>
               conn = f \/ reader[f].pc \in {"clear", "event"}
      BY <1>0, <2>6
         DEF ReadStep, ReadLine, PushLine, PublishRead, OverflowClose, AfterLine, ReadError,
             Cleanup, CleanupClear, CleanupEvent, Finalize, TypeOK, ReaderState
    <3>2. Starting(e) => Starting(e)'
      BY <3>1 DEF Starting
    <3>3. \/ evlog' = evlog
          \/ evlog' = Append(evlog, [kind |-> "disconnected", epoch |-> f]) /\ f # e
      BY <2>2, <2>6
         DEF ReadStep, ReadLine, PushLine, PublishRead, OverflowClose, AfterLine, ReadError,
             Cleanup, CleanupClear, CleanupEvent, Publish, Finalize
    <3> QED
      BY <2>2, <3>1, <3>2, <3>3
  <2>7. ASSUME ClientStep \/ UNCHANGED keeperVars
        PROVE  Kept
    <3>1. UNCHANGED <<conn, epoch, alive, dialer, reader, evlog>>
      BY <2>7 DEF ClientStep, Subscribe, Unsubscribe, RecvEvent, SubscribeLines,
                  UnsubscribeLines, RecvLine, PushBlob, AckSeq, keeperVars
    <3>2. Starting(e) => Starting(e)'
      BY <3>1 DEF Starting
    <3>3. alive' \subseteq alive \union {epoch + 1}
      BY <3>1
    <3> QED
      BY <2>2, <3>1, <3>2, <3>3
  <2> HIDE DEF Kept
  <2>8. Kept
    BY <2>3, <2>4, <2>5, <2>6, <2>7 DEF Next, DialStep
  <2> QED
    BY <1>0, <2>1, <2>2, <2>8, TookOldKept DEF Kept
\* One or the other: nothing but TakeConn brings a Close past taking.
<1>3. \/ TakeConn(c)
      \/ /\ Taken(c) /\ closer'[c].epoch = closer[c].epoch
         /\ closer[c].pc # "wait" /\ closer'[c].pc = "wait" => closer[c].epoch \notin alive'
  <2>1. ASSUME NEW b \in Closers, CloseStep(b), b # c
        PROVE  closer'[c] = closer[c]
    BY <1>0, <2>1 DEF CloseStep, CloseStart, QuitStart, QuitClose, TakeConn, CloseClear,
                      CloseShut, CloseReturn
  <2>2. CASE CloseStep(c)
    <3>1. closer[c] \in CloserState
      BY <1>0
    <3>2. CASE CloseStart(c)
      BY <3>2 DEF CloseStart
    <3>3. CASE QuitStart(c)
      BY <1>0, <3>1, <3>3 DEF QuitStart, Taken
    <3>4. CASE QuitClose(c)
      BY <1>0, <3>1, <3>4 DEF QuitClose, Taken, IdleCloser
    <3>5. CASE CloseClear(c)
      BY <1>0, <3>1, <3>5 DEF CloseClear, Taken, CloserState
    <3>6. CASE CloseShut(c)
      BY <1>0, <3>1, <3>6 DEF CloseShut, Taken, CloserState
    <3>7. CASE CloseReturn(c)
      BY <1>0, <3>1, <3>7 DEF CloseReturn, Taken, IdleCloser
    <3> QED
      BY <2>2, <3>2, <3>3, <3>4, <3>5, <3>6, <3>7 DEF CloseStep
  <2>3. CASE closer' = closer
    BY <2>3 DEF Taken
  <2>4. ASSUME NEW d \in Dialers, DialStep(d)
        PROVE  closer' = closer
    BY <2>4 DEF DialStep, DialStart, DialReject, DialInstall, DialPublish
  <2>5. ASSUME NEW f \in Epochs, ReadStep(f) \/ Finalize(f)
        PROVE  closer' = closer
    BY <2>5 DEF ReadStep, ReadLine, PushLine, PublishRead, OverflowClose, AfterLine, ReadError,
                Cleanup, CleanupClear, CleanupEvent, Finalize
  <2>6. CASE ClientStep \/ UNCHANGED keeperVars
    BY <2>3, <2>6 DEF ClientStep, Subscribe, Unsubscribe, RecvEvent, SubscribeLines,
                      UnsubscribeLines, RecvLine, PushBlob, AckSeq, keeperVars
  <2>7. ASSUME NEW b \in Closers, CloseStep(b)
        PROVE  closer'[c] = closer[c] \/ CloseStep(c)
    BY <2>1, <2>7
  <2>8. closer'[c] = closer[c] \/ CloseStep(c)
    BY <2>4, <2>5, <2>6, <2>7 DEF Next, ClientStep, keeperVars, Subscribe, Unsubscribe, RecvEvent,
        SubscribeLines, UnsubscribeLines, RecvLine, PushBlob, AckSeq
  <2> QED
    BY <2>2, <2>8 DEF Taken
<1> QED
  BY <1>1, <1>2, <1>3

\* Every step keeps CallInv.
LEMMA CallStep ==
  ASSUME KeeperInv, CallInv, [Next]_keeperVars
  PROVE  CallInv'
<1>1. LogMatchesLoops' /\ EventsPaired'
  BY LogStep DEF CallInv, EventsTruthful
<1>2. \A c \in Closers : Taken(c)' => \E e \in Epochs : TookOld(c, e)'
  BY ClosersStep
<1>3. ClosersTookOld' /\ CloseIsSilent' /\ CloseWillReturn'
  BY <1>2, EveryCloser
<1> QED
  BY <1>1, <1>3 DEF CallInv, EventsTruthful

-----------------------------------------------------------------------------
(* Seqs.                                                                   *)

\* Every seq in the ring, and every one that a loop is about to push, has been
\* counted.
SeqsTaken ==
  /\ \A i \in DOMAIN ring : ring[i].seq <= seqCounter
  /\ \A e \in Epochs : reader[e].pc = "push" => reader[e].seq <= seqCounter

SeqInv == SeqsTaken /\ SeqsDistinct

\* A push adds its entry at the end and keeps the order of what it keeps, which
\* is all or all but the oldest.
LEMMA PushEntries ==
  ASSUME NEW S, NEW r \in Seq(S), NEW cap \in Nat \ {0}, NEW x \in S
  PROVE  \E k \in {0, 1} :
           /\ Len(r) - k \in Nat
           /\ DOMAIN Push(r, cap, x) = 1 .. Len(r) - k + 1
           /\ Push(r, cap, x)[Len(r) - k + 1] = x
           /\ \A i \in 1 .. Len(r) - k : Push(r, cap, x)[i] = r[i + k] /\ i + k \in DOMAIN r
<1> DEFINE q == Push(r, cap, x)
           Entries(k) == /\ Len(r) - k \in Nat
                         /\ DOMAIN q = 1 .. Len(r) - k + 1
                         /\ q[Len(r) - k + 1] = x
                         /\ \A i \in 1 .. Len(r) - k : q[i] = r[i + k] /\ i + k \in DOMAIN r
<1>1. CASE Len(r) = cap
  <2>1. r # <<>>
    BY <1>1
  <2>2. /\ Tail(r) \in Seq(S) /\ Len(Tail(r)) = Len(r) - 1 /\ Len(r) - 1 \in Nat
        /\ \A i \in 1 .. Len(r) - 1 : Tail(r)[i] = r[i + 1] /\ i + 1 \in DOMAIN r
    BY <2>1
  <2>3. q = Append(Tail(r), x)
    BY <1>1 DEF Push, PushEvicts
  <2> HIDE DEF q
  <2>4. Len(q) = Len(r) /\ DOMAIN q = 1 .. Len(r) /\ q[Len(r)] = x
    BY <2>2, <2>3
  <2>5. \A i \in 1 .. Len(r) - 1 : q[i] = Tail(r)[i]
    BY <2>2, <2>3
  <2>6. Entries(1)
    BY <2>2, <2>4, <2>5
  <2> QED
    BY <2>6 DEF q
<1>2. CASE Len(r) # cap
  <2>1. q = Append(r, x)
    BY <1>2 DEF Push, PushEvicts
  <2> HIDE DEF q
  <2>2. Entries(0)
    BY <2>1
  <2> QED
    BY <2>2 DEF q
<1> QED
  BY <1>1, <1>2

\* Every step keeps the seqs distinct: a loop takes the next one, and pushes it
\* while no other loop and no entry of the ring has it.
LEMMA SeqStep ==
  ASSUME KeeperInv, SeqInv, [Next]_keeperVars
  PROVE  SeqInv'
<1> USE DEF connVars, streamVars, procVars
<1>0. /\ ring \in Seq(Entry) /\ seqCounter \in Nat /\ RingCap \in Nat \ {0}
      /\ reader \in [Epochs -> ReaderState]
      /\ \A f \in Epochs : reader[f] \in ReaderState /\ reader[f].seq \in Nat
  BY KeeperAssumption DEF KeeperInv, TypeOK, ReaderState
<1>1. \A i \in DOMAIN ring : ring[i] \in Entry /\ ring[i].seq \in Nat
  <2>1. \A i \in DOMAIN ring : ring[i] \in Entry
    BY <1>0
  <2> QED
    BY <2>1 DEF Entry, Seqs
\* No seq is taken or pushed.
<1>2. ASSUME UNCHANGED <<ring, seqCounter>>,
             \A f \in Epochs : reader'[f].pc = "push" => reader'[f] = reader[f]
      PROVE  SeqInv'
  BY <1>2 DEF SeqInv, SeqsTaken, SeqsDistinct
<1>3. ASSUME NEW e \in Epochs, ReadLine(e)
      PROVE  SeqInv'
  <2>1. /\ ring' = ring /\ seqCounter' = seqCounter + 1
        /\ reader'[e].pc = "push" /\ reader'[e].seq = seqCounter + 1
        /\ \A f \in Epochs \ {e} : reader'[f] = reader[f]
    BY <1>0, <1>3 DEF ReadLine, ReaderState
  <2>2. SeqsTaken'
    BY <1>0, <1>1, <2>1 DEF SeqInv, SeqsTaken
  <2>3. SeqsDistinct'
    BY <1>0, <1>1, <2>1 DEF SeqInv, SeqsTaken, SeqsDistinct
  <2> QED
    BY <2>2, <2>3 DEF SeqInv
<1>4. ASSUME NEW e \in Epochs, PushLine(e)
      PROVE  SeqInv'
  <2> DEFINE x == [seq |-> reader[e].seq, epoch |-> e]
  <2>1. /\ ring' = Push(ring, RingCap, x) /\ seqCounter' = seqCounter
        /\ reader[e].pc = "push" /\ reader'[e].pc = "publish"
        /\ \A f \in Epochs \ {e} : reader'[f] = reader[f]
    BY <1>0, <1>4 DEF PushLine, ReaderState
  <2>2. x \in Entry
    BY <1>0, <2>1, KeeperAssumption DEF KeeperInv, ReaderHasSeq, TypeOK, Entry, Seqs, ReaderState
  <2>3. PICK k \in {0, 1} :
           /\ Len(ring) - k \in Nat
           /\ DOMAIN ring' = 1 .. Len(ring) - k + 1
           /\ ring'[Len(ring) - k + 1] = x
           /\ \A i \in 1 .. Len(ring) - k : ring'[i] = ring[i + k] /\ i + k \in DOMAIN ring
    BY <1>0, <2>1, <2>2, PushEntries
  <2> DEFINE n == Len(ring) - k
  <2>4. /\ n \in Nat /\ DOMAIN ring' = 1 .. n + 1 /\ ring'[n + 1].seq = reader[e].seq
        /\ \A i \in 1 .. n : ring'[i] = ring[i + k] /\ i + k \in DOMAIN ring
    BY <2>3
  <2> HIDE DEF x, n
  <2>5. \A i \in 1 .. n : ring'[i].seq # reader[e].seq
    BY <2>1, <2>4 DEF SeqInv, SeqsDistinct
  <2>6. \A i, j \in 1 .. n : i # j => ring'[i].seq # ring'[j].seq
    <3>1. ASSUME NEW i \in 1 .. n, NEW j \in 1 .. n, i # j
          PROVE  ring[i + k].seq # ring[j + k].seq
      <4>1. i + k # j + k
        BY <2>4, <3>1
      <4> QED
        BY <2>4, <4>1 DEF SeqInv, SeqsDistinct
    <3> QED
      BY <2>4, <3>1
  <2>7. \A i, j \in DOMAIN ring' : i # j => ring'[i].seq # ring'[j].seq
    BY <2>4, <2>5, <2>6
  <2>8. \A f \in Epochs : reader'[f].pc = "push" =>
          /\ f # e /\ reader[f].pc = "push" /\ reader'[f] = reader[f]
          /\ reader[f].seq # reader[e].seq
    BY <2>1 DEF SeqInv, SeqsDistinct
  <2>9. SeqsTaken'
    <3>1. \A i \in DOMAIN ring' : ring'[i].seq <= seqCounter
      BY <2>1, <2>4 DEF SeqInv, SeqsTaken
    <3> QED
      BY <2>1, <2>8, <3>1 DEF SeqInv, SeqsTaken
  <2>10. SeqsDistinct'
    <3>1. ASSUME NEW f \in Epochs, reader'[f].pc = "push", NEW i \in DOMAIN ring'
          PROVE  ring'[i].seq # reader'[f].seq
      <4>1. CASE i = n + 1
        BY <2>4, <2>8, <3>1, <4>1
      <4>2. CASE i \in 1 .. n
        BY <2>4, <2>8, <3>1, <4>2 DEF SeqInv, SeqsDistinct
      <4> QED
        BY <2>4, <4>1, <4>2
    <3>2. ASSUME NEW f \in Epochs, NEW g \in Epochs \ {f}, reader'[f].pc = "push",
                 reader'[g].pc = "push"
          PROVE  reader'[g].seq # reader'[f].seq
      BY <2>8, <3>2 DEF SeqInv, SeqsDistinct
    <3> QED
      BY <2>7, <3>1, <3>2 DEF SeqsDistinct
  <2> QED
    BY <2>9, <2>10 DEF SeqInv
<1>5. ASSUME NEW e \in Epochs, ReadStep(e), ~ReadLine(e), ~PushLine(e)
      PROVE  SeqInv'
  <2>1. /\ UNCHANGED <<ring, seqCounter>> /\ reader'[e].pc # "push"
        /\ \A f \in Epochs \ {e} : reader'[f] = reader[f]
    BY <1>0, <1>5
       DEF ReadStep, PublishRead, OverflowClose, AfterLine, ReadError, Cleanup, CleanupClear,
           CleanupEvent, ReaderState
  <2> QED
    BY <1>2, <2>1
<1>6. ASSUME NEW e \in Epochs, Finalize(e)
      PROVE  SeqInv'
  BY <1>2, <1>6 DEF Finalize
<1>7. ASSUME NEW d \in Dialers, DialStep(d)
      PROVE  SeqInv'
  <2>1. CASE DialStart(d) \/ DialReject(d) \/ DialInstall(d)
    BY <1>2, <2>1 DEF DialStart, DialReject, DialInstall
  <2>2. CASE DialPublish(d)
    <3>1. dialer[d].epoch \in Epochs
      <4>1. dialer[d].pc = "publish"
        BY <2>2 DEF DialPublish
      <4>2. dialer[d].epoch \in 1 .. epoch
        BY <4>1 DEF KeeperInv, DialOwnsEpoch
      <4> QED
        BY <4>2, KeeperAssumption DEF KeeperInv, TypeOK, Epochs
    <3>2. /\ UNCHANGED <<ring, seqCounter>> /\ reader'[dialer[d].epoch].pc # "push"
          /\ \A f \in Epochs \ {dialer[d].epoch} : reader'[f] = reader[f]
      BY <1>0, <2>2, <3>1 DEF DialPublish, ReaderState
    <3> QED
      BY <1>2, <3>2
  <2> QED
    BY <1>7, <2>1, <2>2 DEF DialStep
<1>8. ASSUME NEW c \in Closers, CloseStep(c)
      PROVE  SeqInv'
  BY <1>2, <1>8 DEF CloseStep, CloseStart, QuitStart, QuitClose, TakeConn, CloseClear, CloseShut,
                    CloseReturn
<1>9. CASE ClientStep \/ UNCHANGED keeperVars
  BY <1>2, <1>9 DEF ClientStep, Subscribe, Unsubscribe, RecvEvent, SubscribeLines,
                    UnsubscribeLines, RecvLine, PushBlob, AckSeq, keeperVars
<1> QED
  BY <1>3, <1>4, <1>5, <1>6, <1>7, <1>8, <1>9 DEF Next

-----------------------------------------------------------------------------
(* The theorems.                                                           *)

\* A keeper starts with no connection and every loop and call idle, so the
\* invariant holds (New).
LEMMA InitInv == Init => KeeperInv
<1> SUFFICES ASSUME Init PROVE KeeperInv
  OBVIOUS
<1> USE KeeperAssumption
<1>1. TypeOK
  <2>1. NoEvSub \in EvState /\ NoLineSub \in LineState
    BY DEF NoEvSub, NoLineSub, EvState, LineState
  <2>2. IdleDialer \in DialerState /\ IdleCloser \in CloserState
    BY DEF IdleDialer, IdleCloser, DialerState, CloserState, DialerPC, CloserPC
  <2>3. NewReader \in ReaderState
    BY DEF NewReader, ReaderState, ReaderPC
  <2> QED
    BY <2>1, <2>2, <2>3 DEF Init, TypeOK
<1>2. ReaderHasSeq /\ EpochsFresh
  BY DEF Init, ReaderHasSeq, EpochsFresh, NewReader
<1>3. DialOwnsEpoch /\ ConnectedHasReader
  BY DEF Init, DialOwnsEpoch, ConnectedHasReader, IdleDialer
<1> QED
  BY <1>1, <1>2, <1>3 DEF KeeperInv

\* Every step keeps KeeperInv.
LEMMA InvStep ==
  ASSUME KeeperInv, [Next]_keeperVars
  PROVE  KeeperInv'
BY TypeStep, ConnStep DEF KeeperInv, ConnInv

\* The inductive invariant of a keeper: its types, and the bookkeeping that ties
\* conn and epoch to the loop that reads the connection and to the Dial that
\* made it, through every interleaving of Dial, Close, QuitClose and readLoop.
THEOREM KeeperInvariant == Spec => []KeeperInv
<1>1. Init => KeeperInv
  BY InitInv
<1>2. KeeperInv /\ [Next]_keeperVars => KeeperInv'
  BY InvStep
<1> QED
  BY <1>1, <1>2, PTL DEF Spec

\* Keeper's types, for every value of the constants: in particular the ring
\* never outgrows its capacity, whatever loops push to it at once.
THEOREM TypeCorrect == Spec => []TypeOK
<1>1. KeeperInv => TypeOK
  BY DEF KeeperInv
<1> QED
  BY <1>1, KeeperInvariant, PTL

\* The keeper never reports a connection that nobody reads: however Dial,
\* Close, QuitClose and the loops race for Keeper.conn, the current
\* connection's loop runs or is about to be started.
THEOREM ConnectedIsRead == Spec => []ConnectedHasReader
<1>1. KeeperInv => ConnectedHasReader
  BY DEF KeeperInv
<1> QED
  BY <1>1, KeeperInvariant, PTL

\* Also invariant, with KeeperInv: what was announced and what each Close took
\* against where the loops are.
THEOREM CallInvariant == Spec => []CallInv
<1>1. Init => CallInv
  BY DEF Init, CallInv, ClosersTookOld, LogMatchesLoops, EventsTruthful, EventsPaired,
         CloseIsSilent, CloseWillReturn, Taken, IdleCloser, NewReader
<1>2. KeeperInv /\ CallInv /\ [Next]_keeperVars => CallInv'
  BY CallStep
<1> QED
  BY <1>1, <1>2, KeeperInvariant, PTL DEF Spec

\* What subscribers are told of a connection is true: it is announced once and
\* before its loss, its loss once, and never the loss of a connection that was
\* closed on purpose, however Close overlaps the end of readLoop.
THEOREM EventsAreTruthful == Spec => []EventsTruthful
<1>1. CallInv => EventsTruthful
  BY DEF CallInv
<1> QED
  BY <1>1, CallInvariant, PTL

\* A Close that waits for readLoop's done waits for a loop that runs, ran, or is
\* about to be started, and whose socket is closed, also when it came between
\* Dial's unlock and Dial's go readLoop.
THEOREM ClosesDoNotHang == Spec => []CloseWillReturn
<1>1. CallInv => CloseWillReturn
  BY DEF CallInv
<1> QED
  BY <1>1, CallInvariant, PTL

\* The seqs of the lines are never used twice, however the loop of an old
\* connection and the loop of a new one push: a resume by seq names one line.
THEOREM SeqsNeverReused == Spec => []SeqsDistinct
<1>1. Init => SeqInv
  BY DEF Init, SeqInv, SeqsTaken, SeqsDistinct, NewReader
<1>2. KeeperInv /\ SeqInv /\ [Next]_keeperVars => SeqInv'
  BY SeqStep
<1>3. SeqInv => SeqsDistinct
  BY DEF SeqInv
<1> QED
  BY <1>1, <1>2, <1>3, KeeperInvariant, PTL DEF Spec

-----------------------------------------------------------------------------
(* The attaches and the brain on top of it.                                *)

\* What the brain asks.
AskFrame ==
  [t : {"ready", "dial", "close"}] \cup [t : {"ack"}, seq : 0 .. MaxSeq]
  \cup [t : {"push"}, seq : Seqs, epoch : Epochs]

\* What the keeper sends.
SentFrame ==
  [t : {"line"}, seq : Seqs, epoch : Epochs] \cup [t : {"pushres", "closeres"}]
  \cup [t : {"connected", "disconnected"}, epoch : Epochs]
  \cup [t : {"dialres"}, ok : BOOLEAN, epoch : 0 .. MaxEpoch]

FanPC == {"off", "subEvents", "subLines", "catchUp", "loop", "drain", "swap", "end"}
FanState == [pc : FanPC, lastSent : 0 .. MaxSeq, slot : {0, 1}, ev : SentFrame \cup {NoEvent}]
InHand == [pc : {"idle", "await", "ack"}, seq : 0 .. MaxSeq, epoch : 0 .. MaxEpoch]

\* Frames carry what they should: an acknowledgement is of a seq, a push of a line.
FrameTypes ==
  /\ up \in [Sessions -> Seq(AskFrame)]
  /\ wire \in [Sessions -> Seq(SentFrame)]
  /\ lines \in Seq(Entry)
  /\ cur \in InHand /\ (cur.pc # "idle" => cur.seq \in Seqs /\ cur.epoch \in Epochs)

FanTypes ==
  /\ fan \in [Sessions -> FanState]
  /\ \A s \in Sessions : fan[s].pc = "drain" => fan[s].ev \in SentFrame
  /\ feed \in [Sessions -> Seq(Seqs)]

-----------------------------------------------------------------------------
(* The stream.                                                             *)

Calling(d) == dialer[d].pc # "idle"
Reading(e) == reader[e].pc \notin {"none", "done"}

\* There is one Dial or one loop at a time.
OneAtATime ==
  /\ \A d, f \in Dialers : Calling(d) /\ Calling(f) => d = f
  /\ \A e, f \in Epochs : Reading(e) /\ Reading(f) => e = f
  /\ \A d \in Dialers, e \in Epochs : ~(Calling(d) /\ Reading(e))

Pushing == \E e \in Epochs : reader[e].pc = "push"
Publishing == \E e \in Epochs : reader[e].pc \in {"push", "publish"}

\* The last line that is in the ring, and the last that feeds have been given.
Pushed == IF Pushing THEN seqCounter - 1 ELSE seqCounter
Published == IF Publishing THEN seqCounter - 1 ELSE seqCounter

\* A loop works on the line that was read last.
LineInHand ==
  \A e \in Epochs : reader[e].pc \in {"push", "publish"} => reader[e].seq = seqCounter /\ seqCounter > 0

\* q ends at line n and has no gap.
EndsAt(q, n) == \A i \in 1 .. Len(q) : q[i].seq + Len(q) = n + i

RingAtHead == EndsAt(ring, Pushed) /\ (ring = <<>> => Pushed = 0)

Good(x) == lineSub[x].on /\ ~lineSub[x].over

FeedAtHead(x) ==
  /\ Good(x) => EndsAt(lineSub[x].q, Published)
  /\ ~lineSub[x].on => lineSub[x] = NoLineSub

FeedsAtHead == \A x \in Subs : FeedAtHead(x)

\* What is next in a feed that ends at n is at most the line after the last sent.
InStep(q, last, n) == IF q = <<>> THEN last >= n ELSE q[1].seq <= last + 1

\* A fan-in that reads a feed is subscribed to it and in step with it.
FanInStep(s) ==
  /\ fan[s].pc \in {"catchUp", "loop", "drain"} => lineSub[Sub(s)].on
  /\ fan[s].pc = "swap" => lineSub[<<s, 1 - fan[s].slot>>].on
  /\ fan[s].pc \in {"loop", "drain"} /\ ~lineSub[Sub(s)].over =>
       InStep(lineSub[Sub(s)].q, fan[s].lastSent, Published)

\* The last line sent is the one the fan-in thinks it is.
SentIsLast(s) ==
  fan[s].pc # "off" =>
    IF feed[s] = <<>> THEN fan[s].lastSent = 0 ELSE feed[s][Len(feed[s])] = fan[s].lastSent

FansInStep == \A s \in Sessions : FanInStep(s) /\ SentIsLast(s)

StreamInv ==
  LinesApart /\ LineInHand /\ RingAtHead /\ FeedsAtHead /\ FansInStep

SInv == KeeperInv /\ FrameTypes /\ FanTypes /\ StreamInv

-----------------------------------------------------------------------------
(* Lemmas about sequences.                                                 *)

LEMMA HeadTail ==
  ASSUME NEW S, NEW q \in Seq(S), q # <<>>
  PROVE  /\ Head(q) \in S /\ Tail(q) \in Seq(S) /\ q[1] = Head(q) /\ Len(q) \in Nat /\ Len(q) >= 1
         /\ Len(Tail(q)) = Len(q) - 1 /\ \A i \in 1 .. Len(q) - 1 : Tail(q)[i] = q[i + 1]
OBVIOUS

LEMMA EndsAtTail ==
  ASSUME NEW q \in Seq(Entry), q # <<>>, NEW n \in Nat, EndsAt(q, n)
  PROVE  EndsAt(Tail(q), n)
<1>1. /\ Len(q) \in Nat /\ Len(q) >= 1 /\ Len(Tail(q)) = Len(q) - 1
      /\ \A i \in 1 .. Len(q) - 1 : Tail(q)[i] = q[i + 1]
  OBVIOUS
<1> SUFFICES ASSUME NEW i \in 1 .. Len(Tail(q)) PROVE Tail(q)[i].seq + Len(Tail(q)) = n + i
  BY DEF EndsAt
<1>2. q[i + 1].seq + Len(q) = n + (i + 1) /\ i \in 1 .. Len(q) - 1
  BY <1>1 DEF EndsAt
<1>3. q[i + 1] \in Entry
  BY <1>1, <1>2
<1>4. q[i + 1].seq \in Nat
  BY <1>3 DEF Entry, Seqs
<1> QED
  BY <1>1, <1>2, <1>4

LEMMA EndsAtAppend ==
  ASSUME NEW q \in Seq(Entry), NEW n \in Nat, EndsAt(q, n), NEW x \in Entry, x.seq = n + 1
  PROVE  EndsAt(Append(q, x), n + 1)
<1>1. /\ Len(q) \in Nat /\ Len(Append(q, x)) = Len(q) + 1
      /\ \A i \in 1 .. Len(q) : Append(q, x)[i] = q[i] /\ q[i] \in Entry
      /\ Append(q, x)[Len(q) + 1] = x
  OBVIOUS
<1> SUFFICES ASSUME NEW i \in 1 .. Len(q) + 1
             PROVE  Append(q, x)[i].seq + (Len(q) + 1) = (n + 1) + i
  BY <1>1 DEF EndsAt
<1>2. CASE i \in 1 .. Len(q)
  <2>1. q[i].seq + Len(q) = n + i /\ q[i].seq \in Nat
    BY <1>1, <1>2 DEF EndsAt, Entry, Seqs
  <2> QED
    BY <1>1, <1>2, <2>1, SMTT(30)
<1>3. CASE i = Len(q) + 1
  BY <1>1, <1>3
<1> QED
  BY <1>1, <1>2, <1>3

\* The newest line of a feed without a gap.
LEMMA EndsAtLast ==
  ASSUME NEW q \in Seq(Entry), NEW n \in Nat, EndsAt(q, n), q # <<>>
  PROVE  q[Len(q)].seq = n /\ q[1].seq <= n /\ Head(q) = q[1] /\ q[1].seq \in Seqs
<1>1. Len(q) \in Nat /\ Len(q) >= 1 /\ q[1] \in Entry /\ q[Len(q)] \in Entry
  OBVIOUS
<1>2. q[Len(q)].seq + Len(q) = n + Len(q) /\ q[1].seq + Len(q) = n + 1
  BY <1>1 DEF EndsAt
<1> QED
  BY <1>1, <1>2 DEF Entry, Seqs

\* since, of a ring that has no gap: the entries from some position on.
LEMMA SinceIsRest ==
  ASSUME NEW r \in Seq(Entry), NEW n \in Nat, EndsAt(r, n), NEW after \in Nat
  PROVE  LET b == Since(r, after)
         IN  /\ b \in Seq(Entry)
             /\ EndsAt(b, n)
             /\ b = <<>> => r = <<>> \/ n <= after
             /\ b # <<>> /\ SinceOK(r, after) /\ after # 0 => b[1].seq = after + 1
             /\ b # <<>> => LastSeq(b) = n /\ n > after
             /\ \A j \in 1 .. Len(b) : \E i \in DOMAIN r : b[j] = r[i]
             /\ \A i \in DOMAIN r : r[i].seq > after => \E j \in 1 .. Len(b) : b[j] = r[i]
<1> DEFINE later == {i \in DOMAIN r : r[i].seq > after}
           place(i) == Cardinality({k \in later : k <= i})
           pos(m) == CHOOSE i \in later : place(i) = m
           b == Since(r, after)
<1>1. PICK L \in Nat : /\ Len(r) = L /\ DOMAIN r = 1 .. L
                       /\ \A i \in 1 .. L : r[i] \in Entry /\ r[i].seq + L = n + i
  BY DEF EndsAt
<1>2. \A i \in 1 .. L : r[i].seq \in Nat /\ r[i].seq + L = n + i
  BY <1>1 DEF Entry, Seqs
<1>3. PICK a \in 1 .. L + 1 : later = a .. L
  <2>1. later = {i \in 1 .. L : i + n > after + L}
    BY <1>1, <1>2
  <2> HIDE DEF later
  <2>2. CASE after >= n
    <3>1. later = (L + 1) .. L
      BY <2>1, <2>2
    <3> QED
      BY <3>1
  <2>3. CASE after < n /\ after + L < n
    <3>1. later = 1 .. L
      BY <2>1, <2>3
    <3> QED
      BY <3>1
  <2>4. CASE after < n /\ after + L >= n
    <3>1. after + L + 1 - n \in 1 .. L + 1 /\ later = (after + L + 1 - n) .. L
      BY <2>1, <2>4
    <3> QED
      BY <3>1
  <2> QED
    BY <2>2, <2>3, <2>4
<1>4. PICK C \in Nat : C = L + 1 - a
  OBVIOUS
<1>5. b = [m \in 1 .. Cardinality(later) |-> r[pos(m)]]
  BY DEF Since
<1> HIDE DEF b
<1>6. Cardinality(a .. L) = C
  <2>1. a \in Int /\ L \in Int
    OBVIOUS
  <2>2. Cardinality(a .. L) = IF a > L THEN 0 ELSE L - a + 1
    BY <2>1, FS_Interval
  <2> QED
    BY <1>4, <2>2
<1>7. ASSUME NEW i \in a .. L PROVE place(i) = i - a + 1
  <2>1. {k \in a .. L : k <= i} = a .. i
    OBVIOUS
  <2>2. a \in Int /\ i \in Int /\ ~ (a > i)
    OBVIOUS
  <2>3. Cardinality(a .. i) = i - a + 1
    BY <2>2, FS_Interval
  <2> QED
    BY <1>3, <2>1, <2>3
<1> HIDE DEF place, later
<1>8. ASSUME NEW m \in 1 .. C PROVE pos(m) = a + m - 1
  <2>1. a + m - 1 \in a .. L
    BY <1>4
  <2>2. place(a + m - 1) = m
    BY <1>7, <2>1
  <2>3. \A i \in later : place(i) = m => i = a + m - 1
    BY <1>3, <1>7
  <2> QED
    BY <1>3, <2>1, <2>2, <2>3
<1>9. b = [m \in 1 .. C |-> r[a + m - 1]]
  <2>1. Cardinality(later) = C
    BY <1>3, <1>6
  <2> HIDE DEF pos
  <2>2. b = [m \in 1 .. C |-> r[pos(m)]]
    BY <1>5, <2>1
  <2> QED
    BY <1>8, <2>2
<1>10. /\ \A m \in 1 .. C : a + m - 1 \in 1 .. L
       /\ C >= 1 => a \in 1 .. L /\ a + 1 - 1 = a /\ a + C - 1 = L /\ 1 \in 1 .. C /\ C \in 1 .. C
  BY <1>4
<1>11. b \in Seq(Entry) /\ Len(b) = C /\ \A m \in 1 .. C : b[m] = r[a + m - 1]
  BY <1>1, <1>9, <1>10
<1>12. EndsAt(b, n)
  <2> SUFFICES ASSUME NEW m \in 1 .. C PROVE b[m].seq + C = n + m
    BY <1>11 DEF EndsAt
  <2>1. r[a + m - 1].seq + L = n + (a + m - 1) /\ r[a + m - 1].seq \in Nat
    BY <1>2, <1>10
  <2>2. r[a + m - 1].seq + C = n + m
    <3>1. ASSUME NEW k \in Nat, k + L = n + (a + m - 1) PROVE k + C = n + m
      BY <1>4, <3>1
    <3> QED
      BY <2>1, <3>1
  <2> QED
    BY <1>11, <2>2
<1>13. b = <<>> => r = <<>> \/ n <= after
  <2> SUFFICES ASSUME b = <<>>, r # <<>> PROVE n <= after
    OBVIOUS
  <2>1. a = L + 1 /\ L >= 1
    BY <1>1, <1>4, <1>11
  <2>2. L \notin later
    BY <1>3, <2>1
  <2>3. ~ (r[L].seq > after)
    BY <1>1, <2>1, <2>2 DEF later
  <2> QED
    BY <1>2, <2>1, <2>3
<1>14. ASSUME b # <<>> PROVE C >= 1
  BY <1>11, <1>14
<1>15. ASSUME b # <<>> PROVE LastSeq(b) = n /\ n > after
  <2>1. L \in later /\ L \in 1 .. L /\ L >= 1
    BY <1>3, <1>10, <1>14, <1>15
  <2>2. r[L].seq > after /\ r[L].seq + L = n + L /\ r[L].seq \in Nat
    BY <1>2, <2>1 DEF later
  <2>3. b[C] = r[L]
    BY <1>10, <1>11, <1>14, <1>15
  <2>4. r[L].seq = n /\ n > after
    BY <2>1, <2>2
  <2> QED
    BY <1>11, <1>15, <2>3, <2>4 DEF LastSeq
<1>16. ASSUME b # <<>>, SinceOK(r, after), after # 0 PROVE b[1].seq = after + 1
  <2>1. C >= 1
    BY <1>14, <1>16
  <2>2. b[1] = r[a] /\ a \in 1 .. L
    BY <1>10, <1>11, <2>1
  <2>3. r # <<>> /\ 1 \in 1 .. L
    BY <1>1, <2>2
  <2>4. after + 1 >= r[1].seq
    BY <1>16, <2>3 DEF SinceOK
  <2>5. after + L >= n
    BY <1>2, <2>3, <2>4
  <2>6. after < n
    BY <1>15, <1>16
  <2>7. after + L + 1 - n \in 1 .. L
    BY <2>5, <2>6
  <2>8. a = after + L + 1 - n
    <3>1. \A i \in 1 .. L : i \in later <=> i + n > after + L
      BY <1>1, <1>2 DEF later
    <3> QED
      BY <1>3, <2>2, <2>7, <3>1
  <2>9. r[a].seq + L = n + a /\ r[a].seq \in Nat
    BY <1>2, <2>2
  <2>10. ASSUME NEW k \in Nat, k + L = n + a PROVE k = after + 1
    BY <2>8, <2>10
  <2> QED
    BY <2>2, <2>9, <2>10
<1>17. \A j \in 1 .. Len(b) : \E i \in DOMAIN r : b[j] = r[i]
  BY <1>1, <1>10, <1>11
<1>18. ASSUME NEW i \in DOMAIN r, r[i].seq > after PROVE \E j \in 1 .. Len(b) : b[j] = r[i]
  <2>1. i \in a .. L
    BY <1>3, <1>18 DEF later
  <2>2. i - a + 1 \in 1 .. C /\ a + (i - a + 1) - 1 = i
    BY <1>4, <2>1
  <2>3. b[i - a + 1] = r[i]
    BY <1>11, <2>2
  <2> QED
    BY <1>11, <2>2, <2>3
<1> QED
  BY <1>11, <1>12, <1>13, <1>15, <1>16, <1>17, <1>18 DEF b

-----------------------------------------------------------------------------
(* The keeper's part.                                                      *)

\* The loop that takes a step, its effect on what was pushed and published.
LEMMA ReadMoves ==
  ASSUME SInv, LinesApart', NEW e \in Epochs, ReadStep(e)
  PROVE  /\ LineInHand'
         /\ \/ /\ Pushed' = Pushed /\ Published' = Published
               /\ UNCHANGED <<ring, lineSub>>
            \/ /\ Pushed \in Nat /\ Pushed' = Pushed + 1 /\ Published' = Published
               /\ ring' = Push(ring, RingCap, [seq |-> Pushed + 1, epoch |-> e])
               /\ [seq |-> Pushed + 1, epoch |-> e] \in Entry
               /\ UNCHANGED lineSub
            \/ /\ Pushed' = Pushed
               /\ Published \in Nat /\ Published' = Published + 1
               /\ PublishLine([seq |-> Published + 1, epoch |-> e])
               /\ [seq |-> Published + 1, epoch |-> e] \in Entry
               /\ UNCHANGED ring
<1> USE DEF connVars, streamVars, procVars
<1>0. /\ reader \in [Epochs -> ReaderState] /\ seqCounter \in 0 .. MaxSeq
      /\ LinesApart /\ LineInHand
  BY DEF SInv, KeeperInv, TypeOK, StreamInv
<1>3. \A f \in Epochs \ {e} : reader'[f] = reader[f]
  BY <1>0 DEF ReadStep, ReadLine, PushLine, PublishRead, OverflowClose, AfterLine, ReadError,
         Cleanup, CleanupClear, CleanupEvent
\* A loop with a line in hand is the only one that has.
<1>4. ASSUME reader[e].pc \in {"push", "publish"} \/ reader'[e].pc \in {"push", "publish"}
      PROVE  \A f \in Epochs \ {e} : reader[f].pc \notin {"push", "publish"}
  BY <1>0, <1>3, <1>4 DEF LinesApart
<1>5. ASSUME reader[e].pc \in {"push", "publish"} \/ reader'[e].pc \in {"push", "publish"}
      PROVE  /\ Pushing <=> reader[e].pc = "push"
             /\ Publishing <=> reader[e].pc \in {"push", "publish"}
             /\ Pushing' <=> reader'[e].pc = "push"
             /\ Publishing' <=> reader'[e].pc \in {"push", "publish"}
  BY <1>3, <1>4, <1>5 DEF Pushing, Publishing
<1>6. CASE ReadLine(e)
  <2>1. /\ reader[e].pc = "read" /\ reader'[e].pc = "push" /\ reader'[e].seq = seqCounter + 1
        /\ seqCounter' = seqCounter + 1 /\ UNCHANGED <<ring, lineSub>>
    BY <1>0, <1>6 DEF ReadLine, ReaderState
  <2>2. LineInHand'
    BY <1>0, <1>3, <1>4, <2>1 DEF LineInHand
  <2>3. Pushed' = Pushed /\ Published' = Published
    BY <1>0, <1>5, <2>1 DEF Pushed, Published
  <2> QED
    BY <2>1, <2>2, <2>3
<1>7. CASE PushLine(e)
  <2>1. /\ reader[e].pc = "push" /\ reader'[e].pc = "publish" /\ reader'[e].seq = reader[e].seq
        /\ ring' = Push(ring, RingCap, [seq |-> reader[e].seq, epoch |-> e])
        /\ UNCHANGED <<seqCounter, lineSub>>
    BY <1>0, <1>7 DEF PushLine, ReaderState
  <2>2. reader[e].seq = seqCounter /\ seqCounter > 0
    BY <1>0, <2>1 DEF LineInHand
  <2>3. LineInHand'
    BY <1>0, <1>3, <1>4, <2>1, <2>2 DEF LineInHand
  <2>4. /\ Pushed \in Nat /\ Pushed + 1 = seqCounter /\ Pushed' = Pushed + 1
        /\ Published' = Published
    BY <1>0, <1>5, <2>1, <2>2, KeeperAssumption DEF Pushed, Published
  <2>5. [seq |-> Pushed + 1, epoch |-> e] \in Entry
    BY <1>0, <2>2, <2>4, KeeperAssumption DEF Entry, Seqs
  <2> QED
    BY <2>1, <2>2, <2>3, <2>4, <2>5
<1>8. CASE PublishRead(e)
  <2>1. /\ reader[e].pc = "publish" /\ reader'[e].pc = "check"
        /\ PublishLine([seq |-> reader[e].seq, epoch |-> e])
        /\ UNCHANGED <<seqCounter, ring>>
    BY <1>0, <1>8 DEF PublishRead, ReaderState
  <2>2. reader[e].seq = seqCounter /\ seqCounter > 0
    BY <1>0, <2>1 DEF LineInHand
  <2>3. LineInHand'
    BY <1>0, <1>3, <1>4, <2>1, <2>2 DEF LineInHand
  <2>4. /\ Published \in Nat /\ Published + 1 = seqCounter /\ Published' = Published + 1
        /\ Pushed' = Pushed
    BY <1>0, <1>5, <2>1, <2>2, KeeperAssumption DEF Pushed, Published
  <2>5. [seq |-> Published + 1, epoch |-> e] \in Entry
    BY <1>0, <2>2, <2>4, KeeperAssumption DEF Entry, Seqs
  <2> QED
    BY <2>1, <2>2, <2>3, <2>4, <2>5
<1>9. CASE ~ReadLine(e) /\ ~PushLine(e) /\ ~PublishRead(e)
  <2>1. /\ reader[e].pc \notin {"push", "publish"} /\ reader'[e].pc \notin {"push", "publish"}
        /\ UNCHANGED <<seqCounter, ring, lineSub>>
    BY <1>0, <1>9 DEF ReadStep, OverflowClose, AfterLine, ReadError, Cleanup, CleanupClear,
                      CleanupEvent, ReaderState
  <2>2. LineInHand'
    BY <1>0, <1>3, <2>1 DEF LineInHand
  <2>3. /\ Pushing' <=> Pushing
        /\ Publishing' <=> Publishing
    BY <1>3, <2>1 DEF Pushing, Publishing
  <2>4. Pushed' = Pushed /\ Published' = Published
    BY <2>1, <2>3 DEF Pushed, Published
  <2> QED
    BY <2>1, <2>2, <2>4
<1> QED
  BY <1>6, <1>7, <1>8, <1>9

\* What the composition does to its keeper.
KeeperMove ==
  \/ [Next]_keeperVars
  \/ \E x \in Entry : PushBlob(x)
  \/ \E n \in 0 .. MaxSeq : AckSeq(n)
  \/ \E s \in Sessions : FanEnd(s)

\* A line that is published goes to every feed, or the feed overflows.
LEMMA FeedPublished ==
  ASSUME KeeperInv, NEW n \in Nat, NEW x \in Subs, NEW y \in Entry, y.seq = n + 1, PublishLine(y),
         Good(x) => EndsAt(lineSub[x].q, n), ~lineSub[x].on => lineSub[x] = NoLineSub
  PROVE  /\ Good(x)' => /\ Good(x) /\ EndsAt(lineSub'[x].q, n + 1)
                        /\ lineSub'[x].q = Append(lineSub[x].q, y) /\ lineSub[x].q \in Seq(Entry)
         /\ ~lineSub'[x].on => lineSub'[x] = NoLineSub
         /\ lineSub'[x].on = lineSub[x].on
<1>1. lineSub[x] \in LineState /\ lineSub'[x] = FeedLine(lineSub[x], y)
  BY DEF KeeperInv, TypeOK, PublishLine
<1>2. lineSub[x].q \in Seq(Entry)
  BY <1>1 DEF LineState
<1>3. CASE ~lineSub[x].on
  BY <1>1, <1>3 DEF FeedLine, Good
<1>4. CASE lineSub[x].on /\ Len(lineSub[x].q) < SubBuf
  <2>1. /\ lineSub'[x].q = Append(lineSub[x].q, y)
        /\ lineSub'[x].on = lineSub[x].on /\ lineSub'[x].over = lineSub[x].over
    BY <1>1, <1>4 DEF FeedLine, LineState
  <2>2. ASSUME Good(x)' PROVE Good(x) /\ EndsAt(lineSub'[x].q, n + 1)
    BY <1>2, <2>1, <2>2, EndsAtAppend DEF Good
  <2> QED
    BY <1>2, <1>4, <2>1, <2>2
<1>5. CASE lineSub[x].on /\ ~ (Len(lineSub[x].q) < SubBuf)
  <2>1. lineSub'[x].on = lineSub[x].on /\ lineSub'[x].over
    BY <1>1, <1>5 DEF FeedLine, LineState
  <2> QED
    BY <1>5, <2>1 DEF Good
<1> QED
  BY <1>3, <1>4, <1>5

\* A push keeps the ring without a gap, and moves its end.
LEMMA RingPushed ==
  ASSUME NEW r \in Seq(Entry), NEW cap \in Nat \ {0}, NEW n \in Nat, EndsAt(r, n), r = <<>> => n = 0,
         NEW y \in Entry, y.seq = n + 1
  PROVE  EndsAt(Push(r, cap, y), n + 1) /\ Push(r, cap, y) # <<>>
<1>1. CASE Len(r) = cap
  <2>1. r # <<>>
    BY <1>1
  <2>2. Tail(r) \in Seq(Entry) /\ EndsAt(Tail(r), n)
    BY <2>1, EndsAtTail
  <2>3. EndsAt(Append(Tail(r), y), n + 1)
    BY <2>2, EndsAtAppend
  <2>4. Append(Tail(r), y) # <<>>
    <3>1. Len(Append(Tail(r), y)) = Len(Tail(r)) + 1 /\ Len(Tail(r)) \in Nat
      BY <2>2
    <3> QED
      BY <3>1
  <2> QED
    BY <1>1, <2>3, <2>4 DEF Push, PushEvicts
<1>2. CASE Len(r) # cap
  <2>1. EndsAt(Append(r, y), n + 1) /\ Append(r, y) # <<>>
    BY EndsAtAppend
  <2> QED
    BY <1>2, <2>1 DEF Push, PushEvicts
<1> QED
  BY <1>1, <1>2

\* What the keeper has pushed is at least what it has published.
LEMMA PublishedBounds ==
  ASSUME KeeperInv, LineInHand
  PROVE  Pushed \in 0 .. MaxSeq /\ Published \in 0 .. MaxSeq /\ Published <= Pushed
<1>1. seqCounter \in 0 .. MaxSeq
  BY DEF KeeperInv, TypeOK
<1>2. Publishing => seqCounter > 0
  BY DEF Publishing, LineInHand
<1>3. Pushing => Publishing
  BY DEF Pushing, Publishing
<1> QED
  BY <1>1, <1>2, <1>3, KeeperAssumption DEF Pushed, Published

\* Whatever the composition does, the ring and the feeds stay without a gap.
LEMMA PipeStep ==
  ASSUME SInv, LinesApart', KeeperMove
  PROVE  LineInHand' /\ RingAtHead' /\ FeedsAtHead'
<1> USE DEF connVars, streamVars, procVars
<1>0. /\ reader \in [Epochs -> ReaderState] /\ dialer \in [Dialers -> DialerState]
      /\ ring \in Seq(Entry) /\ lineSub \in [Subs -> LineState]
      /\ LineInHand /\ RingAtHead /\ \A x \in Subs : FeedAtHead(x)
      /\ KeeperInv
  BY DEF SInv, KeeperInv, TypeOK, StreamInv, FeedsAtHead
<1>1. Pushed \in Nat /\ Published \in Nat
  BY <1>0, PublishedBounds
\* Nothing moves but feeds.
<1>2. ASSUME UNCHANGED <<reader, seqCounter, ring>>,
             \A x \in Subs : lineSub'[x] = lineSub[x] \/ FeedAtHead(x)'
      PROVE  LineInHand' /\ RingAtHead' /\ FeedsAtHead'
  <2>1. Pushed' = Pushed /\ Published' = Published
    BY <1>2 DEF Pushed, Published, Pushing, Publishing
  <2>2. LineInHand' /\ RingAtHead'
    BY <1>0, <1>2, <2>1 DEF LineInHand, RingAtHead
  <2>3. ASSUME NEW x \in Subs, lineSub'[x] = lineSub[x] PROVE FeedAtHead(x)'
    BY <1>0, <2>1, <2>3 DEF FeedAtHead, Good
  <2> QED
    BY <1>2, <2>2, <2>3 DEF FeedsAtHead
<1>3. ASSUME NEW e \in Epochs, ReadStep(e)
      PROVE  LineInHand' /\ RingAtHead' /\ FeedsAtHead'
  <2>1. LineInHand'
    BY <1>3, ReadMoves
  <2>2. CASE UNCHANGED <<ring, lineSub>> /\ Pushed' = Pushed /\ Published' = Published
    BY <1>0, <2>1, <2>2 DEF RingAtHead, FeedsAtHead, FeedAtHead, Good
  <2>3. CASE /\ Pushed \in Nat /\ Pushed' = Pushed + 1 /\ Published' = Published
             /\ ring' = Push(ring, RingCap, [seq |-> Pushed + 1, epoch |-> e])
             /\ [seq |-> Pushed + 1, epoch |-> e] \in Entry
             /\ UNCHANGED lineSub
    <3>1. RingAtHead'
      BY <1>0, <2>3, RingPushed, KeeperAssumption DEF RingAtHead
    <3>2. FeedsAtHead'
      BY <1>0, <2>3 DEF FeedsAtHead, FeedAtHead, Good
    <3> QED
      BY <2>1, <3>1, <3>2
  <2>4. CASE /\ Pushed' = Pushed
             /\ Published \in Nat /\ Published' = Published + 1
             /\ PublishLine([seq |-> Published + 1, epoch |-> e])
             /\ [seq |-> Published + 1, epoch |-> e] \in Entry
             /\ UNCHANGED ring
    <3>1. RingAtHead'
      BY <1>0, <2>4 DEF RingAtHead
    <3>2. ASSUME NEW x \in Subs PROVE FeedAtHead(x)'
      BY <1>0, <2>4, FeedPublished DEF FeedAtHead
    <3> QED
      BY <2>1, <3>1, <3>2 DEF FeedsAtHead
  <2> QED
    BY <1>3, <2>2, <2>3, <2>4, ReadMoves
<1>4. ASSUME NEW d \in Dialers, DialStep(d)
      PROVE  LineInHand' /\ RingAtHead' /\ FeedsAtHead'
  <2>1. CASE DialStart(d) \/ DialReject(d) \/ DialInstall(d)
    BY <1>2, <2>1 DEF DialStart, DialReject, DialInstall
  <2>2. CASE DialPublish(d)
    <3>1. PICK e \in Epochs : e = dialer[d].epoch /\ reader[e].pc = "none"
      <4>1. dialer[d].pc = "publish"
        BY <2>2 DEF DialPublish
      <4>2. dialer[d].epoch \in 1 .. epoch /\ epoch \in 0 .. MaxEpoch
        BY <1>0, <4>1 DEF KeeperInv, DialOwnsEpoch, TypeOK
      <4>3. reader[dialer[d].epoch].pc = "none"
        BY <1>0, <4>1 DEF KeeperInv, DialOwnsEpoch
      <4> QED
        BY <4>2, <4>3, KeeperAssumption DEF Epochs
    <3>2. /\ UNCHANGED <<seqCounter, ring, lineSub>>
          /\ \A f \in Epochs \ {e} : reader'[f] = reader[f]
          /\ reader'[e].pc = "read"
      BY <1>0, <2>2, <3>1 DEF DialPublish, ReaderState
    <3>3. /\ Pushing' <=> Pushing
          /\ Publishing' <=> Publishing
      BY <3>1, <3>2 DEF Pushing, Publishing
    <3>4. Pushed' = Pushed /\ Published' = Published
      BY <3>2, <3>3 DEF Pushed, Published
    <3>5. LineInHand'
      BY <1>0, <3>2 DEF LineInHand
    <3> QED
      BY <1>0, <3>2, <3>4, <3>5 DEF RingAtHead, FeedsAtHead, FeedAtHead, Good
  <2> QED
    BY <1>4, <2>1, <2>2 DEF DialStep
<1>5. ASSUME NEW c \in Closers, CloseStep(c)
      PROVE  LineInHand' /\ RingAtHead' /\ FeedsAtHead'
  BY <1>2, <1>5 DEF CloseStep, CloseStart, QuitStart, QuitClose, TakeConn, CloseClear, CloseShut,
                    CloseReturn
<1>6. ASSUME UNCHANGED <<reader, seqCounter, ring>>,
             \A x \in Subs : \/ lineSub'[x] = lineSub[x] \/ lineSub'[x] = NoLineSub
                             \/ lineSub'[x] = [on |-> TRUE, q |-> <<>>, over |-> FALSE]
      PROVE  LineInHand' /\ RingAtHead' /\ FeedsAtHead'
  <2>1. ASSUME NEW x \in Subs, lineSub'[x] = NoLineSub PROVE FeedAtHead(x)'
    BY <2>1 DEF FeedAtHead, Good, NoLineSub
  <2>2. ASSUME NEW x \in Subs, lineSub'[x] = [on |-> TRUE, q |-> <<>>, over |-> FALSE]
        PROVE  FeedAtHead(x)'
    BY <2>2 DEF FeedAtHead, Good, EndsAt
  <2> QED
    BY <1>2, <1>6, <2>1, <2>2
<1>7. ASSUME NEW x \in Subs, RecvLine(x)
      PROVE  LineInHand' /\ RingAtHead' /\ FeedsAtHead'
  <2>1. /\ UNCHANGED <<reader, seqCounter, ring>>
        /\ \A y \in Subs \ {x} : lineSub'[y] = lineSub[y]
        /\ lineSub[x].q # <<>> /\ lineSub[x].q \in Seq(Entry)
        /\ lineSub'[x].q = Tail(lineSub[x].q)
        /\ lineSub'[x].on = lineSub[x].on /\ lineSub'[x].over = lineSub[x].over
    BY <1>0, <1>7 DEF RecvLine, LineState
  <2>2. Published' = Published /\ lineSub[x].on
    BY <1>0, <2>1 DEF Published, Publishing, FeedAtHead, NoLineSub
  <2>3. Good(x)' => Good(x) /\ EndsAt(lineSub'[x].q, Published')
    BY <1>0, <1>1, <2>1, <2>2, EndsAtTail DEF Good, FeedAtHead
  <2>4. FeedAtHead(x)'
    BY <2>1, <2>2, <2>3 DEF FeedAtHead
  <2> QED
    BY <1>2, <2>1, <2>4
<1>8. ASSUME ClientStep \/ UNCHANGED keeperVars \/ (\E y \in Entry : PushBlob(y))
               \/ (\E n \in 0 .. MaxSeq : AckSeq(n))
      PROVE  LineInHand' /\ RingAtHead' /\ FeedsAtHead'
  <2>1. CASE \E x \in Subs : SubscribeLines(x) \/ UnsubscribeLines(x)
    <3>1. PICK x \in Subs : SubscribeLines(x) \/ UnsubscribeLines(x)
      BY <2>1
    <3>2. /\ UNCHANGED <<reader, seqCounter, ring>>
          /\ \A y \in Subs \ {x} : lineSub'[y] = lineSub[y]
          /\ lineSub'[x] = NoLineSub \/ lineSub'[x] = [on |-> TRUE, q |-> <<>>, over |-> FALSE]
      BY <1>0, <3>1 DEF SubscribeLines, UnsubscribeLines
    <3> QED
      BY <1>6, <3>2
  <2>2. CASE \E x \in Subs : RecvLine(x)
    BY <1>7, <2>2
  <2>3. CASE ~ \E x \in Subs : SubscribeLines(x) \/ UnsubscribeLines(x) \/ RecvLine(x)
    BY <1>2, <1>8, <2>3 DEF ClientStep, keeperVars, Subscribe, Unsubscribe, RecvEvent, PushBlob, AckSeq
  <2> QED
    BY <2>1, <2>2, <2>3
<1>9. ASSUME NEW s \in Sessions, FanEnd(s)
      PROVE  LineInHand' /\ RingAtHead' /\ FeedsAtHead'
  BY <1>6, <1>9 DEF FanEnd
<1>10. ASSUME NEW e \in Epochs, Finalize(e)
       PROVE  LineInHand' /\ RingAtHead' /\ FeedsAtHead'
  BY <1>2, <1>10 DEF Finalize
<1> QED
  BY <1>3, <1>4, <1>5, <1>8, <1>9, <1>10 DEF KeeperMove, Next

-----------------------------------------------------------------------------
(* The frames.                                                             *)

\* Frames that are sent join those on their way.
LEMMA SendType ==
  ASSUME FrameTypes, NEW s, NEW msgs \in Seq(SentFrame), Send(s, msgs)
  PROVE  wire' \in [Sessions -> Seq(SentFrame)]
<1>1. ASSUME NEW q \in Seq(SentFrame) PROVE q \o msgs \in Seq(SentFrame)
  OBVIOUS
<1> QED
  BY <1>1 DEF FrameTypes, Send

\* So do requests.
LEMMA AskType ==
  ASSUME FrameTypes, NEW s, NEW msgs \in Seq(AskFrame), Ask(s, msgs)
  PROVE  up' \in [Sessions -> Seq(AskFrame)]
<1>1. ASSUME NEW q \in Seq(AskFrame) PROVE q \o msgs \in Seq(AskFrame)
  OBVIOUS
<1> QED
  BY <1>1 DEF FrameTypes, Ask

\* A request that is handled is the oldest, and goes.
LEMMA RequestType ==
  ASSUME FrameTypes, NEW s \in Sessions, NEW t, Request(s, t)
  PROVE  /\ up' \in [Sessions -> Seq(AskFrame)]
         /\ Head(up[s]) \in AskFrame /\ Head(up[s]).t = t
<1>1. up[s] \in Seq(AskFrame) /\ up[s] # <<>>
  BY DEF FrameTypes, Request
<1>2. Head(up[s]) \in AskFrame /\ Tail(up[s]) \in Seq(AskFrame)
  BY <1>1, HeadTail
<1> QED
  BY <1>2 DEF FrameTypes, Request

\* Every frame the keeper and the brain make is one of those.
LEMMA FrameKinds ==
  ASSUME KeeperInv
  PROVE  /\ \A x \in Entry : LineMsg(x) \in SentFrame
         /\ \A x \in Event : EventMsg(x) \in SentFrame
         /\ \A ok \in BOOLEAN : DialResult(ok) \in SentFrame
         /\ [t |-> "pushres"] \in SentFrame /\ [t |-> "closeres"] \in SentFrame
         /\ \A x \in Seqs : [t |-> "ack", seq |-> x] \in AskFrame
         /\ \A x \in Seqs, e \in Epochs : [t |-> "push", seq |-> x, epoch |-> e] \in AskFrame
         /\ [t |-> "ready"] \in AskFrame /\ [t |-> "dial"] \in AskFrame /\ [t |-> "close"] \in AskFrame
<1>1. epoch \in 0 .. MaxEpoch
  BY DEF KeeperInv, TypeOK
<1>2. \A x \in Entry : LineMsg(x) \in SentFrame
  BY DEF LineMsg, Entry, SentFrame
<1>3. \A x \in Event : EventMsg(x) \in SentFrame
  BY DEF EventMsg, Event, SentFrame
<1>4. \A ok \in BOOLEAN : DialResult(ok) \in SentFrame
  BY <1>1 DEF DialResult, SentFrame
<1>5. \A x \in Seqs : [t |-> "ack", seq |-> x] \in AskFrame
  BY KeeperAssumption DEF Seqs, AskFrame
<1>6. \A x \in Seqs, e \in Epochs : [t |-> "push", seq |-> x, epoch |-> e] \in AskFrame
  BY DEF AskFrame
<1> QED
  BY <1>2, <1>3, <1>4, <1>5, <1>6 DEF SentFrame, AskFrame

LEMMA Singleton ==
  ASSUME NEW S, NEW x \in S
  PROVE  <<x>> \in Seq(S)
OBVIOUS

\* The lines of the ring that a fan-in catches up on.
LEMMA BacklogFrames ==
  ASSUME NEW q \in Seq(Entry), KeeperInv
  PROVE  LineMsgs(q) \in Seq(SentFrame) /\ SeqsOf(q) \in Seq(Seqs)
         /\ Len(SeqsOf(q)) = Len(q) /\ \A i \in 1 .. Len(q) : SeqsOf(q)[i] = q[i].seq
<1>1. Len(q) \in Nat /\ DOMAIN q = 1 .. Len(q) /\ \A i \in 1 .. Len(q) : q[i] \in Entry
  OBVIOUS
<1>2. \A i \in 1 .. Len(q) : LineMsg(q[i]) \in SentFrame /\ q[i].seq \in Seqs
  BY <1>1, FrameKinds DEF Entry
<1> QED
  BY <1>1, <1>2 DEF LineMsgs, SeqsOf

\* Every step keeps the frames', the lines' and the current line's types.
LEMMA FrameStep ==
  ASSUME SInv, [SNext]_vars
  PROVE  FrameTypes'
<1> USE DEF sessVars, brainVars, histVars
<1>0. FrameTypes /\ FanTypes /\ KeeperInv /\ RingAtHead /\ LineInHand
  BY DEF SInv, StreamInv
<1>1. ASSUME UNCHANGED <<lines, cur>>, up' \in [Sessions -> Seq(AskFrame)],
             wire' \in [Sessions -> Seq(SentFrame)]
      PROVE  FrameTypes'
  BY <1>0, <1>1 DEF FrameTypes
<1>2. up \in [Sessions -> Seq(AskFrame)] /\ wire \in [Sessions -> Seq(SentFrame)]
  BY <1>0 DEF FrameTypes
<1>3. ASSUME UNCHANGED <<lines, cur, up, wire>> PROVE FrameTypes'
  BY <1>1, <1>2, <1>3
<1>4. ASSUME NEW s, NEW x \in SentFrame, Send(s, <<x>>), UNCHANGED <<lines, cur>>,
             up' \in [Sessions -> Seq(AskFrame)]
      PROVE  FrameTypes'
  <2>1. <<x>> \in Seq(SentFrame)
    BY Singleton
  <2> QED
    BY <1>0, <1>1, <1>4, <2>1, SendType
<1>5. ASSUME NEW s, NEW x \in AskFrame, Ask(s, <<x>>), UNCHANGED wire,
             lines' \in Seq(Entry),
             cur' \in InHand /\ (cur'.pc # "idle" => cur'.seq \in Seqs /\ cur'.epoch \in Epochs)
      PROVE  FrameTypes'
  <2>1. <<x>> \in Seq(AskFrame)
    BY Singleton
  <2>2. up' \in [Sessions -> Seq(AskFrame)]
    BY <1>0, <1>5, <2>1, AskType
  <2> QED
    BY <1>2, <1>5, <2>2 DEF FrameTypes
<1>6. /\ lines \in Seq(Entry)
      /\ cur \in InHand /\ (cur.pc # "idle" => cur.seq \in Seqs /\ cur.epoch \in Epochs)
  BY <1>0 DEF FrameTypes
\* The keeper's own steps.
<1>7. ASSUME NEW e \in Epochs, KeeperRead(e) PROVE FrameTypes'
  BY <1>3, <1>7 DEF KeeperRead
<1>8. ASSUME NEW c \in Closers, KeeperClose(c) PROVE FrameTypes'
  BY <1>3, <1>8 DEF KeeperClose
<1>9. ASSUME NEW c \in Closers, HandleCloseResult(c) PROVE FrameTypes'
  BY <1>0, <1>2, <1>4, <1>9, FrameKinds DEF HandleCloseResult
<1>10. ASSUME NEW d \in Dialers, HandleDialInstall(d) PROVE FrameTypes'
  BY <1>3, <1>10 DEF HandleDialInstall
<1>11. ASSUME NEW d \in Dialers, HandleDialResult(d) PROVE FrameTypes'
  <2>1. PICK ok \in BOOLEAN : Send(owner[d], <<DialResult(ok)>>)
    BY <1>11 DEF HandleDialResult
  <2>2. DialResult(ok) \in SentFrame
    BY <1>0, FrameKinds
  <2> QED
    BY <1>2, <1>4, <1>11, <2>1, <2>2 DEF HandleDialResult
\* Attach, requests and teardown.
<1>12. ASSUME NEW s \in Sessions, LiveReady(s) \/ Teardown(s) PROVE FrameTypes'
  <2>1. CASE up[s] = <<>>
    BY <1>1, <1>2, <1>12, <2>1 DEF LiveReady, Teardown
  <2>2. CASE up[s] # <<>>
    <3>1. Head(up[s]) \in AskFrame /\ Tail(up[s]) \in Seq(AskFrame)
      BY <1>2, <2>2, HeadTail
    <3>2. <<Head(up[s])>> \in Seq(AskFrame) /\ <<>> \in Seq(AskFrame)
      BY <3>1, Singleton
    <3>3. \A q \in Seq(AskFrame) : [up EXCEPT ![s] = q] \in [Sessions -> Seq(AskFrame)]
      BY <1>2
    <3>4. PICK q \in Seq(AskFrame) : up' = [up EXCEPT ![s] = q]
      BY <1>12, <3>1, <3>2 DEF LiveReady, Teardown
    <3>5. up' \in [Sessions -> Seq(AskFrame)]
      BY <3>3, <3>4
    <3> QED
      BY <1>1, <1>2, <1>12, <3>5 DEF LiveReady, Teardown
  <2> QED
    BY <2>1, <2>2
<1>13. ASSUME NEW s \in Sessions, HandleBlobPush(s) PROVE FrameTypes'
  <2>1. up' \in [Sessions -> Seq(AskFrame)]
    BY <1>0, <1>13, RequestType DEF HandleBlobPush
  <2> QED
    BY <1>0, <1>4, <1>13, <2>1, FrameKinds DEF HandleBlobPush
<1>14. ASSUME NEW s \in Sessions, HandleSeqAck(s) PROVE FrameTypes'
  <2>1. up' \in [Sessions -> Seq(AskFrame)]
    BY <1>0, <1>14, RequestType DEF HandleSeqAck
  <2> QED
    BY <1>1, <1>2, <1>14, <2>1 DEF HandleSeqAck
<1>15. ASSUME NEW s \in Sessions, HandleDial(s) PROVE FrameTypes'
  <2>1. up' \in [Sessions -> Seq(AskFrame)]
    BY <1>0, <1>15, RequestType DEF HandleDial
  <2>2. CASE UNCHANGED wire
    BY <1>1, <1>2, <1>15, <2>1, <2>2 DEF HandleDial
  <2>3. CASE Send(s, <<DialResult(FALSE)>>)
    <3>1. DialResult(FALSE) \in SentFrame
      BY <1>0, FrameKinds
    <3> QED
      BY <1>4, <1>15, <2>1, <2>3, <3>1 DEF HandleDial
  <2> QED
    BY <1>15, <2>2, <2>3 DEF HandleDial
<1>16. ASSUME NEW s \in Sessions, HandleClose(s) PROVE FrameTypes'
  <2>1. up' \in [Sessions -> Seq(AskFrame)]
    BY <1>0, <1>16, RequestType DEF HandleClose
  <2>2. CASE UNCHANGED wire
    BY <1>1, <1>2, <1>16, <2>1, <2>2 DEF HandleClose
  <2>3. CASE Send(s, <<[t |-> "closeres"]>>)
    BY <1>0, <1>4, <1>16, <2>1, <2>3, FrameKinds DEF HandleClose
  <2> QED
    BY <1>16, <2>2, <2>3 DEF HandleClose
\* The fan-in.
<1>17. ASSUME NEW s \in Sessions,
              \/ FanSubscribe(s) \/ FanSubscribeLines(s) \/ FanOverflow(s) \/ FanSwap(s)
              \/ FanEvent(s) \/ FanEnd(s) \/ OtherNetworkGap(s)
       PROVE  FrameTypes'
  BY <1>3, <1>17 DEF FanSubscribe, FanSubscribeLines, FanOverflow, FanSwap, FanEvent, FanEnd,
                     OtherNetworkGap
<1>18. ASSUME NEW s \in Sessions, FanCatchUp(s) PROVE FrameTypes'
  <2>1. fan[s].lastSent \in Nat /\ ring \in Seq(Entry) /\ Pushed \in Nat
    BY <1>0, PublishedBounds, KeeperAssumption DEF FanTypes, FanState, KeeperInv, TypeOK
  <2>2. Since(ring, fan[s].lastSent) \in Seq(Entry)
    BY <1>0, <2>1, SinceIsRest DEF RingAtHead
  <2>3. LineMsgs(Since(ring, fan[s].lastSent)) \in Seq(SentFrame)
    BY <1>0, <2>2, BacklogFrames
  <2>4. wire' \in [Sessions -> Seq(SentFrame)]
    BY <1>0, <1>2, <1>18, <2>3, SendType DEF FanCatchUp
  <2> QED
    BY <1>1, <1>2, <1>18, <2>4 DEF FanCatchUp
<1>19. ASSUME NEW s \in Sessions, FanTake(s) PROVE FrameTypes'
  <2>1. Sub(s) \in Subs
    BY <1>0, LiveSessionAssumption DEF Sub, FanTypes, FanState
  <2>2. lineSub[Sub(s)].q \in Seq(Entry) /\ lineSub[Sub(s)].q # <<>>
    BY <1>0, <1>19, <2>1 DEF FanTake, RecvLine, KeeperInv, TypeOK, LineState
  <2>3. LineMsg(Head(lineSub[Sub(s)].q)) \in SentFrame
    BY <1>0, <2>2, HeadTail, FrameKinds
  <2> QED
    BY <1>2, <1>3, <1>4, <1>19, <2>3 DEF FanTake
<1>20. ASSUME NEW s \in Sessions, FanForward(s) PROVE FrameTypes'
  <2>1. fan[s].ev \in SentFrame
    BY <1>0, <1>20 DEF FanForward, FanAt, FanTypes
  <2> QED
    BY <1>2, <1>4, <1>20, <2>1 DEF FanForward
\* The brain.
<1>21. ASSUME NEW s \in Sessions, AttachHello(s) \/ BrainDetached(s) PROVE FrameTypes'
  BY <1>3, <1>21 DEF AttachHello, BrainDetached
<1>22. ASSUME NEW s \in Sessions, AttachAck(s) PROVE FrameTypes'
  <2>1. <<[t |-> "ready"]>> \in Seq(AskFrame)
    BY <1>0, Singleton, FrameKinds
  <2> QED
    BY <1>1, <1>2, <1>22, <2>1 DEF AttachAck
<1>23. ASSUME NEW s \in Sessions, BrainRecv(s) PROVE FrameTypes'
  <2> DEFINE m == Head(wire[s])
  <2>1. m \in SentFrame /\ Tail(wire[s]) \in Seq(SentFrame)
    BY <1>2, <1>23, HeadTail DEF BrainRecv
  <2>2. wire' \in [Sessions -> Seq(SentFrame)] /\ up' = up
    BY <1>2, <1>23, <2>1 DEF BrainRecv
  <2>3. lines' \in Seq(Entry)
    <3>1. CASE m.t = "line"
      <4>1. [seq |-> m.seq, epoch |-> m.epoch] \in Entry
        BY <2>1, <3>1 DEF SentFrame, Entry
      <4>2. Append(lines, [seq |-> m.seq, epoch |-> m.epoch]) \in Seq(Entry)
        BY <1>6, <4>1
      <4> QED
        BY <1>6, <1>23, <3>1, <4>2 DEF BrainRecv
    <3>2. CASE m.t # "line"
      BY <1>6, <1>23, <3>2 DEF BrainRecv
    <3> QED
      BY <3>1, <3>2
  <2>4. cur' = cur \/ (cur.pc = "await" /\ cur' = [cur EXCEPT !.pc = "ack"])
    BY <1>23 DEF BrainRecv
  <2>5. cur' \in InHand /\ (cur'.pc # "idle" => cur'.seq \in Seqs /\ cur'.epoch \in Epochs)
    BY <1>6, <2>4 DEF InHand
  <2> QED
    BY <1>2, <2>2, <2>3, <2>5 DEF FrameTypes
<1>24. ASSUME NEW s \in Sessions, BrainHandle(s) PROVE FrameTypes'
  <2> DEFINE x == Head(lines)
  <2>1. x \in Entry /\ Tail(lines) \in Seq(Entry)
    BY <1>6, <1>24, HeadTail DEF BrainHandle
  <2>2. /\ x.seq \in Seqs /\ x.epoch \in Epochs
        /\ \A pc \in {"await", "ack"} : [pc |-> pc, seq |-> x.seq, epoch |-> x.epoch] \in InHand
    BY <2>1, KeeperAssumption DEF Entry, InHand, Seqs, Epochs
  <2>3. PICK pc \in {"await", "ack"} : cur' = [pc |-> pc, seq |-> x.seq, epoch |-> x.epoch]
    BY <1>24 DEF BrainHandle
  <2>4. cur' \in InHand /\ cur'.seq \in Seqs /\ cur'.epoch \in Epochs /\ lines' \in Seq(Entry)
    BY <1>24, <2>1, <2>2, <2>3 DEF BrainHandle
  <2>5. CASE UNCHANGED up
    BY <1>2, <1>24, <2>4, <2>5 DEF BrainHandle, FrameTypes
  <2>6. CASE Ask(s, <<[t |-> "push", seq |-> x.seq, epoch |-> x.epoch]>>)
    BY <1>0, <1>5, <1>24, <2>2, <2>4, <2>6, FrameKinds DEF BrainHandle
  <2> QED
    BY <1>24, <2>5, <2>6 DEF BrainHandle
<1>25. ASSUME NEW s \in Sessions, BrainPushTimeout(s) PROVE FrameTypes'
  <2>1. cur' \in InHand /\ (cur'.pc # "idle" => cur'.seq \in Seqs /\ cur'.epoch \in Epochs)
    BY <1>6, <1>25 DEF BrainPushTimeout, InHand
  <2> QED
    BY <1>2, <1>6, <1>25, <2>1 DEF BrainPushTimeout, FrameTypes
<1>26. NoLine \in InHand /\ NoLine.pc = "idle"
  BY KeeperAssumption DEF NoLine, InHand
<1>27. ASSUME NEW s \in Sessions, BrainAck(s) PROVE FrameTypes'
  <2>1. [t |-> "ack", seq |-> cur.seq] \in AskFrame
    BY <1>0, <1>6, <1>27, FrameKinds DEF BrainAck
  <2> QED
    BY <1>5, <1>6, <1>26, <1>27, <2>1 DEF BrainAck
<1>28. ASSUME NEW s \in Sessions, BrainDial(s) \/ BrainReconnect(s) PROVE FrameTypes'
  BY <1>0, <1>5, <1>6, <1>28, FrameKinds DEF BrainDial, BrainReconnect
<1>29. ASSUME BrainCrash PROVE FrameTypes'
  <2>1. wire' = [wire EXCEPT ![brain.sess] = <<>>] /\ up' = up /\ cur' = NoLine /\ lines' = <<>>
    BY <1>29 DEF BrainCrash
  <2>2. \A q \in Seq(SentFrame) : [wire EXCEPT ![brain.sess] = q] \in [Sessions -> Seq(SentFrame)]
    BY <1>2
  <2>3. <<>> \in Seq(SentFrame) /\ <<>> \in Seq(Entry)
    OBVIOUS
  <2> QED
    BY <1>2, <1>26, <2>1, <2>2, <2>3 DEF FrameTypes
<1>30. ASSUME UNCHANGED vars PROVE FrameTypes'
  BY <1>3, <1>30 DEF vars
<1> QED
  BY <1>7, <1>8, <1>9, <1>10, <1>11, <1>12, <1>13, <1>14, <1>15, <1>16, <1>17, <1>18, <1>19,
     <1>20, <1>21, <1>22, <1>23, <1>24, <1>25, <1>27, <1>28, <1>29, <1>30
     DEF SNext, SessionStep, FanStep, BrainStep, FanLine, FanDrain

-----------------------------------------------------------------------------
(* The keeper inside the composition.                                      *)

\* Every step of the composition is one of the keeper's or leaves it alone.
LEMMA KeeperMoves ==
  ASSUME SInv, [SNext]_vars
  PROVE  KeeperMove
<1> USE DEF KeeperMove
<1>0. FrameTypes /\ FanTypes
  BY DEF SInv
<1>1. ASSUME UNCHANGED keeperVars PROVE KeeperMove
  BY <1>1
<1>2. ASSUME NEW e \in Epochs, KeeperRead(e) PROVE KeeperMove
  BY <1>2 DEF KeeperRead, Next
<1>3. ASSUME NEW c \in Closers, KeeperClose(c) \/ HandleCloseResult(c) PROVE KeeperMove
  BY <1>3 DEF KeeperClose, HandleCloseResult, Next, CloseStep
<1>4. ASSUME NEW d \in Dialers, HandleDialInstall(d) \/ HandleDialResult(d) PROVE KeeperMove
  BY <1>4 DEF HandleDialInstall, HandleDialResult, Next, DialStep
<1>5. ASSUME NEW s \in Sessions, HandleBlobPush(s) PROVE KeeperMove
  <2> DEFINE x == [seq |-> Head(up[s]).seq, epoch |-> Head(up[s]).epoch]
  <2>1. Head(up[s]) \in AskFrame /\ Head(up[s]).t = "push"
    BY <1>0, <1>5, RequestType DEF HandleBlobPush
  <2>2. x \in Entry
    BY <2>1 DEF AskFrame, Entry
  <2>3. PushBlob(x)
    BY <1>5 DEF HandleBlobPush
  <2> QED
    BY <2>2, <2>3
<1>6. ASSUME NEW s \in Sessions, HandleSeqAck(s) PROVE KeeperMove
  <2>1. Head(up[s]) \in AskFrame /\ Head(up[s]).t = "ack"
    BY <1>0, <1>6, RequestType DEF HandleSeqAck
  <2>2. Head(up[s]).seq \in 0 .. MaxSeq
    BY <2>1 DEF AskFrame
  <2>3. AckSeq(Head(up[s]).seq)
    BY <1>6 DEF HandleSeqAck
  <2> QED
    BY <2>2, <2>3
<1>7. ASSUME NEW s \in Sessions, HandleDial(s) PROVE KeeperMove
  <2>1. (\E d \in Dialers : DialStart(d)) \/ UNCHANGED keeperVars
    BY <1>7 DEF HandleDial
  <2> QED
    BY <2>1 DEF Next, DialStep
<1>8. ASSUME NEW s \in Sessions, HandleClose(s) PROVE KeeperMove
  <2>1. (\E c \in Closers : CloseStart(c)) \/ UNCHANGED keeperVars
    BY <1>8 DEF HandleClose
  <2> QED
    BY <2>1 DEF Next, CloseStep
<1>9. ASSUME NEW s \in Sessions,
             \/ FanSubscribe(s) \/ FanSubscribeLines(s) \/ FanTake(s) \/ FanOverflow(s)
             \/ FanSwap(s) \/ FanEvent(s)
      PROVE  KeeperMove
  <2>1. fan[s].slot \in {0, 1}
    BY <1>0 DEF FanTypes, FanState
  <2>2. Sub(s) \in Subs /\ <<s, 0>> \in Subs /\ <<s, 1 - fan[s].slot>> \in Subs
    BY <2>1, LiveSessionAssumption DEF Sub
  <2>3. ClientStep
    BY <1>9, <2>2 DEF FanSubscribe, FanSubscribeLines, FanTake, FanOverflow, FanSwap, FanEvent,
                      ClientStep
  <2> QED
    BY <2>3 DEF Next
<1>10. ASSUME NEW s \in Sessions,
              \/ LiveReady(s) \/ Teardown(s) \/ FanCatchUp(s) \/ FanForward(s) \/ OtherNetworkGap(s)
              \/ AttachHello(s) \/ AttachAck(s) \/ BrainRecv(s) \/ BrainDetached(s)
              \/ BrainHandle(s) \/ BrainPushTimeout(s) \/ BrainAck(s) \/ BrainDial(s)
              \/ BrainReconnect(s)
       PROVE  KeeperMove
  BY <1>1, <1>10 DEF LiveReady, Teardown, FanCatchUp, FanForward, OtherNetworkGap, AttachHello,
      AttachAck, BrainRecv, BrainDetached, BrainHandle, BrainPushTimeout, BrainAck, BrainDial,
      BrainReconnect
<1>11. ASSUME BrainCrash \/ UNCHANGED vars PROVE KeeperMove
  BY <1>1, <1>11 DEF BrainCrash, vars
<1>12. ASSUME NEW s \in Sessions, FanEnd(s) PROVE KeeperMove
  BY <1>12
<1> QED
  BY <1>2, <1>3, <1>4, <1>5, <1>6, <1>7, <1>8, <1>9, <1>10, <1>11, <1>12
     DEF SNext, SessionStep, FanStep, BrainStep, FanLine, FanDrain

\* So it stays a keeper.
LEMMA KeeperKept ==
  ASSUME KeeperInv, KeeperMove
  PROVE  KeeperInv'
<1> USE DEF connVars, streamVars, procVars
<1>1. CASE [Next]_keeperVars
  BY <1>1, InvStep
<1>2. ASSUME UNCHANGED <<conn, epoch, dialer, reader, closer>>, TypeOK' PROVE KeeperInv'
  BY <1>2 DEF KeeperInv, ReaderHasSeq, EpochsFresh, DialOwnsEpoch, ConnectedHasReader
<1>3. ASSUME NEW x \in Entry, PushBlob(x) PROVE KeeperInv'
  <2>1. TypeOK'
    BY <1>3 DEF PushBlob, KeeperInv, TypeOK
  <2> QED
    BY <1>2, <1>3, <2>1 DEF PushBlob
<1>4. ASSUME NEW n \in 0 .. MaxSeq, AckSeq(n) PROVE KeeperInv'
  <2>1. TypeOK'
    BY <1>4 DEF AckSeq, KeeperInv, TypeOK
  <2> QED
    BY <1>2, <1>4, <2>1 DEF AckSeq
<1>5. ASSUME NEW s \in Sessions, FanEnd(s) PROVE KeeperInv'
  <2>1. NoEvSub \in EvState /\ NoLineSub \in LineState
    BY DEF NoEvSub, NoLineSub, EvState, LineState
  <2>2. evSub' \in [Subs -> EvState] /\ lineSub' \in [Subs -> LineState]
    BY <1>5, <2>1 DEF FanEnd, KeeperInv, TypeOK
  <2>3. TypeOK'
    BY <1>5, <2>2 DEF FanEnd, KeeperInv, TypeOK
  <2> QED
    BY <1>2, <1>5, <2>3 DEF FanEnd
<1> QED
  BY <1>1, <1>3, <1>4, <1>5 DEF KeeperMove

-----------------------------------------------------------------------------
(* The fan-ins.                                                            *)

\* A step that moves one fan-in, and appends to its feed or starts it anew.
LEMMA FanAssign ==
  ASSUME FanTypes, NEW s \in Sessions, NEW f \in FanState, f.pc = "drain" => f.ev \in SentFrame,
         NEW q \in Seq(Seqs),
         fan' = [fan EXCEPT ![s] = f], feed' = [feed EXCEPT ![s] = q]
  PROVE  FanTypes'
BY DEF FanTypes

\* Every step keeps the types of the fan-ins.
LEMMA FanTypeStep ==
  ASSUME SInv, [SNext]_vars
  PROVE  FanTypes'
<1> USE DEF sessVars, brainVars, histVars
<1>0. FanTypes /\ KeeperInv /\ RingAtHead /\ LineInHand
  BY DEF SInv, StreamInv
<1>1. ASSUME UNCHANGED <<fan, feed>> PROVE FanTypes'
  BY <1>0, <1>1 DEF FanTypes
<1>2. \A s \in Sessions : /\ fan[s] \in FanState /\ feed[s] \in Seq(Seqs)
                          /\ fan[s].pc = "drain" => fan[s].ev \in SentFrame
  BY <1>0 DEF FanTypes
<1>3. deliveredSeq \in 0 .. MaxSeq
  BY <1>0 DEF KeeperInv, TypeOK
\* Steps of one fan-in that leave its feed alone.
<1>4. ASSUME NEW s \in Sessions, NEW f \in FanState, f.pc = "drain" => f.ev \in SentFrame,
             fan' = [fan EXCEPT ![s] = f], UNCHANGED feed
      PROVE  FanTypes'
  BY <1>0, <1>4 DEF FanTypes
<1>5. ASSUME NEW s, NEW wanted, StartFanIn(s, wanted) PROVE FanTypes'
  <2>1. CASE UNCHANGED <<fan, feed>>
    BY <1>1, <2>1
  <2> DEFINE f == [NoFan EXCEPT !.pc = "subEvents", !.lastSent = deliveredSeq]
             q == IF deliveredSeq = 0 THEN <<>> ELSE <<deliveredSeq>>
  <2>2. CASE fan' = [fan EXCEPT ![s] = f] /\ feed' = [feed EXCEPT ![s] = q]
    <3>1. f \in FanState /\ f.pc = "subEvents"
      BY <1>3 DEF NoFan, FanState, FanPC, NoEvent
    <3>2. <<>> \in Seq(Seqs)
      OBVIOUS
    <3>3. ASSUME deliveredSeq # 0 PROVE <<deliveredSeq>> \in Seq(Seqs)
      <4>1. deliveredSeq \in Seqs
        BY <1>3, <3>3, KeeperAssumption DEF Seqs
      <4> QED
        BY <4>1, Singleton
    <3>4. q \in Seq(Seqs)
      BY <3>2, <3>3
    <3> HIDE DEF f, q
    <3> QED
      BY <1>0, <2>2, <3>1, <3>4 DEF FanTypes
  <2> QED
    BY <1>5, <2>1, <2>2 DEF StartFanIn
<1>6. ASSUME NEW s \in Sessions, LiveReady(s) PROVE FanTypes'
  BY <1>5, <1>6 DEF LiveReady
<1>7. ASSUME NEW d \in Dialers, HandleDialResult(d) PROVE FanTypes'
  BY <1>1, <1>5, <1>7 DEF HandleDialResult
<1>8. ASSUME NEW s \in Sessions, FanSubscribe(s) PROVE FanTypes'
  <2>1. [fan[s] EXCEPT !.pc = "subLines"] \in FanState
    BY <1>2 DEF FanState, FanPC
  <2> QED
    BY <1>4, <1>8, <2>1 DEF FanSubscribe, FanState
<1>9. ASSUME NEW s \in Sessions, FanSubscribeLines(s) PROVE FanTypes'
  <2>1. [fan[s] EXCEPT !.pc = "catchUp"] \in FanState
    BY <1>2 DEF FanState, FanPC
  <2> QED
    BY <1>4, <1>9, <2>1 DEF FanSubscribeLines, FanState
<1>10. ASSUME NEW s \in Sessions, FanOverflow(s) PROVE FanTypes'
  <2>1. [fan[s] EXCEPT !.pc = "swap"] \in FanState
    BY <1>2 DEF FanState, FanPC
  <2> QED
    BY <1>4, <1>10, <2>1 DEF FanOverflow, FanState
<1>11. ASSUME NEW s \in Sessions, FanSwap(s) PROVE FanTypes'
  <2>1. PICK k \in {0, 1} : k = 1 - fan[s].slot
    BY <1>2 DEF FanState
  <2>2. [fan[s] EXCEPT !.pc = "catchUp", !.slot = k] \in FanState
    BY <1>2 DEF FanState, FanPC
  <2>3. fan' = [fan EXCEPT ![s] = [fan[s] EXCEPT !.pc = "catchUp", !.slot = k]] /\ UNCHANGED feed
    BY <1>11, <2>1 DEF FanSwap
  <2>4. [fan[s] EXCEPT !.pc = "catchUp", !.slot = k].pc = "catchUp"
    BY <1>2 DEF FanState
  <2> QED
    BY <1>4, <2>2, <2>3, <2>4
<1>12. ASSUME NEW s \in Sessions, FanEvent(s) PROVE FanTypes'
  <2> DEFINE ev == EventMsg(Head(evSub[<<s, 0>>].q))
  <2>1. <<s, 0>> \in Subs
    BY LiveSessionAssumption
  <2>2. evSub[<<s, 0>>].q \in Seq(Event) /\ evSub[<<s, 0>>].q # <<>>
    BY <1>0, <1>12, <2>1 DEF FanEvent, RecvEvent, KeeperInv, TypeOK, EvState
  <2>3. ev \in SentFrame
    BY <1>0, <2>2, HeadTail, FrameKinds
  <2> HIDE DEF ev
  <2>4. [fan[s] EXCEPT !.pc = "drain", !.ev = ev] \in FanState
    BY <1>2, <2>3 DEF FanState, FanPC
  <2>5. fan' = [fan EXCEPT ![s] = [fan[s] EXCEPT !.pc = "drain", !.ev = ev]] /\ UNCHANGED feed
    BY <1>12 DEF FanEvent, ev
  <2>6. [fan[s] EXCEPT !.pc = "drain", !.ev = ev].ev = ev
    BY <1>2 DEF FanState
  <2> QED
    BY <1>4, <2>3, <2>4, <2>5, <2>6
<1>13. ASSUME NEW s \in Sessions, FanForward(s) PROVE FanTypes'
  <2>1. [fan[s] EXCEPT !.pc = "loop", !.ev = NoEvent] \in FanState
    BY <1>2 DEF FanState, FanPC
  <2>2. fan' = [fan EXCEPT ![s] = [fan[s] EXCEPT !.pc = "loop", !.ev = NoEvent]] /\ UNCHANGED feed
    BY <1>13 DEF FanForward
  <2>3. [fan[s] EXCEPT !.pc = "loop", !.ev = NoEvent].pc = "loop"
    BY <1>2 DEF FanState
  <2> QED
    BY <1>4, <2>1, <2>2, <2>3
<1>14. ASSUME NEW s \in Sessions, FanEnd(s) PROVE FanTypes'
  <2>1. NoFan \in FanState /\ NoFan.pc = "off"
    BY KeeperAssumption DEF NoFan, FanState, FanPC, NoEvent
  <2> QED
    BY <1>4, <1>14, <2>1 DEF FanEnd
<1>15. ASSUME NEW s \in Sessions, FanTake(s) PROVE FanTypes'
  <2> DEFINE e == Head(lineSub[Sub(s)].q)
  <2>1. CASE UNCHANGED <<fan, feed>>
    BY <1>1, <2>1
  <2>2. CASE /\ fan' = [fan EXCEPT ![s].lastSent = e.seq]
             /\ feed' = [feed EXCEPT ![s] = Append(@, e.seq)]
    <3>1. Sub(s) \in Subs
      BY <1>0, LiveSessionAssumption DEF Sub, FanTypes, FanState
    <3>2. lineSub[Sub(s)].q \in Seq(Entry) /\ lineSub[Sub(s)].q # <<>>
      BY <1>0, <1>15, <3>1 DEF FanTake, RecvLine, KeeperInv, TypeOK, LineState
    <3>3. e \in Entry
      BY <3>2, HeadTail
    <3>4. e.seq \in Seqs /\ e.seq \in 0 .. MaxSeq
      BY <3>3, KeeperAssumption DEF Entry, Seqs
    <3> HIDE DEF e
    <3>5. [fan[s] EXCEPT !.lastSent = e.seq] \in FanState
      BY <1>2, <3>4 DEF FanState
    <3>6. Append(feed[s], e.seq) \in Seq(Seqs)
      BY <1>2, <3>4
    <3>7. /\ [fan[s] EXCEPT !.lastSent = e.seq].pc = fan[s].pc
          /\ [fan[s] EXCEPT !.lastSent = e.seq].ev = fan[s].ev
      BY <1>2 DEF FanState
    <3> QED
      BY <1>0, <1>2, <2>2, <3>5, <3>6, <3>7, FanAssign
  <2> QED
    BY <1>15, <2>1, <2>2 DEF FanTake
<1>16. ASSUME NEW s \in Sessions, FanCatchUp(s) PROVE FanTypes'
  <2> DEFINE b == Since(ring, fan[s].lastSent)
  <2>1. fan[s].lastSent \in 0 .. MaxSeq /\ fan[s].lastSent \in Nat /\ ring \in Seq(Entry) /\ Pushed \in 0 .. MaxSeq
    BY <1>0, <1>2, PublishedBounds, KeeperAssumption DEF FanState, KeeperInv, TypeOK
  <2>2. b \in Seq(Entry) /\ (b # <<>> => LastSeq(b) = Pushed)
    <3>1. Pushed \in Nat /\ EndsAt(ring, Pushed)
      BY <1>0, <2>1 DEF RingAtHead
    <3> QED
      BY <2>1, <3>1, SinceIsRest
  <2>3. SeqsOf(b) \in Seq(Seqs)
    BY <1>0, <2>2, BacklogFrames
  <2>4. CASE UNCHANGED feed /\ fan' = [fan EXCEPT ![s].pc = "end"]
    <3>1. [fan[s] EXCEPT !.pc = "end"] \in FanState
      BY <1>2 DEF FanState, FanPC
    <3> QED
      BY <1>4, <2>4, <3>1 DEF FanState
  <2>5. CASE /\ fan' = [fan EXCEPT ![s].pc = "loop",
                                   ![s].lastSent = IF b = <<>> THEN @ ELSE LastSeq(b)]
             /\ feed' = [feed EXCEPT ![s] = @ \o SeqsOf(b)]
    <3>1. PICK n \in 0 .. MaxSeq : n = IF b = <<>> THEN fan[s].lastSent ELSE LastSeq(b)
      BY <2>1, <2>2
    <3> HIDE DEF b
    <3>2. [fan[s] EXCEPT !.pc = "loop", !.lastSent = n] \in FanState
      BY <1>2 DEF FanState, FanPC
    <3>3. feed[s] \o SeqsOf(b) \in Seq(Seqs)
      BY <1>2, <2>3
    <3>4. fan' = [fan EXCEPT ![s] = [fan[s] EXCEPT !.pc = "loop", !.lastSent = n]]
      BY <1>2, <2>5, <3>1 DEF FanState
    <3>5. [fan[s] EXCEPT !.pc = "loop", !.lastSent = n].pc = "loop"
      BY <1>2 DEF FanState
    <3> QED
      BY <1>0, <2>5, <3>2, <3>3, <3>4, <3>5, FanAssign
  <2> QED
    BY <1>16, <2>4, <2>5 DEF FanCatchUp
<1>17. ASSUME NEW s \in Sessions,
              \/ Teardown(s) \/ OtherNetworkGap(s) \/ HandleBlobPush(s) \/ HandleSeqAck(s)
              \/ HandleDial(s) \/ HandleClose(s)
              \/ AttachHello(s) \/ AttachAck(s) \/ BrainRecv(s) \/ BrainDetached(s)
              \/ BrainHandle(s) \/ BrainPushTimeout(s) \/ BrainAck(s) \/ BrainDial(s)
              \/ BrainReconnect(s)
       PROVE  FanTypes'
  BY <1>1, <1>17 DEF Teardown, OtherNetworkGap, HandleBlobPush, HandleSeqAck, HandleDial, HandleClose,
      AttachHello, AttachAck, BrainRecv, BrainDetached, BrainHandle, BrainPushTimeout, BrainAck,
      BrainDial, BrainReconnect
<1>18. ASSUME NEW c \in Closers, KeeperClose(c) \/ HandleCloseResult(c) PROVE FanTypes'
  BY <1>1, <1>18 DEF KeeperClose, HandleCloseResult
<1>19. ASSUME NEW e \in Epochs, KeeperRead(e) PROVE FanTypes'
  BY <1>1, <1>19 DEF KeeperRead
<1>20. ASSUME NEW d \in Dialers, HandleDialInstall(d) PROVE FanTypes'
  BY <1>1, <1>20 DEF HandleDialInstall
<1>21. ASSUME BrainCrash \/ UNCHANGED vars PROVE FanTypes'
  BY <1>1, <1>21 DEF BrainCrash, vars
<1> QED
  BY <1>6, <1>7, <1>8, <1>9, <1>10, <1>11, <1>12, <1>13, <1>14, <1>15, <1>16, <1>17, <1>18, <1>19,
     <1>20, <1>21 DEF SNext, SessionStep, FanStep, BrainStep, FanLine, FanDrain

\* What a fan-in appends to its feed follows on.
NextInOrder(s) ==
  \A i \in Len(feed[s]) + 1 .. Len(feed'[s]) :
    i > 1 /\ ~MayReadOverflowed(s) => feed'[s][i] = feed'[s][i - 1] + 1

\* A fan-in goes on in step, and in order.
FanGoes(s) == FanInStep(s)' /\ SentIsLast(s)' /\ NextInOrder(s)

\* The facts about one fan-in.
LEMMA FanFacts ==
  ASSUME SInv, NEW s \in Sessions
  PROVE  /\ fan[s] \in FanState /\ fan[s].slot \in {0, 1} /\ fan[s].lastSent \in 0 .. MaxSeq
         /\ fan[s].lastSent \in Nat
         /\ feed[s] \in Seq(Seqs) /\ Len(feed[s]) \in Nat
         /\ FanInStep(s) /\ SentIsLast(s)
         /\ Sub(s) = <<s, fan[s].slot>>
         /\ \A k \in {0, 1} : /\ <<s, k>> \in Subs
                              /\ lineSub[<<s, k>>] \in LineState
                              /\ lineSub[<<s, k>>].q \in Seq(Entry)
                              /\ FeedAtHead(<<s, k>>)
         /\ Published \in Nat /\ Pushed \in Nat /\ Published <= Pushed
<1>1. fan[s] \in FanState /\ feed[s] \in Seq(Seqs)
  BY DEF SInv, FanTypes
<1>2. fan[s].slot \in {0, 1} /\ fan[s].lastSent \in 0 .. MaxSeq /\ fan[s].lastSent \in Nat
  BY <1>1, KeeperAssumption DEF FanState
<1>3. FanInStep(s) /\ SentIsLast(s)
  BY DEF SInv, StreamInv, FansInStep
<1>4. \A k \in {0, 1} : <<s, k>> \in Subs
  BY LiveSessionAssumption
<1>5. \A x \in Subs : lineSub[x] \in LineState /\ FeedAtHead(x)
  BY DEF SInv, StreamInv, FeedsAtHead, KeeperInv, TypeOK
<1>6. \A x \in Subs : lineSub[x].q \in Seq(Entry)
  BY <1>5 DEF LineState
<1>7. KeeperInv /\ LineInHand
  BY DEF SInv, StreamInv
<1>8. Published \in Nat /\ Pushed \in Nat /\ Published <= Pushed
  BY <1>7, PublishedBounds
<1> QED
  BY <1>1, <1>2, <1>3, <1>4, <1>5, <1>6, <1>8 DEF Sub

\* A step that does not concern a fan-in.
LEMMA FanKept ==
  ASSUME SInv, NEW s \in Sessions, fan'[s] = fan[s], feed'[s] = feed[s], Published' = Published,
         \A k \in {0, 1} : lineSub'[<<s, k>>] = lineSub[<<s, k>>]
  PROVE  FanGoes(s)
<1>1. /\ fan[s].slot \in {0, 1} /\ 1 - fan[s].slot \in {0, 1} /\ FanInStep(s) /\ SentIsLast(s)
      /\ Len(feed[s]) \in Nat
  BY FanFacts
<1>2. FanInStep(s)'
  BY <1>1 DEF FanInStep, InStep, Sub
<1>3. SentIsLast(s)'
  BY <1>1 DEF SentIsLast
<1>4. NextInOrder(s)
  BY <1>1 DEF NextInOrder
<1> QED
  BY <1>2, <1>3, <1>4 DEF FanGoes

\* A line that is published leaves the fan-ins in step.
LEMMA FanPublished ==
  ASSUME SInv, NEW s \in Sessions, fan'[s] = fan[s], feed'[s] = feed[s],
         Published' = Published + 1,
         NEW y \in Entry, y.seq = Published + 1, PublishLine(y)
  PROVE  FanGoes(s)
<1>0. KeeperInv
  BY DEF SInv
<1>1. /\ FanInStep(s) /\ SentIsLast(s) /\ Len(feed[s]) \in Nat /\ fan[s].lastSent \in Nat
      /\ Published \in Nat
  BY FanFacts
<1>2. ASSUME NEW k \in {0, 1}
      PROVE  /\ Good(<<s, k>>)' => /\ Good(<<s, k>>)
                                   /\ lineSub'[<<s, k>>].q = Append(lineSub[<<s, k>>].q, y)
                                   /\ lineSub[<<s, k>>].q \in Seq(Entry)
             /\ lineSub'[<<s, k>>].on = lineSub[<<s, k>>].on
  <2>1. <<s, k>> \in Subs /\ FeedAtHead(<<s, k>>)
    BY FanFacts
  <2> QED
    BY <1>0, <1>1, <2>1, FeedPublished DEF FeedAtHead
<1>3. PICK k \in {0, 1} : fan[s].slot = k
  BY FanFacts
<1>4. 1 - k \in {0, 1}
  OBVIOUS
<1>5. ASSUME fan[s].pc \in {"loop", "drain"}, ~lineSub'[<<s, k>>].over
      PROVE  InStep(lineSub'[<<s, k>>].q, fan[s].lastSent, Published + 1)
  <2> DEFINE q == lineSub[<<s, k>>].q
  <2>1. lineSub[<<s, k>>].on
    BY <1>1, <1>3, <1>5 DEF FanInStep, Sub
  <2>2. Good(<<s, k>>)'
    BY <1>2, <1>5, <2>1 DEF Good
  <2>3. Good(<<s, k>>) /\ lineSub'[<<s, k>>].q = Append(q, y) /\ q \in Seq(Entry)
    BY <1>2, <2>2
  <2>4. InStep(q, fan[s].lastSent, Published)
    BY <1>1, <1>3, <1>5, <2>3 DEF FanInStep, Good, Sub
  <2> HIDE DEF q
  <2>5. CASE q = <<>>
    <3>1. Append(q, y) # <<>> /\ Append(q, y)[1] = y
      BY <2>5
    <3>2. fan[s].lastSent >= Published
      BY <2>4, <2>5 DEF InStep
    <3>3. y.seq <= fan[s].lastSent + 1
      BY <1>1, <3>2
    <3> QED
      BY <2>3, <3>1, <3>3 DEF InStep
  <2>6. CASE q # <<>>
    <3>1. Append(q, y) # <<>> /\ Append(q, y)[1] = q[1]
      BY <2>3, <2>6
    <3>2. q[1].seq <= fan[s].lastSent + 1
      BY <2>4, <2>6 DEF InStep
    <3> QED
      BY <2>3, <3>1, <3>2 DEF InStep
  <2> QED
    BY <2>5, <2>6
<1>6. FanInStep(s)'
  <2>1. Sub(s)' = <<s, k>> /\ Sub(s) = <<s, k>>
    BY <1>3 DEF Sub
  <2> QED
    BY <1>1, <1>2, <1>3, <1>4, <1>5, <2>1 DEF FanInStep
<1>7. SentIsLast(s)'
  BY <1>1 DEF SentIsLast
<1>8. NextInOrder(s)
  BY <1>1 DEF NextInOrder
<1> QED
  BY <1>6, <1>7, <1>8 DEF FanGoes

\* The rest of a feed is in step with a fan-in that has sent its oldest line.
LEMMA TailInStep ==
  ASSUME NEW q \in Seq(Entry), q # <<>>, NEW n \in Nat, EndsAt(q, n),
         NEW last \in Nat, q[1].seq <= last
  PROVE  InStep(Tail(q), last, n)
<1>1. Len(q) \in Nat /\ Len(q) >= 1 /\ q[1] \in Entry
  OBVIOUS
<1>2. PICK t \in Seq(Entry) : t = Tail(q) /\ Len(t) = Len(q) - 1
  <2>1. Tail(q) \in Seq(Entry) /\ Len(Tail(q)) = Len(q) - 1
    BY HeadTail
  <2> QED
    BY <2>1, Zenon
<1>3. EndsAt(t, n)
  BY <1>2, EndsAtTail
<1>4. q[1].seq + Len(q) = n + 1 /\ q[1].seq \in Nat
  BY <1>1 DEF EndsAt, Entry, Seqs
<1>5. \A a, b, c \in Nat : /\ a + c = n + 1 /\ c = 1 => a = n
                          /\ a + c = n + 1 /\ b + (c - 1) = n + 1 => b = a + 1
  OBVIOUS
<1>6. CASE t = <<>>
  <2>1. Len(t) = 0 /\ Len(q) = 1
    <3>1. Len(t) = 0
      BY <1>6
    <3>2. \A c \in Nat : 0 = c - 1 => c = 1
      OBVIOUS
    <3> QED
      BY <1>1, <1>2, <3>1, <3>2
  <2>2. q[1].seq = n
    BY <1>1, <1>4, <1>5, <2>1
  <2> QED
    BY <1>2, <1>6, <2>2 DEF InStep
<1>7. CASE t # <<>>
  <2>1. t[1] \in Entry /\ 1 \in 1 .. Len(t)
    BY <1>7
  <2>2. t[1].seq + Len(t) = n + 1 /\ t[1].seq \in Nat
    BY <1>3, <2>1 DEF EndsAt, Entry, Seqs
  <2>3. t[1].seq + (Len(q) - 1) = n + 1
    BY <1>2, <2>2
  <2>4. t[1].seq = q[1].seq + 1
    BY <1>1, <1>4, <1>5, <2>2, <2>3
  <2> QED
    BY <1>2, <1>4, <1>7, <2>4, SMTT(30) DEF InStep
<1> QED
  BY <1>6, <1>7

\* A fan-in that starts has sent nothing, or stands at the watermark.
LEMMA FanStarts ==
  ASSUME SInv, NEW r \in Sessions, NEW s, NEW wanted, StartFanIn(s, wanted),
         UNCHANGED lineSub, Published' = Published
  PROVE  FanGoes(r)
<1>1. CASE fan'[r] = fan[r] /\ feed'[r] = feed[r]
  BY <1>1, FanKept
<1>2. CASE ~ (fan'[r] = fan[r] /\ feed'[r] = feed[r])
  <2> DEFINE f == [NoFan EXCEPT !.pc = "subEvents", !.lastSent = deliveredSeq]
             q == IF deliveredSeq = 0 THEN <<>> ELSE <<deliveredSeq>>
  <2>1. fan \in [Sessions -> FanState] /\ feed \in [Sessions -> Seq(Seqs)] /\ deliveredSeq \in Nat
    BY KeeperAssumption DEF SInv, FanTypes, KeeperInv, TypeOK
  <2>2. r = s /\ fan'[r] = f /\ feed'[r] = q
    BY <1>2, <2>1 DEF StartFanIn
  <2>3. fan'[r].pc = "subEvents" /\ fan'[r].lastSent = deliveredSeq
    BY <2>2 DEF NoFan
  <2>4. FanInStep(r)'
    BY <2>3 DEF FanInStep
  <2>5. deliveredSeq = 0 => feed'[r] = <<>>
    BY <2>2
  <2>6. deliveredSeq # 0 => feed'[r] = <<deliveredSeq>> /\ feed'[r] # <<>> /\ Len(feed'[r]) = 1
    BY <2>2
  <2>7. SentIsLast(r)'
    BY <2>3, <2>5, <2>6 DEF SentIsLast
  <2>8. Len(feed'[r]) \in {0, 1} /\ Len(feed[r]) \in Nat
    BY <2>1, <2>5, <2>6
  <2>9. NextInOrder(r)
    BY <2>8 DEF NextInOrder
  <2> QED
    BY <2>4, <2>7, <2>9 DEF FanGoes
<1> QED
  BY <1>1, <1>2

LEMMA JoinLength ==
  ASSUME NEW S, NEW p \in Seq(S), NEW q \in Seq(S)
  PROVE  Len(p \o q) = Len(p) + Len(q)
OBVIOUS

\* Catching up from the ring.
LEMMA FanCatchesUp ==
  ASSUME SInv, NEW s \in Sessions, FanCatchUp(s)
  PROVE  FanGoes(s)
<1> DEFINE after == fan[s].lastSent
           b == Since(ring, after)
           Q == lineSub[Sub(s)].q
<1>0. /\ ring \in Seq(Entry) /\ EndsAt(ring, Pushed) /\ (ring = <<>> => Pushed = 0)
      /\ fan \in [Sessions -> FanState] /\ feed \in [Sessions -> Seq(Seqs)] /\ KeeperInv
  BY DEF SInv, KeeperInv, TypeOK, StreamInv, RingAtHead, FanTypes
<1>1. /\ fan[s] \in FanState /\ feed[s] \in Seq(Seqs) /\ Len(feed[s]) \in Nat /\ after \in Nat
      /\ FanInStep(s) /\ SentIsLast(s)
      /\ Published \in Nat /\ Pushed \in Nat /\ Published <= Pushed
  BY FanFacts
<1>2. fan[s].pc = "catchUp" /\ Published' = Published /\ lineSub' = lineSub
  BY DEF FanCatchUp, FanAt, keeperVars, Published, Publishing
<1>3. lineSub[Sub(s)].on /\ Q \in Seq(Entry) /\ FeedAtHead(Sub(s))
  <2>1. PICK k \in {0, 1} : fan[s].slot = k
    BY FanFacts
  <2>2. Sub(s) = <<s, k>>
    BY <2>1 DEF Sub
  <2>3. lineSub[<<s, k>>].q \in Seq(Entry) /\ FeedAtHead(<<s, k>>)
    BY FanFacts
  <2> QED
    BY <1>1, <1>2, <2>2, <2>3 DEF FanInStep
<1>4. CASE ~SinceOK(ring, after)
  <2>1. fan' = [fan EXCEPT ![s].pc = "end"] /\ feed' = feed
    BY <1>4 DEF FanCatchUp
  <2>2. fan'[s].pc = "end" /\ fan'[s].lastSent = fan[s].lastSent /\ feed'[s] = feed[s]
    BY <1>0, <1>1, <2>1 DEF FanState
  <2>3. FanInStep(s)' /\ SentIsLast(s)' /\ NextInOrder(s)
    BY <1>1, <1>2, <2>2 DEF FanInStep, SentIsLast, NextInOrder
  <2> QED
    BY <2>3 DEF FanGoes
<1>5. CASE SinceOK(ring, after)
  <2>1. /\ b \in Seq(Entry) /\ EndsAt(b, Pushed)
        /\ b = <<>> => ring = <<>> \/ Pushed <= after
        /\ b # <<>> /\ after # 0 => b[1].seq = after + 1
        /\ b # <<>> => LastSeq(b) = Pushed /\ Pushed > after
    BY <1>0, <1>1, <1>5, SinceIsRest
  <2>2. PICK last \in Nat : last = IF b = <<>> THEN after ELSE LastSeq(b)
    BY <1>1, <2>1
  <2>3. last >= Pushed /\ (b # <<>> => last = Pushed)
    BY <1>0, <1>1, <2>1, <2>2
  <2> HIDE DEF b
  <2>4. /\ fan' = [fan EXCEPT ![s].pc = "loop", ![s].lastSent = last]
        /\ feed' = [feed EXCEPT ![s] = @ \o SeqsOf(b)]
    BY <1>5, <2>2 DEF FanCatchUp, b
  <2>5. /\ fan'[s].pc = "loop" /\ fan'[s].lastSent = last /\ fan'[s].slot = fan[s].slot
        /\ feed'[s] = feed[s] \o SeqsOf(b)
    BY <1>0, <1>1, <2>4 DEF FanState
  <2>6. FanInStep(s)'
    <3>1. Sub(s)' = Sub(s)
      BY <2>5 DEF Sub
    <3>2. ASSUME ~lineSub[Sub(s)].over PROVE InStep(Q, last, Published)
      <4>1. EndsAt(Q, Published)
        BY <1>3, <3>2 DEF FeedAtHead, Good
      <4> HIDE DEF Q
      <4>2. CASE Q = <<>>
        BY <1>1, <2>3, <4>2 DEF InStep
      <4>3. CASE Q # <<>>
        <5>1. Q[1].seq <= Published /\ Q[1].seq \in Seqs
          BY <1>1, <1>3, <4>1, <4>3, EndsAtLast
        <5>2. Q[1].seq <= last + 1
          BY <1>1, <2>3, <5>1 DEF Seqs
        <5> QED
          BY <4>3, <5>2 DEF InStep
      <4> QED
        BY <4>2, <4>3
    <3> QED
      BY <1>2, <1>3, <2>5, <3>1, <3>2 DEF FanInStep
  <2>7. /\ SeqsOf(b) \in Seq(Seqs) /\ Len(SeqsOf(b)) = Len(b) /\ Len(b) \in Nat
        /\ \A i \in 1 .. Len(b) : SeqsOf(b)[i] = b[i].seq
    BY <1>0, <2>1, BacklogFrames
  <2>8. PICK L \in Nat, M \in Nat : L = Len(feed[s]) /\ M = Len(b)
    BY <1>1, <2>7
  <2>9. /\ Len(feed'[s]) = L + M
        /\ \A i \in 1 .. L : feed'[s][i] = feed[s][i]
        /\ \A i \in 1 .. M : feed'[s][L + i] = b[i].seq
    <3>1. Len(feed'[s]) = Len(feed[s] \o SeqsOf(b))
      BY <2>5
    <3>2. Len(feed[s] \o SeqsOf(b)) = Len(feed[s]) + Len(SeqsOf(b))
      BY <1>1, <2>7, JoinLength
    <3>3. \A i \in 1 .. L : feed'[s][i] = feed[s][i]
      BY <1>1, <2>5, <2>7, <2>8
    <3>4. \A i \in 1 .. M : feed'[s][L + i] = SeqsOf(b)[i]
      BY <1>1, <2>5, <2>7, <2>8
    <3> QED
      BY <2>7, <2>8, <3>1, <3>2, <3>3, <3>4
  <2>10. SentIsLast(s)'
    <3>1. CASE b = <<>>
      <4>1. M = 0 /\ last = after
        BY <2>2, <2>8, <3>1
      <4>2. SeqsOf(b) = <<>>
        BY <2>7, <2>8, <4>1
      <4>3. feed'[s] = feed[s]
        BY <1>1, <2>5, <4>2
      <4> QED
        BY <1>1, <1>2, <2>5, <4>1, <4>3 DEF SentIsLast
    <3>2. CASE b # <<>>
      <4>1. M >= 1
        BY <2>1, <2>8, <3>2
      <4>2. b[M].seq = last
        BY <2>2, <2>8, <3>2 DEF LastSeq
      <4>3. feed'[s][L + M] = last /\ feed'[s] # <<>>
        BY <2>9, <4>1, <4>2
      <4> QED
        BY <2>5, <2>9, <4>3 DEF SentIsLast
    <3> QED
      BY <3>1, <3>2
  <2>11. NextInOrder(s)
    <3> SUFFICES ASSUME NEW i \in L + 1 .. L + M, i > 1
                 PROVE  feed'[s][i] = feed'[s][i - 1] + 1
      BY <2>8, <2>9 DEF NextInOrder
    <3>1. PICK j \in 1 .. M : i = L + j
      <4>1. i - L \in 1 .. M /\ i = L + (i - L)
        OBVIOUS
      <4> QED
        BY <4>1
    <3>2. feed'[s][i] = b[j].seq /\ b # <<>>
      BY <2>1, <2>8, <2>9, <3>1
    <3>3. CASE j = 1
      <4>1. L >= 1 /\ i - 1 = L
        BY <3>1, <3>3
      <4>2. feed[s] # <<>> /\ feed[s][L] \in Seqs /\ feed'[s][L] = feed[s][L]
        BY <1>1, <2>8, <2>9, <4>1
      <4>3. feed[s][L] = after /\ after # 0
        BY <1>1, <1>2, <2>8, <4>2 DEF SentIsLast, Seqs
      <4> QED
        BY <2>1, <3>2, <3>3, <4>1, <4>2, <4>3
    <3>4. CASE j # 1
      <4>1. j - 1 \in 1 .. M /\ i - 1 = L + (j - 1)
        BY <3>1, <3>4
      <4>2. feed'[s][i - 1] = b[j - 1].seq
        BY <2>9, <4>1
      <4>3. b[j] \in Entry /\ b[j - 1] \in Entry
        BY <2>1, <2>8, <4>1
      <4>4. /\ b[j].seq + M = Pushed + j /\ b[j].seq \in Nat
            /\ b[j - 1].seq + M = Pushed + (j - 1) /\ b[j - 1].seq \in Nat
        BY <2>1, <2>8, <4>1, <4>3, SMTT(30) DEF EndsAt, Entry, Seqs
      <4>5. \A x, y \in Nat : x + M = Pushed + j /\ y + M = Pushed + (j - 1) => x = y + 1
        BY <1>1, SMTT(30)
      <4>6. b[j].seq = b[j - 1].seq + 1
        BY <4>4, <4>5
      <4> QED
        BY <3>2, <4>2, <4>6
    <3> QED
      BY <3>3, <3>4
  <2> QED
    BY <2>6, <2>10, <2>11 DEF FanGoes
<1> QED
  BY <1>4, <1>5

\* Taking a line from the feed.
LEMMA FanTakes ==
  ASSUME SInv, NEW s \in Sessions, fan[s].pc \in {"loop", "drain"}, FanTake(s)
  PROVE  FanGoes(s)
<1>0. fan \in [Sessions -> FanState] /\ feed \in [Sessions -> Seq(Seqs)] /\ lineSub \in [Subs -> LineState]
  BY DEF SInv, KeeperInv, TypeOK, FanTypes
<1>1. /\ fan[s] \in FanState /\ feed[s] \in Seq(Seqs) /\ Len(feed[s]) \in Nat
      /\ fan[s].lastSent \in Nat /\ FanInStep(s) /\ SentIsLast(s) /\ Published \in Nat
  BY FanFacts
<1>2. PICK k \in {0, 1} : fan[s].slot = k
  BY FanFacts
<1> DEFINE x == <<s, k>>
           q == lineSub[x].q
           e == Head(q)
<1>3. /\ Sub(s) = x /\ x \in Subs /\ lineSub[x] \in LineState /\ q \in Seq(Entry) /\ FeedAtHead(x)
  BY <1>2, FanFacts
<1>4. /\ q # <<>> /\ Published' = Published
      /\ lineSub' = [lineSub EXCEPT ![x].q = Tail(@)]
  BY <1>3 DEF FanTake, RecvLine, procVars, streamVars, Published, Publishing
<1>5. lineSub'[x].q = Tail(q) /\ lineSub'[x].on = lineSub[x].on /\ lineSub'[x].over = lineSub[x].over
  BY <1>0, <1>3, <1>4 DEF LineState
<1>6. e \in Entry /\ e = q[1] /\ e.seq \in Nat
  <2>1. e \in Entry /\ e = q[1]
    BY <1>3, <1>4, HeadTail
  <2> QED
    BY <2>1 DEF Entry, Seqs
<1>7. lineSub[x].on
  BY <1>1, <1>3 DEF FanInStep
\* In step before, in step after, if e counts as sent.
<1>8. ASSUME ~lineSub[x].over, NEW last \in Nat, e.seq <= last
      PROVE  InStep(Tail(q), last, Published)
  BY <1>1, <1>3, <1>4, <1>6, <1>7, <1>8, TailInStep DEF FeedAtHead, Good
<1>9. ~lineSub[x].over => e.seq <= fan[s].lastSent + 1
  BY <1>1, <1>3, <1>4, <1>6 DEF FanInStep, InStep
<1>10. e.seq <= fan[s].lastSent => UNCHANGED <<fan, feed>>
  BY <1>3 DEF FanTake
<1>11. ~ (e.seq <= fan[s].lastSent) => /\ fan' = [fan EXCEPT ![s].lastSent = e.seq]
                                       /\ feed' = [feed EXCEPT ![s] = Append(@, e.seq)]
  BY <1>3 DEF FanTake
<1> HIDE DEF x, q, e
<1>12. CASE e.seq <= fan[s].lastSent
  <2>1. fan' = fan /\ feed' = feed /\ Sub(s)' = x
    BY <1>3, <1>10, <1>12 DEF Sub
  <2>2. FanInStep(s)'
    BY <1>1, <1>3, <1>4, <1>5, <1>7, <1>8, <1>12, <2>1 DEF FanInStep
  <2>3. SentIsLast(s)' /\ NextInOrder(s)
    BY <1>1, <2>1 DEF SentIsLast, NextInOrder
  <2> QED
    BY <2>2, <2>3 DEF FanGoes
<1>13. CASE ~ (e.seq <= fan[s].lastSent)
  <2>1. /\ fan'[s].lastSent = e.seq /\ fan'[s].pc = fan[s].pc /\ fan'[s].slot = fan[s].slot
        /\ feed'[s] = Append(feed[s], e.seq)
    BY <1>0, <1>1, <1>11, <1>13 DEF FanState
  <2>2. Sub(s)' = x
    BY <1>3, <2>1 DEF Sub
  <2>3. FanInStep(s)'
    <3>1. ~lineSub[x].over => InStep(Tail(q), e.seq, Published)
      BY <1>6, <1>8
    <3>2. /\ lineSub'[Sub(s)'].on /\ lineSub'[Sub(s)'].over = lineSub[x].over
          /\ lineSub'[Sub(s)'].q = Tail(q)
      BY <1>5, <1>7, <2>2
    <3> QED
      BY <1>4, <2>1, <3>1, <3>2 DEF FanInStep
  <2>4. PICK L \in Nat : L = Len(feed[s])
    BY <1>1
  <2>5. /\ Len(feed'[s]) = L + 1 /\ feed'[s] # <<>> /\ feed'[s][L + 1] = e.seq
        /\ \A i \in 1 .. L : feed'[s][i] = feed[s][i]
    BY <1>1, <1>6, <2>1, <2>4
  <2>6. SentIsLast(s)'
    BY <2>1, <2>5 DEF SentIsLast
  <2>7. ASSUME L >= 1, ~MayReadOverflowed(s) PROVE e.seq = feed'[s][L] + 1
    <3>1. ~lineSub[x].over
      BY <1>3, <2>7 DEF MayReadOverflowed
    <3>2. e.seq = fan[s].lastSent + 1
      BY <1>1, <1>6, <1>9, <1>13, <3>1
    <3>3. feed[s] # <<>> /\ feed'[s][L] = feed[s][L]
      BY <1>1, <2>4, <2>5, <2>7
    <3>4. feed[s][L] = fan[s].lastSent
      BY <1>1, <2>4, <3>3 DEF SentIsLast
    <3> QED
      BY <3>2, <3>3, <3>4
  <2>8. NextInOrder(s)
    <3> SUFFICES ASSUME NEW i \in L + 1 .. L + 1, i > 1, ~MayReadOverflowed(s)
                 PROVE  feed'[s][i] = feed'[s][i - 1] + 1
      BY <2>4, <2>5 DEF NextInOrder
    <3>1. i = L + 1 /\ i - 1 = L /\ L >= 1
      OBVIOUS
    <3> QED
      BY <2>5, <2>7, <3>1
  <2> QED
    BY <2>3, <2>6, <2>8 DEF FanGoes
<1> QED
  BY <1>12, <1>13

\* Every step keeps every fan-in in step, and what it sends in order.
LEMMA FansMove ==
  ASSUME SInv, LinesApart', [SNext]_vars, NEW r \in Sessions
  PROVE  FanGoes(r)
<1> USE DEF sessVars, brainVars, histVars
<1>0. /\ fan \in [Sessions -> FanState] /\ feed \in [Sessions -> Seq(Seqs)]
      /\ lineSub \in [Subs -> LineState] /\ reader \in [Epochs -> ReaderState]
  BY DEF SInv, KeeperInv, TypeOK, FanTypes
<1>1. ASSUME UNCHANGED <<fan, feed, lineSub>>, Published' = Published PROVE FanGoes(r)
  BY <1>1, FanKept
<1>2. UNCHANGED <<reader, seqCounter>> => Published' = Published
  BY DEF Published, Publishing
\* The keeper's own steps.
<1>3. ASSUME NEW e \in Epochs, KeeperRead(e) PROVE FanGoes(r)
  <2>1. ReadStep(e) /\ UNCHANGED <<fan, feed>>
    BY <1>3 DEF KeeperRead
  <2>2. CASE Published' = Published /\ UNCHANGED lineSub
    BY <1>1, <2>1, <2>2
  <2>3. CASE /\ Published' = Published + 1
             /\ PublishLine([seq |-> Published + 1, epoch |-> e])
             /\ [seq |-> Published + 1, epoch |-> e] \in Entry
    BY <2>1, <2>3, FanPublished
  <2> QED
    BY <2>1, <2>2, <2>3, ReadMoves
<1>4. ASSUME NEW c \in Closers, KeeperClose(c) \/ HandleCloseResult(c) PROVE FanGoes(r)
  BY <1>1, <1>2, <1>4 DEF KeeperClose, HandleCloseResult, CloseClear, CloseShut, CloseReturn, streamVars
<1>5. ASSUME NEW d \in Dialers, HandleDialInstall(d) PROVE FanGoes(r)
  BY <1>1, <1>2, <1>5 DEF HandleDialInstall, DialInstall, streamVars
<1>6. ASSUME NEW d \in Dialers, HandleDialResult(d) PROVE FanGoes(r)
  <2>1. CASE DialReject(d)
    BY <1>1, <1>2, <1>6, <2>1 DEF HandleDialResult, DialReject, DialPublish, DialerState, streamVars
  <2>2. CASE DialPublish(d) /\ StartFanIn(owner[d], Live(owner[d]))
    <3>1. dialer[d].pc = "publish"
      BY <2>2 DEF DialPublish
    <3>2. /\ dialer[d].epoch \in Epochs /\ reader[dialer[d].epoch].pc = "none"
      <4>1. /\ dialer[d].epoch \in 1 .. epoch /\ epoch \in 0 .. MaxEpoch
            /\ reader[dialer[d].epoch].pc = "none"
        BY <3>1 DEF SInv, KeeperInv, DialOwnsEpoch, TypeOK
      <4> QED
        BY <4>1, KeeperAssumption DEF Epochs
    <3>3. /\ UNCHANGED <<lineSub, seqCounter>>
          /\ reader'[dialer[d].epoch].pc = "read"
          /\ \A f \in Epochs \ {dialer[d].epoch} : reader'[f] = reader[f]
      BY <1>0, <2>2, <3>2 DEF DialPublish, streamVars, ReaderState
    <3>4. Published' = Published
      BY <3>2, <3>3 DEF Published, Publishing
    <3> QED
      BY <2>2, <3>3, <3>4, FanStarts
  <2>3. DialReject(d) \/ (DialPublish(d) /\ StartFanIn(owner[d], Live(owner[d])))
    BY <1>6 DEF HandleDialResult
  <2> QED
    BY <2>1, <2>2, <2>3
\* Attach, requests and teardown.
<1>7. ASSUME NEW s \in Sessions, LiveReady(s) PROVE FanGoes(r)
  BY <1>2, <1>7, FanStarts DEF LiveReady, keeperVars
<1>8. ASSUME NEW s \in Sessions,
             \/ Teardown(s) \/ OtherNetworkGap(s)
             \/ AttachHello(s) \/ AttachAck(s) \/ BrainRecv(s) \/ BrainDetached(s)
             \/ BrainHandle(s) \/ BrainPushTimeout(s) \/ BrainAck(s) \/ BrainDial(s)
             \/ BrainReconnect(s)
      PROVE  FanGoes(r)
  BY <1>1, <1>2, <1>8 DEF Teardown, OtherNetworkGap, AttachHello, AttachAck, BrainRecv, BrainDetached,
      BrainHandle, BrainPushTimeout, BrainAck, BrainDial, BrainReconnect, keeperVars
<1>9. ASSUME NEW s \in Sessions, HandleBlobPush(s) \/ HandleSeqAck(s) PROVE FanGoes(r)
  BY <1>1, <1>2, <1>9 DEF HandleBlobPush, HandleSeqAck, PushBlob, AckSeq, procVars, streamVars
<1>10. ASSUME NEW s \in Sessions, HandleDial(s) PROVE FanGoes(r)
  <2>1. UNCHANGED <<fan, feed, lineSub, reader, seqCounter>>
    BY <1>10 DEF HandleDial, DialStart, keeperVars, streamVars
  <2> QED
    BY <1>1, <1>2, <2>1
<1>11. ASSUME NEW s \in Sessions, HandleClose(s) PROVE FanGoes(r)
  <2>1. UNCHANGED <<fan, feed, lineSub, reader, seqCounter>>
    BY <1>11 DEF HandleClose, CloseStart, TakeConn, keeperVars, streamVars
  <2> QED
    BY <1>1, <1>2, <2>1
<1>12. ASSUME BrainCrash \/ UNCHANGED vars PROVE FanGoes(r)
  BY <1>1, <1>2, <1>12 DEF BrainCrash, vars, keeperVars
\* Steps of another fan-in.
<1>13. ASSUME NEW s \in Sessions, s # r,
              \/ FanSubscribe(s) \/ FanSubscribeLines(s) \/ FanCatchUp(s) \/ FanTake(s)
              \/ FanOverflow(s) \/ FanSwap(s) \/ FanEvent(s) \/ FanForward(s) \/ FanEnd(s)
       PROVE  FanGoes(r)
  <2>1. Published' = Published
    BY <1>2, <1>13 DEF FanSubscribe, FanSubscribeLines, FanCatchUp, FanTake, FanOverflow, FanSwap,
        FanEvent, FanForward, FanEnd, Subscribe, SubscribeLines, RecvLine, UnsubscribeLines,
        RecvEvent, keeperVars, procVars, streamVars
  <2>2. fan'[r] = fan[r] /\ feed'[r] = feed[r]
    BY <1>0, <1>13 DEF FanSubscribe, FanSubscribeLines, FanCatchUp, FanTake, FanOverflow, FanSwap,
        FanEvent, FanForward, FanEnd
  <2>3. ASSUME NEW k \in {0, 1} PROVE lineSub'[<<r, k>>] = lineSub[<<r, k>>]
    <3>1. <<r, k>> \in Subs /\ \A j : <<r, k>> # <<s, j>>
      BY <1>13, LiveSessionAssumption
    <3> QED
      BY <1>0, <1>13, <3>1 DEF FanSubscribe, FanSubscribeLines, FanCatchUp, FanTake, FanOverflow, FanSwap,
          FanEvent, FanForward, FanEnd, Subscribe, SubscribeLines, RecvLine, UnsubscribeLines,
          RecvEvent, keeperVars, Sub
  <2> QED
    BY <2>1, <2>2, <2>3, FanKept
\* Its own steps.
<1>14. PICK k \in {0, 1} : fan[r].slot = k
  BY FanFacts
<1>15. /\ <<r, 0>> \in Subs /\ <<r, 1>> \in Subs /\ <<r, k>> \in Subs /\ <<r, 1 - k>> \in Subs
       /\ <<r, k>> # <<r, 1 - k>> /\ 1 - k \in {0, 1} /\ 1 - (1 - k) = k
  BY LiveSessionAssumption
<1>16. /\ fan[r] \in FanState /\ feed[r] \in Seq(Seqs) /\ Len(feed[r]) \in Nat
       /\ FanInStep(r) /\ SentIsLast(r) /\ Sub(r) = <<r, k>>
  BY <1>14, FanFacts
<1>17. ASSUME UNCHANGED feed, fan'[r].pc # "off" => fan[r].pc # "off",
              fan'[r].lastSent = fan[r].lastSent
       PROVE  SentIsLast(r)' /\ NextInOrder(r)
  BY <1>16, <1>17 DEF SentIsLast, NextInOrder
<1>18. CASE FanSubscribe(r)
  <2>1. /\ fan'[r].pc = "subLines" /\ fan'[r].lastSent = fan[r].lastSent /\ UNCHANGED feed
        /\ fan[r].pc # "off"
    BY <1>0, <1>16, <1>18 DEF FanSubscribe, FanAt, FanState
  <2> QED
    BY <1>17, <2>1 DEF FanGoes, FanInStep
<1>19. CASE FanSubscribeLines(r)
  <2>1. /\ fan'[r].pc = "catchUp" /\ fan'[r].lastSent = fan[r].lastSent /\ UNCHANGED feed
        /\ fan[r].pc # "off" /\ fan'[r].slot = k
    BY <1>0, <1>14, <1>16, <1>19 DEF FanSubscribeLines, FanAt, FanState
  <2>2. lineSub'[<<r, k>>].on
    BY <1>0, <1>15, <1>16, <1>19 DEF FanSubscribeLines, SubscribeLines
  <2>3. Sub(r)' = <<r, k>>
    BY <2>1 DEF Sub
  <2>4. FanInStep(r)'
    BY <2>1, <2>2, <2>3 DEF FanInStep
  <2> QED
    BY <1>17, <2>1, <2>4 DEF FanGoes
<1>20. CASE FanOverflow(r)
  <2>1. /\ fan'[r].pc = "swap" /\ fan'[r].lastSent = fan[r].lastSent /\ UNCHANGED feed
        /\ fan[r].pc # "off" /\ fan'[r].slot = k
    BY <1>0, <1>14, <1>16, <1>20 DEF FanOverflow, FanAt, FanState
  <2>2. lineSub'[<<r, 1 - k>>].on
    BY <1>0, <1>14, <1>15, <1>20 DEF FanOverflow, SubscribeLines
  <2>3. FanInStep(r)'
    BY <2>1, <2>2 DEF FanInStep
  <2> QED
    BY <1>17, <2>1, <2>3 DEF FanGoes
<1>21. CASE FanSwap(r)
  <2>1. /\ fan'[r].pc = "catchUp" /\ fan'[r].lastSent = fan[r].lastSent /\ UNCHANGED feed
        /\ fan[r].pc = "swap" /\ fan'[r].slot = 1 - k
    BY <1>0, <1>14, <1>16, <1>21 DEF FanSwap, FanAt, FanState
  <2>2. lineSub'[<<r, 1 - k>>].on
    <3>1. lineSub[<<r, 1 - k>>].on
      BY <1>14, <1>16, <2>1 DEF FanInStep
    <3> QED
      BY <1>0, <1>15, <1>16, <1>21, <3>1 DEF FanSwap, UnsubscribeLines
  <2>3. Sub(r)' = <<r, 1 - k>>
    BY <2>1 DEF Sub
  <2>4. FanInStep(r)'
    BY <2>1, <2>2, <2>3 DEF FanInStep
  <2> QED
    BY <1>17, <2>1, <2>4 DEF FanGoes
<1>22. CASE FanEvent(r) \/ FanForward(r)
  <2>1. /\ fan'[r].pc \in {"loop", "drain"} /\ fan[r].pc \in {"loop", "drain"}
        /\ fan'[r].lastSent = fan[r].lastSent /\ fan'[r].slot = k
        /\ UNCHANGED <<feed, lineSub, reader, seqCounter>>
    BY <1>0, <1>14, <1>16, <1>22 DEF FanEvent, FanForward, FanAt, FanState, RecvEvent, keeperVars,
        procVars, streamVars
  <2>2. Sub(r)' = <<r, k>> /\ Published' = Published
    BY <1>2, <2>1 DEF Sub
  <2>3. FanInStep(r)'
    BY <1>16, <2>1, <2>2 DEF FanInStep
  <2> QED
    BY <1>17, <2>1, <2>3 DEF FanGoes
<1>23. CASE FanEnd(r)
  <2>1. fan'[r].pc = "off" /\ UNCHANGED feed
    BY <1>0, <1>23 DEF FanEnd, NoFan
  <2>2. FanInStep(r)' /\ SentIsLast(r)' /\ NextInOrder(r)
    BY <1>16, <2>1 DEF FanInStep, SentIsLast, NextInOrder
  <2> QED
    BY <2>2 DEF FanGoes
<1>24. CASE FanLine(r) \/ FanDrain(r)
  BY <1>24, FanTakes DEF FanLine, FanDrain, FanAt
<1> QED
  BY <1>3, <1>4, <1>5, <1>6, <1>7, <1>8, <1>9, <1>10, <1>11, <1>12, <1>13, <1>18, <1>19, <1>20, <1>21,
     <1>22, <1>23, <1>24, FanCatchesUp
     DEF SNext, SessionStep, FanStep, BrainStep, FanLine, FanDrain

-----------------------------------------------------------------------------
(* The theorems.                                                           *)

\* The first state: nothing is held, attached or sent.
LEMMA SInitInv == SInit => SInv
<1> SUFFICES ASSUME SInit PROVE SInv
  OBVIOUS
<1>1. KeeperInv
  BY InitInv DEF SInit
<1>2. FrameTypes
  <2>1. NoLine \in InHand /\ NoLine.pc = "idle"
    BY KeeperAssumption DEF NoLine, InHand
  <2> QED
    BY <2>1 DEF SInit, FrameTypes
<1>3. FanTypes
  <2>1. NoFan \in FanState /\ NoFan.pc = "off"
    BY KeeperAssumption DEF NoFan, FanState, FanPC, NoEvent
  <2> QED
    BY <2>1 DEF SInit, FanTypes
<1>4. LinesApart /\ LineInHand
  BY DEF SInit, Init, LinesApart, LineInHand, NewReader
<1>5. ring = <<>> /\ Pushed = 0
  BY DEF SInit, Init, Pushed, Pushing, NewReader
<1>6. RingAtHead
  BY <1>5 DEF RingAtHead, EndsAt
<1>7. FeedsAtHead
  BY DEF SInit, Init, FeedsAtHead, FeedAtHead, Good, NoLineSub
<1>8. FansInStep
  BY DEF SInit, FansInStep, FanInStep, SentIsLast, NoFan
<1> QED
  BY <1>1, <1>2, <1>3, <1>4, <1>6, <1>7, <1>8 DEF SInv, StreamInv

\* Every step keeps the invariant, as long as no two loops have a line in hand.
LEMMA SInvStep ==
  ASSUME SInv, LinesApart', [SNext]_vars
  PROVE  SInv'
<1>1. KeeperMove
  BY KeeperMoves
<1>2. KeeperInv'
  BY <1>1, KeeperKept DEF SInv
<1>3. FrameTypes' /\ FanTypes'
  BY FrameStep, FanTypeStep
<1>4. LineInHand' /\ RingAtHead' /\ FeedsAtHead'
  BY <1>1, PipeStep
<1>5. FansInStep'
  <2>1. \A r \in Sessions : FanInStep(r)' /\ SentIsLast(r)'
    BY FansMove DEF FanGoes
  <2> QED
    BY <2>1 DEF FansInStep
<1> QED
  BY <1>2, <1>3, <1>4, <1>5 DEF SInv, StreamInv

\* The invariant of the composition: the keeper inside it is Keeper's, frames
\* carry lines of the ring, and the ring, the feeds and the fan-ins stand where
\* the stream is, for any overlap of Dial and Close in which no two loops have a
\* line in hand.
THEOREM SessionInvariant == SSpec /\ []LinesApart => []SInv
<1>1. SInit => SInv
  BY SInitInv
<1>2. SInv /\ LinesApart' /\ [SNext]_vars => SInv'
  BY SInvStep
<1> QED
  BY <1>1, <1>2, PTL DEF SSpec

\* Neither the ring nor what is sent from it has a gap, whichever connection a
\* line came from and however often a brain crashed, attached anew or fell
\* behind, unless the loop of a closed connection still has a line in hand when
\* the next one's loop takes one: what since's gap test and the resume watermark
\* take for granted.
THEOREM StreamIsWhole == SSpec /\ []LinesApart => StreamWhole
<1>1. SInv => RingContiguous
  <2> SUFFICES ASSUME SInv PROVE RingContiguous
    OBVIOUS
  <2>1. ring \in Seq(Entry) /\ EndsAt(ring, Pushed) /\ Pushed \in Nat
    BY PublishedBounds, KeeperAssumption DEF SInv, KeeperInv, TypeOK, StreamInv, RingAtHead
  <2>2. ASSUME NEW i \in 1 .. Len(ring) - 1 PROVE ring[i + 1].seq = ring[i].seq + 1
    <3>1. Len(ring) \in Nat /\ i \in 1 .. Len(ring) /\ i + 1 \in 1 .. Len(ring)
      BY <2>1
    <3>2. ring[i] \in Entry /\ ring[i + 1] \in Entry
      BY <2>1, <3>1
    <3>3. /\ ring[i].seq + Len(ring) = Pushed + i /\ ring[i].seq \in Nat
          /\ ring[i + 1].seq + Len(ring) = Pushed + (i + 1) /\ ring[i + 1].seq \in Nat
      BY <2>1, <3>1, <3>2 DEF EndsAt, Entry, Seqs
    <3>4. \A a, b, c \in Nat : a + c = Pushed + i /\ b + c = Pushed + (i + 1) => b = a + 1
      BY <2>1
    <3> QED
      BY <3>1, <3>3, <3>4
  <2> QED
    BY <2>2 DEF RingContiguous
<1>2. SInv /\ LinesApart' /\ [SNext]_vars => [\A s \in Sessions : NextInOrder(s)]_vars
  BY FansMove DEF FanGoes
<1>3. SSpec /\ []LinesApart => []SInv
  BY SessionInvariant
<1>4. SSpec /\ []LinesApart => []RingContiguous
  BY <1>1, <1>3, PTL
<1>5. SSpec /\ []LinesApart => [][\A s \in Sessions : NextInOrder(s)]_vars
  BY <1>2, <1>3, PTL DEF SSpec
<1> QED
  BY <1>4, <1>5 DEF StreamWhole, FeedInOrder, NextInOrder

-----------------------------------------------------------------------------
(* The loss of a connection.                                               *)

Over(e) == reader[e].pc = "done"

\* A line in the keeper has been read, and from the connection it names.
Known(x) == x.seq <= seqCounter /\ lineEpoch[x.seq] = x.epoch

KeeperLinesKnown ==
  /\ lineEpoch \in [Seqs -> 0 .. MaxEpoch]
  /\ \A i \in DOMAIN ring : Known(ring[i])
  /\ \A x \in Subs : \A i \in DOMAIN lineSub[x].q : Known(lineSub[x].q[i])
  /\ \A e \in Epochs : reader[e].pc \in {"push", "publish"} => Known([seq |-> reader[e].seq, epoch |-> e])

\* Who is about to hear of a loss hears of a connection whose loop has ended.
LossOf(ev) == ev.kind = "disconnected" => Over(ev.epoch)

LossesOver ==
  /\ told \in [Sessions -> SUBSET Epochs]
  /\ \A x \in Subs : \A i \in DOMAIN evSub[x].q : LossOf(evSub[x].q[i])
  /\ \A s \in Sessions : fan[s].ev.t = "disconnected" => Over(fan[s].ev.epoch)
  /\ \A s \in Sessions : \A e \in told[s] : Over(e)

\* No line of a connection whose loss was forwarded is in a feed.
Rid(x, s) == \A i \in DOMAIN lineSub[x].q : lineSub[x].q[i].epoch \notin told[s]

FeedsRid ==
  \A s \in Sessions :
    /\ fan[s].pc \in {"catchUp", "loop", "drain"} => Rid(Sub(s), s)
    /\ fan[s].pc = "swap" => Rid(<<s, 1 - fan[s].slot>>, s)

LossInv == KeeperLinesKnown /\ LossesOver /\ FeedsRid

\* Each thing a step of the composition does to the keeper's loops and lines.
LEMMA LoopSteps ==
  ASSUME SInv, [SNext]_vars
  PROVE  /\ \A e \in Epochs : Over(e) => Over(e)'
         /\ seqCounter' \in {seqCounter, seqCounter + 1}
         /\ seqCounter' = seqCounter => lineEpoch' = lineEpoch
         /\ seqCounter' # seqCounter =>
              \E e \in Epochs : KeeperRead(e) /\ ReadLine(e)
                                /\ lineEpoch' = [lineEpoch EXCEPT ![seqCounter + 1] = e]
<1> USE DEF connVars, streamVars, procVars, sessVars, brainVars, histVars
<1>0. /\ KeeperInv /\ reader \in [Epochs -> ReaderState] /\ seqCounter \in Nat
  BY KeeperAssumption DEF SInv, KeeperInv, TypeOK
<1>1. ASSUME UNCHANGED <<reader, seqCounter, lineEpoch>>
      PROVE  /\ \A e \in Epochs : Over(e) => Over(e)'
             /\ seqCounter' = seqCounter /\ lineEpoch' = lineEpoch
  BY <1>1 DEF Over
<1>2. ASSUME NEW e \in Epochs, KeeperRead(e)
      PROVE  /\ \A f \in Epochs : Over(f) => Over(f)'
             /\ \/ seqCounter' = seqCounter /\ lineEpoch' = lineEpoch
                \/ /\ ReadLine(e) /\ seqCounter' = seqCounter + 1
                   /\ lineEpoch' = [lineEpoch EXCEPT ![seqCounter + 1] = e]
  <2>1. ReadStep(e) /\ lineEpoch' = IF seqCounter' > seqCounter
                                    THEN [lineEpoch EXCEPT ![seqCounter'] = e] ELSE lineEpoch
    BY <1>2 DEF KeeperRead
  <2>2. /\ reader[e].pc # "done"
        /\ \A f \in Epochs \ {e} : reader'[f] = reader[f]
    BY <1>0, <2>1 DEF ReadStep, ReadLine, PushLine, PublishRead, OverflowClose, AfterLine,
                      ReadError, Cleanup, CleanupClear, CleanupEvent
  <2>3. seqCounter' = seqCounter \/ (ReadLine(e) /\ seqCounter' = seqCounter + 1)
    BY <2>1 DEF ReadStep, ReadLine, PushLine, PublishRead, OverflowClose, AfterLine,
                ReadError, Cleanup, CleanupClear, CleanupEvent
  <2>4. CASE seqCounter' = seqCounter
    <3>1. lineEpoch' = lineEpoch
      BY <1>0, <2>1, <2>4
    <3> QED
      BY <2>2, <2>4, <3>1 DEF Over
  <2>5. CASE ReadLine(e) /\ seqCounter' = seqCounter + 1
    <3>1. lineEpoch' = [lineEpoch EXCEPT ![seqCounter + 1] = e]
      BY <1>0, <2>1, <2>5
    <3> QED
      BY <2>2, <2>5, <3>1 DEF Over
  <2> QED
    BY <2>3, <2>4, <2>5
<1>3. ASSUME NEW d \in Dialers, HandleDialResult(d)
      PROVE  /\ \A e \in Epochs : Over(e) => Over(e)'
             /\ seqCounter' = seqCounter /\ lineEpoch' = lineEpoch
  <2>1. CASE DialReject(d)
    BY <1>1, <1>3, <2>1 DEF DialReject, HandleDialResult
  <2>2. CASE DialPublish(d)
    <3>1. dialer[d].epoch \in 1 .. epoch /\ reader[dialer[d].epoch].pc = "none"
      BY <1>0, <2>2 DEF DialPublish, KeeperInv, DialOwnsEpoch
    <3> QED
      BY <1>0, <1>3, <2>2, <3>1 DEF DialPublish, HandleDialResult, Over
  <2> QED
    BY <1>3, <2>1, <2>2 DEF HandleDialResult
<1>4. ASSUME NEW c \in Closers, KeeperClose(c) \/ HandleCloseResult(c)
      PROVE  UNCHANGED <<reader, seqCounter, lineEpoch>>
  BY <1>4 DEF KeeperClose, HandleCloseResult, CloseClear, CloseShut, CloseReturn
<1>5. ASSUME NEW d \in Dialers, HandleDialInstall(d)
      PROVE  UNCHANGED <<reader, seqCounter, lineEpoch>>
  BY <1>5 DEF HandleDialInstall, DialInstall
<1>6. ASSUME NEW s \in Sessions, SessionStep(s)
      PROVE  UNCHANGED <<reader, seqCounter, lineEpoch>>
  BY <1>6 DEF SessionStep, LiveReady, Teardown, HandleBlobPush, PushBlob, HandleSeqAck, AckSeq,
              HandleDial, DialStart, HandleClose, CloseStart, TakeConn, keeperVars
<1>7. ASSUME NEW s \in Sessions, FanStep(s)
      PROVE  UNCHANGED <<reader, seqCounter, lineEpoch>>
  BY <1>7 DEF FanStep, FanSubscribe, Subscribe, FanSubscribeLines, SubscribeLines, FanCatchUp,
              FanLine, FanDrain, FanTake, RecvLine, FanOverflow, FanSwap, UnsubscribeLines,
              FanEvent, RecvEvent, FanForward, FanEnd, keeperVars
<1>8. ASSUME NEW s \in Sessions, BrainStep(s) \/ OtherNetworkGap(s) \/ BrainReconnect(s)
      PROVE  UNCHANGED <<reader, seqCounter, lineEpoch>>
  BY <1>8 DEF BrainStep, AttachHello, AttachAck, BrainRecv, BrainDetached, BrainHandle,
              BrainPushTimeout, BrainAck, BrainDial, OtherNetworkGap, BrainReconnect, keeperVars
<1>9. ASSUME BrainCrash \/ UNCHANGED vars
      PROVE  UNCHANGED <<reader, seqCounter, lineEpoch>>
  BY <1>9 DEF BrainCrash, keeperVars, vars
<1> QED
  BY <1>0, <1>1, <1>2, <1>3, <1>4, <1>5, <1>6, <1>7, <1>8, <1>9 DEF SNext

\* A line of the keeper stays what it is.
LEMMA KnownKept ==
  ASSUME SInv, KeeperLinesKnown, [SNext]_vars, NEW x, x.seq \in Seqs, Known(x)
  PROVE  Known(x)'
<1>1. seqCounter \in 0 .. MaxSeq /\ lineEpoch \in [Seqs -> 0 .. MaxEpoch]
  BY DEF SInv, KeeperInv, TypeOK, KeeperLinesKnown
<1>2. CASE seqCounter' = seqCounter
  BY <1>2, LoopSteps DEF Known
<1>3. CASE seqCounter' # seqCounter
  <2>1. PICK e \in Epochs : lineEpoch' = [lineEpoch EXCEPT ![seqCounter + 1] = e]
    BY <1>3, LoopSteps
  <2>2. x.seq # seqCounter + 1 /\ seqCounter' = seqCounter + 1 /\ x.seq <= seqCounter + 1
    BY <1>1, <1>3, LoopSteps DEF Known, Seqs
  <2> QED
    BY <1>1, <2>1, <2>2 DEF Known
<1> QED
  BY <1>2, <1>3

\* What is in a feed after a step was in it before, or a loop has just published it.
LEMMA FeedChange ==
  ASSUME SInv, [SNext]_vars, NEW x \in Subs, NEW i \in DOMAIN lineSub'[x].q
  PROVE  \/ \E j \in DOMAIN lineSub[x].q : lineSub'[x].q[i] = lineSub[x].q[j]
         \/ \E e \in Epochs : reader[e].pc = "publish"
                              /\ lineSub'[x].q[i] = [seq |-> reader[e].seq, epoch |-> e]
<1> USE DEF connVars, streamVars, procVars
<1>0. /\ KeeperInv /\ lineSub \in [Subs -> LineState]
  BY DEF SInv, KeeperInv, TypeOK
<1>1. KeeperMove
  BY KeeperMoves
<1>2. CASE lineSub'[x].q = lineSub[x].q
  BY <1>2
<1>3. lineSub[x].q \in Seq(Entry)
  BY <1>0 DEF LineState
<1>4. lineSub'[x].q # <<>>
  OBVIOUS
<1>5. ASSUME NEW e \in Epochs, PublishRead(e)
      PROVE  \/ \E j \in DOMAIN lineSub[x].q : lineSub'[x].q[i] = lineSub[x].q[j]
             \/ \E f \in Epochs : reader[f].pc = "publish"
                                  /\ lineSub'[x].q[i] = [seq |-> reader[f].seq, epoch |-> f]
  <2> DEFINE y == [seq |-> reader[e].seq, epoch |-> e]
  <2>1. reader[e].pc = "publish" /\ lineSub'[x] = FeedLine(lineSub[x], y)
    BY <1>5 DEF PublishRead, PublishLine
  <2>2. lineSub'[x].q = lineSub[x].q \/ lineSub'[x].q = Append(lineSub[x].q, y)
    BY <1>0, <2>1 DEF FeedLine, LineState
  <2>3. CASE lineSub'[x].q = Append(lineSub[x].q, y)
    <3>1. lineSub[x].q \in Seq(Entry \union {y}) /\ y \in Entry \union {y}
      BY <1>3
    <3>2. CASE i <= Len(lineSub[x].q)
      <4>1. i \in DOMAIN lineSub[x].q /\ lineSub'[x].q[i] = lineSub[x].q[i]
        BY <2>3, <3>1, <3>2
      <4> QED
        BY <4>1
    <3>3. CASE i > Len(lineSub[x].q)
      <4>1. lineSub'[x].q[i] = y
        BY <2>3, <3>1, <3>3
      <4> QED
        BY <2>1, <4>1
    <3> QED
      BY <2>3, <3>1, <3>2, <3>3
  <2> QED
    BY <1>2, <2>2, <2>3
<1>6. ASSUME NEW e \in Epochs, ReadStep(e), ~PublishRead(e) PROVE lineSub' = lineSub
  BY <1>6 DEF ReadStep, ReadLine, PushLine, OverflowClose, AfterLine, ReadError, Cleanup,
              CleanupClear, CleanupEvent
<1>7. ASSUME NEW s \in Subs, RecvLine(s)
      PROVE  \E j \in DOMAIN lineSub[x].q : lineSub'[x].q[i] = lineSub[x].q[j]
  <2>1. CASE s = x
    <3>1. lineSub'[x].q = Tail(lineSub[x].q) /\ lineSub[x].q # <<>>
      BY <1>0, <1>7, <2>1 DEF RecvLine, LineState
    <3> QED
      BY <1>3, <3>1
  <2>2. CASE s # x
    BY <1>0, <1>7, <2>2 DEF RecvLine
  <2> QED
    BY <2>1, <2>2
<1>8. ASSUME NEW s \in Subs, SubscribeLines(s) \/ UnsubscribeLines(s) PROVE lineSub'[x] = lineSub[x]
  BY <1>0, <1>4, <1>8 DEF SubscribeLines, UnsubscribeLines, NoLineSub
<1>9. ASSUME NEW s \in Subs, Subscribe(s) \/ Unsubscribe(s) \/ RecvEvent(s) PROVE lineSub' = lineSub
  BY <1>9 DEF Subscribe, Unsubscribe, RecvEvent
<1>10. ASSUME NEW y, PushBlob(y) PROVE lineSub' = lineSub
  BY <1>10 DEF PushBlob
<1>11. ASSUME NEW n, AckSeq(n) PROVE lineSub' = lineSub
  BY <1>11 DEF AckSeq
<1>12. ASSUME NEW s \in Sessions, FanEnd(s) PROVE lineSub'[x] = lineSub[x]
  BY <1>0, <1>4, <1>12 DEF FanEnd, NoLineSub
<1>13. ASSUME NEW d \in Dialers, DialStep(d) PROVE lineSub' = lineSub
  BY <1>13 DEF DialStep, DialStart, DialReject, DialInstall, DialPublish
<1>14. ASSUME NEW c \in Closers, CloseStep(c) PROVE lineSub' = lineSub
  BY <1>14 DEF CloseStep, CloseStart, QuitStart, QuitClose, TakeConn, CloseClear, CloseShut, CloseReturn
<1>15. ASSUME (\E e \in Epochs : Finalize(e)) \/ UNCHANGED keeperVars PROVE lineSub' = lineSub
  BY <1>15 DEF Finalize, keeperVars
<1>16. CASE ClientStep
  BY <1>2, <1>7, <1>8, <1>9, <1>10, <1>11, <1>16 DEF ClientStep
<1> QED
  BY <1>1, <1>2, <1>5, <1>6, <1>10, <1>11, <1>12, <1>13, <1>14, <1>15, <1>16 DEF KeeperMove, Next

\* What is in the ring after a step was in it before, or a loop has just pushed it.
LEMMA RingChange ==
  ASSUME SInv, [SNext]_vars, NEW i \in DOMAIN ring'
  PROVE  \/ \E j \in DOMAIN ring : ring'[i] = ring[j]
         \/ \E e \in Epochs : reader[e].pc = "push" /\ ring'[i] = [seq |-> reader[e].seq, epoch |-> e]
<1> USE DEF connVars, streamVars, procVars
<1>0. KeeperInv /\ ring \in Seq(Entry)
  BY DEF SInv, KeeperInv, TypeOK
<1>1. KeeperMove
  BY KeeperMoves
<1>2. ASSUME NEW e \in Epochs, PushLine(e)
      PROVE  \/ \E j \in DOMAIN ring : ring'[i] = ring[j]
             \/ \E f \in Epochs : reader[f].pc = "push" /\ ring'[i] = [seq |-> reader[f].seq, epoch |-> f]
  <2> DEFINE y == [seq |-> reader[e].seq, epoch |-> e]
  <2>1. reader[e].pc = "push" /\ ring' = Push(ring, RingCap, y)
    BY <1>2 DEF PushLine
  <2>2. CASE ring' = Append(ring, y)
    BY <1>0, <2>1, <2>2
  <2>3. CASE ring' = Append(Tail(ring), y) /\ ring # <<>>
    BY <1>0, <2>1, <2>3
  <2>4. ring = <<>> => Len(ring) # RingCap
    BY KeeperAssumption
  <2> QED
    BY <2>1, <2>2, <2>3, <2>4 DEF Push, PushEvicts
<1>3. ASSUME NEW e \in Epochs, ReadStep(e), ~PushLine(e) PROVE ring' = ring
  BY <1>3 DEF ReadStep, ReadLine, PublishRead, OverflowClose, AfterLine, ReadError, Cleanup,
              CleanupClear, CleanupEvent
<1>4. ASSUME ClientStep PROVE ring' = ring
  BY <1>4 DEF ClientStep, Subscribe, Unsubscribe, RecvEvent, SubscribeLines, UnsubscribeLines,
              RecvLine, PushBlob, AckSeq
<1>5. ASSUME NEW d \in Dialers, DialStep(d) PROVE ring' = ring
  BY <1>5 DEF DialStep, DialStart, DialReject, DialInstall, DialPublish
<1>6. ASSUME NEW c \in Closers, CloseStep(c) PROVE ring' = ring
  BY <1>6 DEF CloseStep, CloseStart, QuitStart, QuitClose, TakeConn, CloseClear, CloseShut, CloseReturn
<1>7. ASSUME (\E e \in Epochs : Finalize(e)) \/ UNCHANGED keeperVars PROVE ring' = ring
  BY <1>7 DEF Finalize, keeperVars
<1>8. ASSUME \/ \E y \in Entry : PushBlob(y)
             \/ \E n \in 0 .. MaxSeq : AckSeq(n)
             \/ \E s \in Sessions : FanEnd(s)
      PROVE  ring' = ring
  BY <1>8 DEF PushBlob, AckSeq, FanEnd
<1> QED
  BY <1>1, <1>2, <1>3, <1>4, <1>5, <1>6, <1>7, <1>8 DEF KeeperMove, Next

\* A loop that has a line in its hands after a step had it before, or has just read it.
LEMMA HandChange ==
  ASSUME SInv, [SNext]_vars, NEW e \in Epochs, reader'[e].pc \in {"push", "publish"}
  PROVE  \/ reader[e].pc \in {"push", "publish"} /\ reader'[e].seq = reader[e].seq
         \/ reader'[e].seq = seqCounter' /\ ReadLine(e)
<1> USE DEF connVars, streamVars, procVars
<1>0. KeeperInv /\ reader \in [Epochs -> ReaderState]
  BY DEF SInv, KeeperInv, TypeOK
<1>1. KeeperMove
  BY KeeperMoves
<1>2. CASE reader' = reader
  BY <1>2
<1>3. ASSUME NEW f \in Epochs, ReadStep(f)
      PROVE  \/ reader[e].pc \in {"push", "publish"} /\ reader'[e].seq = reader[e].seq
             \/ reader'[e].seq = seqCounter' /\ ReadLine(e)
  <2>1. CASE f # e
    <3>1. reader'[e] = reader[e]
      BY <1>0, <1>3, <2>1 DEF ReadStep, ReadLine, PushLine, PublishRead, OverflowClose, AfterLine,
                              ReadError, Cleanup, CleanupClear, CleanupEvent
    <3> QED
      BY <3>1
  <2>2. CASE f = e
    BY <1>0, <1>3, <2>2 DEF ReadStep, ReadLine, PushLine, PublishRead, OverflowClose, AfterLine,
                            ReadError, Cleanup, CleanupClear, CleanupEvent, ReaderState
  <2> QED
    BY <2>1, <2>2
<1>4. ASSUME ClientStep PROVE reader' = reader
  BY <1>4 DEF ClientStep, Subscribe, Unsubscribe, RecvEvent, SubscribeLines, UnsubscribeLines,
              RecvLine, PushBlob, AckSeq
<1>5. ASSUME NEW d \in Dialers, DialStep(d), reader' # reader
      PROVE  reader[e].pc \in {"push", "publish"} /\ reader'[e].seq = reader[e].seq
  <2>1. DialPublish(d)
    BY <1>5 DEF DialStep, DialStart, DialReject, DialInstall
  <2> QED
    BY <1>0, <2>1 DEF DialPublish, ReaderState
<1>6. ASSUME NEW c \in Closers, CloseStep(c) PROVE reader' = reader
  BY <1>6 DEF CloseStep, CloseStart, QuitStart, QuitClose, TakeConn, CloseClear, CloseShut, CloseReturn
<1>7. ASSUME (\E f \in Epochs : Finalize(f)) \/ UNCHANGED keeperVars PROVE reader' = reader
  BY <1>7 DEF Finalize, keeperVars
<1>8. ASSUME \/ \E y \in Entry : PushBlob(y)
             \/ \E n \in 0 .. MaxSeq : AckSeq(n)
             \/ \E s \in Sessions : FanEnd(s)
      PROVE  reader' = reader
  BY <1>8 DEF PushBlob, AckSeq, FanEnd
<1> QED
  BY <1>1, <1>2, <1>3, <1>4, <1>5, <1>6, <1>7, <1>8 DEF KeeperMove, Next

\* So what the keeper holds is known throughout.
LEMMA KnownStep ==
  ASSUME SInv, KeeperLinesKnown, [SNext]_vars
  PROVE  KeeperLinesKnown'
<1>0. /\ lineEpoch \in [Seqs -> 0 .. MaxEpoch] /\ seqCounter \in 0 .. MaxSeq
      /\ reader \in [Epochs -> ReaderState] /\ ring \in Seq(Entry)
      /\ lineSub \in [Subs -> LineState] /\ LineInHand
  BY DEF SInv, KeeperInv, TypeOK, KeeperLinesKnown, StreamInv
<1>1. lineEpoch' \in [Seqs -> 0 .. MaxEpoch]
  BY <1>0, LoopSteps, KeeperAssumption, SMTT(30) DEF Epochs
<1>2. ASSUME NEW x, x.seq \in Seqs, Known(x)
      PROVE  x.seq <= seqCounter' /\ lineEpoch'[x.seq] = x.epoch
  BY <1>2, KnownKept DEF Known
<1>3. ASSUME NEW e \in Epochs, reader[e].pc \in {"push", "publish"}
      PROVE  reader[e].seq <= seqCounter' /\ lineEpoch'[reader[e].seq] = e
  <2>1. PICK x : x = [seq |-> reader[e].seq, epoch |-> e]
    OBVIOUS
  <2>2. x.seq \in Seqs /\ Known(x)
    BY <1>0, <1>3, <2>1 DEF KeeperLinesKnown, LineInHand, Seqs
  <2> QED
    BY <1>2, <2>1, <2>2
<1>4. ASSUME NEW i \in DOMAIN ring'
      PROVE  Known(ring[i])'
  <2>1. CASE \E j \in DOMAIN ring : ring'[i] = ring[j]
    <3>1. PICK j \in DOMAIN ring : ring'[i] = ring[j]
      BY <2>1
    <3>2. Known(ring[j])
      BY <3>1 DEF KeeperLinesKnown
    <3>3. ring[j] \in Entry
      BY <1>0, <3>1
    <3>4. ring[j].seq \in Seqs
      BY <3>3 DEF Entry
    <3>5. PICK x : x = ring[j]
      OBVIOUS
    <3> QED
      BY <1>2, <3>1, <3>2, <3>4, <3>5 DEF Known
  <2>2. CASE \E e \in Epochs : reader[e].pc = "push" /\ ring'[i] = [seq |-> reader[e].seq, epoch |-> e]
    BY <1>3, <2>2 DEF Known
  <2> QED
    BY <2>1, <2>2, RingChange
<1>5. ASSUME NEW y \in Subs, NEW i \in DOMAIN lineSub'[y].q
      PROVE  Known(lineSub[y].q[i])'
  <2>1. CASE \E j \in DOMAIN lineSub[y].q : lineSub'[y].q[i] = lineSub[y].q[j]
    <3>1. PICK j \in DOMAIN lineSub[y].q : lineSub'[y].q[i] = lineSub[y].q[j]
      BY <2>1
    <3>2. Known(lineSub[y].q[j])
      BY <3>1 DEF KeeperLinesKnown
    <3>3. lineSub[y].q[j] \in Entry
      BY <1>0, <3>1 DEF LineState
    <3>4. lineSub[y].q[j].seq \in Seqs
      BY <3>3 DEF Entry
    <3>5. PICK x : x = lineSub[y].q[j]
      OBVIOUS
    <3> QED
      BY <1>2, <3>1, <3>2, <3>4, <3>5 DEF Known
  <2>2. CASE \E e \in Epochs : reader[e].pc = "publish"
                              /\ lineSub'[y].q[i] = [seq |-> reader[e].seq, epoch |-> e]
    BY <1>3, <2>2 DEF Known
  <2> QED
    BY <2>1, <2>2, FeedChange
<1>6. ASSUME NEW e \in Epochs, reader'[e].pc \in {"push", "publish"}
      PROVE  Known([seq |-> reader[e].seq, epoch |-> e])'
  <2>1. CASE reader[e].pc \in {"push", "publish"} /\ reader'[e].seq = reader[e].seq
    BY <1>3, <2>1 DEF Known
  <2>2. CASE reader'[e].seq = seqCounter' /\ ReadLine(e)
    <3>1. seqCounter' = seqCounter + 1
      BY <1>0, <2>2 DEF ReadLine
    <3>2. PICK f \in Epochs : KeeperRead(f) /\ ReadLine(f)
                              /\ lineEpoch' = [lineEpoch EXCEPT ![seqCounter + 1] = f]
      BY <1>0, <3>1, LoopSteps
    <3>3. f = e
      BY <1>0, <2>2, <3>2 DEF ReadLine, ReaderState
    <3>4. seqCounter + 1 \in Seqs
      BY <1>0, <2>2, KeeperAssumption DEF ReadLine, Seqs
    <3> QED
      BY <1>0, <2>2, <3>1, <3>2, <3>3, <3>4 DEF Known
  <2> QED
    BY <1>6, <2>1, <2>2, HandChange
<1> QED
  BY <1>1, <1>4, <1>5, <1>6 DEF KeeperLinesKnown

\* What is in an event feed after a step was in it before, or is the news of a
\* connection that was made or of one whose loop has ended.
LEMMA EventChange ==
  ASSUME SInv, [SNext]_vars, NEW x \in Subs, NEW i \in DOMAIN evSub'[x].q
  PROVE  \/ \E j \in DOMAIN evSub[x].q : evSub'[x].q[i] = evSub[x].q[j]
         \/ \E e \in Epochs : evSub'[x].q[i] = [kind |-> "connected", epoch |-> e]
         \/ \E e \in Epochs : Over(e)' /\ evSub'[x].q[i] = [kind |-> "disconnected", epoch |-> e]
<1> USE DEF connVars, streamVars, procVars
<1> DEFINE G == \/ \E j \in DOMAIN evSub[x].q : evSub'[x].q[i] = evSub[x].q[j]
                \/ \E e \in Epochs : evSub'[x].q[i] = [kind |-> "connected", epoch |-> e]
                \/ \E e \in Epochs : Over(e)' /\ evSub'[x].q[i] = [kind |-> "disconnected", epoch |-> e]
<1>0. KeeperInv /\ evSub \in [Subs -> EvState] /\ reader \in [Epochs -> ReaderState]
  BY DEF SInv, KeeperInv, TypeOK
<1>1. KeeperMove
  BY KeeperMoves
<1>2. evSub[x].q \in Seq(Event)
  BY <1>0 DEF EvState
<1>3. ASSUME evSub'[x].q = evSub[x].q PROVE G
  BY <1>3
<1>4. ASSUME evSub'[x].q = <<>> PROVE G
  BY <1>4
<1>5. ASSUME NEW ev, Publish(ev)
      PROVE  (\E j \in DOMAIN evSub[x].q : evSub'[x].q[i] = evSub[x].q[j]) \/ evSub'[x].q[i] = ev
  <2>1. evSub'[x].q = evSub[x].q \/ evSub'[x].q = Append(evSub[x].q, ev)
    BY <1>0, <1>5 DEF Publish, EvState
  <2>2. CASE evSub'[x].q = Append(evSub[x].q, ev)
    <3>1. evSub[x].q \in Seq(Event \union {ev}) /\ ev \in Event \union {ev}
      BY <1>2
    <3>2. CASE i <= Len(evSub[x].q)
      <4>1. i \in DOMAIN evSub[x].q /\ evSub'[x].q[i] = evSub[x].q[i]
        BY <2>2, <3>1, <3>2
      <4> QED
        BY <4>1
    <3>3. CASE i > Len(evSub[x].q)
      BY <2>2, <3>1, <3>3
    <3> QED
      BY <2>2, <3>1, <3>2, <3>3
  <2> QED
    BY <2>1, <2>2
<1>6. ASSUME NEW e \in Epochs, ReadStep(e) PROVE G
  <2>1. CASE CleanupEvent(e)
    <3>1. Publish([kind |-> "disconnected", epoch |-> e]) /\ Over(e)'
      BY <1>0, <2>1 DEF CleanupEvent, Over, ReaderState
    <3>2. PICK ev : ev = [kind |-> "disconnected", epoch |-> e]
      OBVIOUS
    <3> QED
      BY <1>5, <3>1, <3>2
  <2>2. CASE ~CleanupEvent(e)
    BY <1>3, <1>6, <2>2 DEF ReadStep, ReadLine, PushLine, PublishRead, OverflowClose, AfterLine,
                      ReadError, Cleanup, CleanupClear
  <2> QED
    BY <2>1, <2>2
<1>7. ASSUME NEW d \in Dialers, DialStep(d) PROVE G
  <2>1. CASE DialPublish(d)
    <3>1. dialer[d].epoch \in Epochs
      BY <1>0, <2>1, KeeperAssumption DEF DialPublish, KeeperInv, DialOwnsEpoch, TypeOK, Epochs
    <3>2. PICK e \in Epochs : e = dialer[d].epoch
      BY <3>1
    <3>3. PICK ev : ev = [kind |-> "connected", epoch |-> e]
      OBVIOUS
    <3> QED
      BY <1>5, <2>1, <3>2, <3>3 DEF DialPublish
  <2>2. CASE ~DialPublish(d)
    BY <1>3, <1>7, <2>2 DEF DialStep, DialStart, DialReject, DialInstall
  <2> QED
    BY <2>1, <2>2
<1>8. ASSUME NEW s \in Subs, RecvEvent(s) PROVE G
  <2>1. CASE s = x
    <3>1. evSub'[x].q = Tail(evSub[x].q) /\ evSub[x].q # <<>>
      BY <1>0, <1>8, <2>1 DEF RecvEvent, EvState
    <3> QED
      BY <1>2, <3>1
  <2>2. CASE s # x
    BY <1>0, <1>3, <1>8, <2>2 DEF RecvEvent
  <2> QED
    BY <2>1, <2>2
<1>9. ASSUME NEW s \in Subs, Subscribe(s) \/ Unsubscribe(s) PROVE G
  <2>1. evSub'[x].q = evSub[x].q \/ evSub'[x].q = <<>>
    BY <1>0, <1>9 DEF Subscribe, Unsubscribe, NoEvSub
  <2> QED
    BY <1>3, <1>4, <2>1
<1>10. ASSUME NEW s \in Subs, SubscribeLines(s) \/ UnsubscribeLines(s) \/ RecvLine(s) PROVE G
  BY <1>3, <1>10 DEF SubscribeLines, UnsubscribeLines, RecvLine
<1>11. ASSUME NEW y, PushBlob(y) \/ AckSeq(y) PROVE G
  BY <1>3, <1>11 DEF PushBlob, AckSeq
<1>12. ASSUME NEW s \in Sessions, FanEnd(s) PROVE G
  <2>1. evSub'[x].q = evSub[x].q \/ evSub'[x].q = <<>>
    BY <1>0, <1>12 DEF FanEnd, NoEvSub
  <2> QED
    BY <1>3, <1>4, <2>1
<1>13. ASSUME NEW c \in Closers, CloseStep(c) PROVE G
  BY <1>3, <1>13 DEF CloseStep, CloseStart, QuitStart, QuitClose, TakeConn, CloseClear, CloseShut, CloseReturn
<1>14. ASSUME (\E f \in Epochs : Finalize(f)) \/ UNCHANGED keeperVars PROVE G
  BY <1>3, <1>14 DEF Finalize, keeperVars
<1> HIDE DEF G
<1>15. ASSUME ClientStep PROVE G
  BY <1>8, <1>9, <1>10, <1>11, <1>15 DEF ClientStep
<1> QED
  BY <1>1, <1>6, <1>7, <1>11, <1>12, <1>13, <1>14, <1>15 DEF KeeperMove, Next, G

\* How an attach may have changed what it is about to forward and what it has.
LEMMA ToldChange ==
  ASSUME SInv, told \in [Sessions -> SUBSET Epochs], [SNext]_vars
  PROVE  /\ \A s \in Sessions :
              \/ fan'[s].ev = fan[s].ev \/ fan'[s].ev = NoEvent
              \/ FanEvent(s) /\ fan'[s].ev = EventMsg(Head(evSub[<<s, 0>>].q))
         /\ \/ told' = told
            \/ \E r \in Sessions : /\ FanForward(r) /\ fan[r].ev.t = "disconnected"
                                   /\ told' = [told EXCEPT ![r] = @ \union {fan[r].ev.epoch}]
<1> USE DEF sessVars, brainVars, histVars
<1> DEFINE A(s) == \/ fan'[s].ev = fan[s].ev \/ fan'[s].ev = NoEvent
                   \/ FanEvent(s) /\ fan'[s].ev = EventMsg(Head(evSub[<<s, 0>>].q))
           G == /\ \A s \in Sessions : A(s)
                /\ \/ told' = told
                   \/ \E r \in Sessions : /\ FanForward(r) /\ fan[r].ev.t = "disconnected"
                                          /\ told' = [told EXCEPT ![r] = @ \union {fan[r].ev.epoch}]
<1>0. fan \in [Sessions -> FanState]
  BY DEF SInv, FanTypes
<1>1. ASSUME UNCHANGED <<fan, told>> PROVE G
  BY <1>1
<1>2. ASSUME NEW e \in Epochs, KeeperRead(e) PROVE G
  BY <1>1, <1>2 DEF KeeperRead
<1>3. ASSUME NEW c \in Closers, KeeperClose(c) \/ HandleCloseResult(c) PROVE G
  BY <1>1, <1>3 DEF KeeperClose, HandleCloseResult
<1>4. ASSUME NEW r, NEW w, StartFanIn(r, w), told' = told PROVE G
  <2>1. fan' = fan \/ fan' = [fan EXCEPT ![r] = [NoFan EXCEPT !.pc = "subEvents", !.lastSent = deliveredSeq]]
    BY <1>4 DEF StartFanIn
  <2>2. ASSUME NEW s \in Sessions PROVE fan'[s] = fan[s] \/ fan'[s].ev = NoEvent
    BY <1>0, <2>1 DEF NoFan
  <2> QED
    BY <1>4, <2>2
<1>5. ASSUME NEW d \in Dialers, HandleDialInstall(d) \/ HandleDialResult(d) PROVE G
  <2>1. told' = told /\ (fan' = fan \/ StartFanIn(owner[d], Live(owner[d])))
    BY <1>5 DEF HandleDialInstall, HandleDialResult
  <2> QED
    BY <1>1, <1>4, <2>1
<1>6. ASSUME NEW r \in Sessions, LiveReady(r) PROVE G
  BY <1>4, <1>6 DEF LiveReady
<1>7. ASSUME NEW r \in Sessions,
             \/ Teardown(r) \/ HandleBlobPush(r) \/ HandleSeqAck(r) \/ HandleDial(r) \/ HandleClose(r)
             \/ BrainStep(r) \/ OtherNetworkGap(r) \/ BrainReconnect(r)
      PROVE  G
  <2>1. UNCHANGED <<fan, told>>
    BY <1>7 DEF Teardown, HandleBlobPush, HandleSeqAck, HandleDial, HandleClose, BrainStep, AttachHello,
        AttachAck, BrainRecv, BrainDetached, BrainHandle, BrainPushTimeout, BrainAck, BrainDial,
        OtherNetworkGap, BrainReconnect
  <2> QED
    BY <1>1, <2>1
<1>8. ASSUME BrainCrash \/ UNCHANGED vars PROVE G
  BY <1>1, <1>8 DEF BrainCrash, vars
<1>9. ASSUME NEW r \in Sessions, FanEvent(r) PROVE G
  <2>1. told' = told
    BY <1>9 DEF FanEvent
  <2>2. fan' = [fan EXCEPT ![r].pc = "drain", ![r].ev = EventMsg(Head(evSub[<<r, 0>>].q))]
    BY <1>9 DEF FanEvent
  <2>3. ASSUME NEW s \in Sessions PROVE A(s)
    BY <1>0, <1>9, <2>2 DEF FanState
  <2> QED
    BY <2>1, <2>3
<1>10. ASSUME NEW r \in Sessions, FanForward(r) PROVE G
  <2>1. fan' = [fan EXCEPT ![r].pc = "loop", ![r].ev = NoEvent]
    BY <1>10 DEF FanForward
  <2>2. ASSUME NEW s \in Sessions PROVE fan'[s].ev = fan[s].ev \/ fan'[s].ev = NoEvent
    BY <1>0, <2>1 DEF FanState
  <2>3. \/ told' = told
        \/ fan[r].ev.t = "disconnected" /\ told' = [told EXCEPT ![r] = @ \union {fan[r].ev.epoch}]
    BY <1>10 DEF FanForward
  <2> QED
    BY <1>10, <2>2, <2>3
<1>11. ASSUME NEW r \in Sessions, FanEnd(r) PROVE G
  <2>1. told' = told /\ \A s \in Sessions : fan'[s] = fan[s] \/ fan'[s].ev = NoEvent
    BY <1>0, <1>11 DEF FanEnd, NoFan
  <2> QED
    BY <2>1
<1>12. ASSUME NEW r \in Sessions,
              \/ FanSubscribe(r) \/ FanSubscribeLines(r) \/ FanCatchUp(r) \/ FanTake(r)
              \/ FanOverflow(r) \/ FanSwap(r)
       PROVE  G
  <2>1. told' = told
    BY <1>12 DEF FanSubscribe, FanSubscribeLines, FanCatchUp, FanTake, FanOverflow, FanSwap
  <2>2. ASSUME NEW s \in Sessions PROVE fan'[s].ev = fan[s].ev
    <3>1. ASSUME NEW n, \/ fan' = [fan EXCEPT ![r].pc = "loop", ![r].lastSent = n]
                        \/ fan' = [fan EXCEPT ![r].lastSent = n]
          PROVE  fan'[s].ev = fan[s].ev
      BY <1>0, <3>1 DEF FanState
    <3>2. CASE FanCatchUp(r)
      <4>1. \/ \E n : fan' = [fan EXCEPT ![r].pc = "loop", ![r].lastSent = n]
            \/ fan' = [fan EXCEPT ![r].pc = "end"]
        BY <3>2 DEF FanCatchUp
      <4> QED
        BY <1>0, <3>1, <4>1 DEF FanState
    <3>3. CASE FanTake(r)
      <4>1. fan' = fan \/ \E n : fan' = [fan EXCEPT ![r].lastSent = n]
        BY <3>3 DEF FanTake
      <4> QED
        BY <3>1, <4>1
    <3> QED
      BY <1>0, <1>12, <3>2, <3>3 DEF FanSubscribe, FanSubscribeLines, FanOverflow, FanSwap, FanState
  <2> QED
    BY <2>1, <2>2
<1> HIDE DEF G
<1>13. G
  BY <1>2, <1>3, <1>5, <1>6, <1>7, <1>8, <1>9, <1>10, <1>11, <1>12
     DEF SNext, SessionStep, FanStep, FanLine, FanDrain
<1> QED
  BY <1>13 DEF G

\* So whoever is told of a loss is told when the loop of the connection is over.
LEMMA LossesOverStep ==
  ASSUME SInv, LossesOver, [SNext]_vars
  PROVE  LossesOver'
<1>1. /\ told \in [Sessions -> SUBSET Epochs] /\ evSub \in [Subs -> EvState]
      /\ \A e \in Epochs : Over(e) => Over(e)'
      /\ \A s \in Sessions : <<s, 0>> \in Subs
  BY LoopSteps, LiveSessionAssumption DEF LossesOver, SInv, KeeperInv, TypeOK
<1>2. ASSUME NEW x \in Subs, NEW i \in DOMAIN evSub'[x].q
      PROVE  LossOf(evSub[x].q[i])'
  <2>1. CASE \E j \in DOMAIN evSub[x].q : evSub'[x].q[i] = evSub[x].q[j]
    <3>1. PICK j \in DOMAIN evSub[x].q : evSub'[x].q[i] = evSub[x].q[j]
      BY <2>1
    <3>2. LossOf(evSub[x].q[j])
      BY <3>1 DEF LossesOver
    <3>3. evSub[x].q[j] \in Event
      BY <1>1, <3>1 DEF EvState
    <3>4. evSub[x].q[j].epoch \in Epochs
      BY <3>3 DEF Event
    <3>5. PICK e \in Epochs : e = evSub[x].q[j].epoch
      BY <3>4
    <3>6. evSub'[x].q[i].kind = "disconnected" => Over(e)'
      BY <1>1, <3>1, <3>2, <3>5 DEF LossOf
    <3> QED
      BY <3>1, <3>5, <3>6 DEF LossOf, Over
  <2>2. CASE \E e \in Epochs : evSub'[x].q[i] = [kind |-> "connected", epoch |-> e]
    BY <2>2 DEF LossOf
  <2>3. CASE \E e \in Epochs : Over(e)' /\ evSub'[x].q[i] = [kind |-> "disconnected", epoch |-> e]
    BY <2>3 DEF LossOf, Over
  <2> QED
    BY <2>1, <2>2, <2>3, EventChange
<1>3. ASSUME NEW s \in Sessions, fan'[s].ev.t = "disconnected"
      PROVE  Over(fan[s].ev.epoch)'
  <2>1. CASE fan'[s].ev = fan[s].ev
    <3>1. fan[s] \in FanState /\ fan[s].ev.t = "disconnected"
      BY <1>3, <2>1 DEF SInv, FanTypes
    <3>2. fan[s].ev.epoch \in Epochs /\ Over(fan[s].ev.epoch)
      BY <3>1 DEF FanState, SentFrame, NoEvent, LossesOver
    <3>3. PICK e \in Epochs : e = fan[s].ev.epoch
      BY <3>2
    <3> QED
      BY <1>1, <2>1, <3>2, <3>3 DEF Over
  <2>2. CASE fan'[s].ev = NoEvent
    BY <1>3, <2>2 DEF NoEvent
  <2>3. CASE FanEvent(s) /\ fan'[s].ev = EventMsg(Head(evSub[<<s, 0>>].q))
    <3>1. evSub[<<s, 0>>].q \in Seq(Event) /\ evSub[<<s, 0>>].q # <<>>
      BY <1>1, <2>3 DEF FanEvent, RecvEvent, EvState
    <3>2. 1 \in DOMAIN evSub[<<s, 0>>].q /\ Head(evSub[<<s, 0>>].q) = evSub[<<s, 0>>].q[1]
      BY <3>1
    <3>3. evSub[<<s, 0>>].q[1] \in Event /\ LossOf(evSub[<<s, 0>>].q[1])
      BY <1>1, <3>1, <3>2 DEF LossesOver
    <3>4. PICK e \in Epochs : e = evSub[<<s, 0>>].q[1].epoch
      BY <3>3 DEF Event
    <3>5. fan'[s].ev.t = evSub[<<s, 0>>].q[1].kind /\ fan'[s].ev.epoch = e
      BY <2>3, <3>2, <3>4 DEF EventMsg
    <3>6. Over(e)'
      BY <1>1, <1>3, <3>3, <3>4, <3>5 DEF LossOf
    <3> QED
      BY <3>5, <3>6 DEF Over
  <2> QED
    BY <1>1, <2>1, <2>2, <2>3, ToldChange
<1>4. CASE told' = told
  <2>1. ASSUME NEW s \in Sessions, NEW e \in told'[s] PROVE Over(e)'
    BY <1>1, <1>4, <2>1 DEF LossesOver
  <2> QED
    BY <1>1, <1>2, <1>3, <1>4, <2>1 DEF LossesOver
<1>5. ASSUME NEW r \in Sessions, FanForward(r), fan[r].ev.t = "disconnected",
             told' = [told EXCEPT ![r] = @ \union {fan[r].ev.epoch}]
      PROVE  LossesOver'
  <2>1. fan[r] \in FanState
    BY DEF SInv, FanTypes
  <2>2. fan[r].ev.epoch \in Epochs
    BY <1>5, <2>1 DEF FanState, SentFrame, NoEvent
  <2>3. PICK n \in Epochs : n = fan[r].ev.epoch /\ Over(n)
    BY <1>5, <2>2 DEF LossesOver
  <2>4. told' \in [Sessions -> SUBSET Epochs]
    BY <1>1, <1>5, <2>3
  <2>5. ASSUME NEW s \in Sessions, NEW e \in told'[s] PROVE Over(e)'
    <3>1. e \in told[s] \/ e = n
      BY <1>1, <1>5, <2>3
    <3> QED
      BY <1>1, <2>3, <3>1 DEF LossesOver
  <2> QED
    BY <1>2, <1>3, <2>4, <2>5 DEF LossesOver
<1> QED
  BY <1>1, <1>4, <1>5, ToldChange

\* A feed stays rid of the connections whose loss was forwarded: no loop that is over publishes.
LEMMA RidKept ==
  ASSUME SInv, LossesOver, [SNext]_vars, NEW x \in Subs, NEW s \in Sessions, Rid(x, s),
         told'[s] = told[s]
  PROVE  Rid(x, s)'
<1> SUFFICES ASSUME NEW i \in DOMAIN lineSub'[x].q
             PROVE  lineSub'[x].q[i].epoch \notin told[s]
  BY DEF Rid
<1>1. CASE \E j \in DOMAIN lineSub[x].q : lineSub'[x].q[i] = lineSub[x].q[j]
  BY <1>1 DEF Rid
<1>2. CASE \E e \in Epochs : reader[e].pc = "publish"
                             /\ lineSub'[x].q[i] = [seq |-> reader[e].seq, epoch |-> e]
  <2>1. PICK e \in Epochs : reader[e].pc = "publish" /\ lineSub'[x].q[i].epoch = e
    BY <1>2
  <2>2. e \notin told[s]
    BY <2>1 DEF LossesOver, Over
  <2> QED
    BY <2>1, <2>2
<1> QED
  BY <1>1, <1>2, FeedChange

\* A step that is none of an attach's own fan-in's leaves that where it is, or starts it.
LEMMA FanStays ==
  ASSUME SInv, [SNext]_vars, NEW s \in Sessions, ~FanStep(s)
  PROVE  fan'[s] = fan[s] \/ fan'[s].pc = "subEvents"
<1> USE DEF sessVars, brainVars, histVars
<1>0. fan \in [Sessions -> FanState]
  BY DEF SInv, FanTypes
<1>1. ASSUME NEW e \in Epochs, KeeperRead(e) PROVE fan' = fan
  BY <1>1 DEF KeeperRead
<1>2. ASSUME NEW c \in Closers, KeeperClose(c) \/ HandleCloseResult(c) PROVE fan' = fan
  BY <1>2 DEF KeeperClose, HandleCloseResult
<1>3. ASSUME NEW r, NEW w, StartFanIn(r, w) PROVE fan'[s] = fan[s] \/ fan'[s].pc = "subEvents"
  <2>1. fan' = fan \/ fan' = [fan EXCEPT ![r] = [NoFan EXCEPT !.pc = "subEvents", !.lastSent = deliveredSeq]]
    BY <1>3 DEF StartFanIn
  <2> QED
    BY <1>0, <2>1 DEF NoFan
<1>4. ASSUME NEW d \in Dialers, HandleDialInstall(d) \/ HandleDialResult(d)
      PROVE  fan' = fan \/ StartFanIn(owner[d], Live(owner[d]))
  BY <1>4 DEF HandleDialInstall, HandleDialResult
<1>5. ASSUME NEW r \in Sessions, LiveReady(r) PROVE StartFanIn(r, sess[r].has)
  BY <1>5 DEF LiveReady
<1>6. ASSUME NEW r \in Sessions,
             \/ Teardown(r) \/ HandleBlobPush(r) \/ HandleSeqAck(r) \/ HandleDial(r) \/ HandleClose(r)
             \/ BrainStep(r) \/ OtherNetworkGap(r) \/ BrainReconnect(r)
      PROVE  fan' = fan
  BY <1>6 DEF Teardown, HandleBlobPush, HandleSeqAck, HandleDial, HandleClose, BrainStep, AttachHello,
      AttachAck, BrainRecv, BrainDetached, BrainHandle, BrainPushTimeout, BrainAck, BrainDial,
      OtherNetworkGap, BrainReconnect
<1>7. ASSUME BrainCrash \/ UNCHANGED vars PROVE fan' = fan
  BY <1>7 DEF BrainCrash, vars
<1>8. ASSUME NEW r \in Sessions, r # s, FanStep(r) PROVE fan'[s] = fan[s]
  <2>1. CASE FanCatchUp(r)
    BY <1>0, <1>8, <2>1 DEF FanCatchUp
  <2>2. CASE FanTake(r)
    BY <1>0, <1>8, <2>2 DEF FanTake
  <2>3. CASE ~FanCatchUp(r) /\ ~FanTake(r)
    BY <1>0, <1>8, <2>3 DEF FanStep, FanSubscribe, FanSubscribeLines, FanLine, FanDrain, FanOverflow,
        FanSwap, FanEvent, FanForward, FanEnd
  <2> QED
    BY <2>1, <2>2, <2>3
<1> QED
  BY <1>1, <1>2, <1>3, <1>4, <1>5, <1>6, <1>7, <1>8 DEF SNext, SessionStep

LEMMA FeedsRidStep ==
  ASSUME SInv, LossesOver, FeedsRid, [SNext]_vars
  PROVE  FeedsRid'
<1> SUFFICES ASSUME NEW s \in Sessions
             PROVE  /\ fan'[s].pc \in {"catchUp", "loop", "drain"} => Rid(Sub(s), s)'
                    /\ fan'[s].pc = "swap" => Rid(<<s, 1 - fan[s].slot>>, s)'
  BY DEF FeedsRid
<1> DEFINE G == /\ fan'[s].pc \in {"catchUp", "loop", "drain"} => Rid(Sub(s), s)'
                /\ fan'[s].pc = "swap" => Rid(<<s, 1 - fan[s].slot>>, s)'
<1>1. PICK k \in {0, 1} : fan[s].slot = k
  BY FanFacts
<1>2. /\ <<s, k>> \in Subs /\ <<s, 1 - k>> \in Subs /\ <<s, k>> # <<s, 1 - k>>
      /\ fan \in [Sessions -> FanState] /\ lineSub \in [Subs -> LineState]
      /\ told \in [Sessions -> SUBSET Epochs] /\ Sub(s) = <<s, k>>
      /\ 1 - (1 - k) = k
  BY <1>1, LiveSessionAssumption DEF SInv, FanTypes, KeeperInv, TypeOK, LossesOver, Sub
<1>3. ASSUME NEW j \in {0, 1}, told'[s] = told[s], Rid(<<s, j>>, s)
      PROVE  Rid(<<s, j>>, s)'
  <2>1. PICK x \in Subs : x = <<s, j>>
    BY LiveSessionAssumption
  <2>2. Rid(x, s)
    BY <1>3, <2>1 DEF Rid
  <2>3. Rid(x, s)'
    BY <1>3, <2>2, RidKept
  <2> QED
    BY <2>1, <2>3 DEF Rid
<1>4. 1 - k \in {0, 1}
  OBVIOUS
<1>5. /\ fan[s].pc \in {"catchUp", "loop", "drain"} => Rid(<<s, k>>, s)
      /\ fan[s].pc = "swap" => Rid(<<s, 1 - k>>, s)
  BY <1>1, <1>2 DEF FeedsRid
\* Where a fan-in stays, nothing was told.
<1>6. ASSUME told'[s] = told[s], fan'[s] = fan[s] PROVE G
  <2>1. Sub(s)' = <<s, k>> /\ 1 - fan'[s].slot = 1 - k /\ fan'[s].pc = fan[s].pc
    BY <1>1, <1>6 DEF Sub
  <2>2. fan[s].pc \in {"catchUp", "loop", "drain"} => Rid(<<s, k>>, s)'
    BY <1>3, <1>5, <1>6
  <2>3. fan[s].pc = "swap" => Rid(<<s, 1 - k>>, s)'
    BY <1>3, <1>4, <1>5, <1>6
  <2> QED
    BY <2>1, <2>2, <2>3 DEF Rid
<1>7. ~FanForward(s) => told'[s] = told[s]
  BY <1>2, ToldChange
<1>8. CASE ~FanStep(s)
  <2>1. CASE fan'[s].pc = "subEvents"
    BY <2>1
  <2> QED
    BY <1>6, <1>7, <1>8, <2>1, FanStays DEF FanStep
<1>9. CASE FanSubscribe(s) \/ FanEnd(s)
  <2>1. fan'[s].pc \in {"subLines", "off"}
    BY <1>2, <1>9 DEF FanSubscribe, FanEnd, NoFan, FanState
  <2> QED
    BY <2>1
<1>10. CASE FanSubscribeLines(s)
  <2>1. fan'[s].pc = "catchUp" /\ Sub(s)' = <<s, k>> /\ lineSub'[<<s, k>>].q = <<>>
    BY <1>1, <1>2, <1>10 DEF FanSubscribeLines, SubscribeLines, Sub, FanState
  <2> QED
    BY <2>1 DEF Rid
<1>11. CASE FanOverflow(s)
  <2>1. fan'[s].pc = "swap" /\ fan'[s].slot = k /\ lineSub'[<<s, 1 - k>>].q = <<>>
    BY <1>1, <1>2, <1>11 DEF FanOverflow, SubscribeLines, FanState
  <2> QED
    BY <2>1 DEF Rid
<1>12. CASE FanSwap(s)
  <2>1. fan'[s].pc = "catchUp" /\ fan'[s].slot = 1 - k /\ fan[s].pc = "swap" /\ ~FanForward(s)
    BY <1>1, <1>2, <1>12 DEF FanSwap, FanForward, FanAt, FanState
  <2>2. Rid(<<s, 1 - k>>, s)'
    BY <1>3, <1>4, <1>5, <1>7, <2>1
  <2>3. Sub(s)' = <<s, 1 - k>>
    BY <2>1 DEF Sub
  <2> QED
    BY <2>1, <2>2, <2>3 DEF Rid
<1>13. CASE FanForward(s)
  <2>1. fan'[s].pc = "loop" /\ fan'[s].slot = k /\ lineSub'[<<s, k>>].q = <<>>
    BY <1>1, <1>2, <1>13 DEF FanForward, keeperVars, FanState
  <2>2. Sub(s)' = <<s, k>>
    BY <2>1 DEF Sub
  <2> QED
    BY <2>1, <2>2 DEF Rid
<1>14. CASE FanEvent(s) \/ FanCatchUp(s) \/ (FanTake(s) /\ fan[s].pc \in {"loop", "drain"})
  <2>1. /\ fan[s].pc \in {"catchUp", "loop", "drain"} /\ fan'[s].pc \in {"loop", "drain", "end"}
        /\ fan'[s].slot = k
    <3>1. CASE FanEvent(s)
      BY <1>1, <1>2, <3>1 DEF FanEvent, FanAt, FanState
    <3>2. CASE FanCatchUp(s)
      <4>1. \/ \E n : fan' = [fan EXCEPT ![s].pc = "loop", ![s].lastSent = n]
            \/ fan' = [fan EXCEPT ![s].pc = "end"]
        BY <3>2 DEF FanCatchUp
      <4> QED
        BY <1>1, <1>2, <3>2, <4>1 DEF FanCatchUp, FanAt, FanState
    <3>3. CASE FanTake(s) /\ fan[s].pc \in {"loop", "drain"}
      <4>1. fan' = fan \/ \E n : fan' = [fan EXCEPT ![s].lastSent = n]
        BY <3>3 DEF FanTake
      <4> QED
        BY <1>1, <1>2, <3>3, <4>1 DEF FanState
    <3> QED
      BY <1>14, <3>1, <3>2, <3>3
  <2>2. ~FanForward(s) \/ told'[s] = told[s]
    BY <1>14 DEF FanEvent, FanCatchUp, FanTake, histVars
  <2>3. Rid(<<s, k>>, s)' /\ Sub(s)' = <<s, k>>
    BY <1>3, <1>5, <1>7, <2>1, <2>2 DEF Sub
  <2> QED
    BY <2>1, <2>3 DEF Rid
<1> QED
  BY <1>8, <1>9, <1>10, <1>11, <1>12, <1>13, <1>14 DEF FanStep, FanLine, FanDrain, FanAt

LEMMA LossInvInit == SInit => LossInv
<1> SUFFICES ASSUME SInit PROVE LossInv
  OBVIOUS
<1>1. KeeperLinesKnown
  BY KeeperAssumption DEF SInit, Init, KeeperLinesKnown, NoLineSub, NewReader
<1>2. LossesOver
  BY DEF SInit, Init, LossesOver, NoEvSub, NoFan, NoEvent
<1>3. FeedsRid
  BY DEF SInit, FeedsRid, NoFan
<1> QED
  BY <1>1, <1>2, <1>3 DEF LossInv

\* A fan-in that reads its feed sends nothing else.
LEMMA OnlyTakes ==
  ASSUME SInv, [SNext]_vars, NEW s \in Sessions, fan[s].pc \in {"loop", "drain"}, ~FanTake(s)
  PROVE  feed'[s] = feed[s]
<1> USE DEF sessVars, brainVars, histVars
<1>0. fan \in [Sessions -> FanState] /\ feed \in [Sessions -> Seq(Seqs)]
  BY DEF SInv, FanTypes
<1>1. ASSUME NEW e \in Epochs, KeeperRead(e) PROVE feed' = feed
  BY <1>1 DEF KeeperRead
<1>2. ASSUME NEW c \in Closers, KeeperClose(c) \/ HandleCloseResult(c) PROVE feed' = feed
  BY <1>2 DEF KeeperClose, HandleCloseResult
<1>3. ASSUME NEW r, NEW w, StartFanIn(r, w) PROVE feed'[s] = feed[s]
  BY <1>0, <1>3 DEF StartFanIn
<1>4. ASSUME NEW d \in Dialers, HandleDialInstall(d) \/ HandleDialResult(d)
      PROVE  feed' = feed \/ StartFanIn(owner[d], Live(owner[d]))
  BY <1>4 DEF HandleDialInstall, HandleDialResult
<1>5. ASSUME NEW r \in Sessions, LiveReady(r) PROVE StartFanIn(r, sess[r].has)
  BY <1>5 DEF LiveReady
<1>6. ASSUME NEW r \in Sessions,
             \/ Teardown(r) \/ HandleBlobPush(r) \/ HandleSeqAck(r) \/ HandleDial(r) \/ HandleClose(r)
             \/ BrainStep(r) \/ OtherNetworkGap(r) \/ BrainReconnect(r)
      PROVE  feed' = feed
  BY <1>6 DEF Teardown, HandleBlobPush, HandleSeqAck, HandleDial, HandleClose, BrainStep, AttachHello,
      AttachAck, BrainRecv, BrainDetached, BrainHandle, BrainPushTimeout, BrainAck, BrainDial,
      OtherNetworkGap, BrainReconnect
<1>7. ASSUME BrainCrash \/ UNCHANGED vars PROVE feed' = feed
  BY <1>7 DEF BrainCrash, vars
<1>8. ASSUME NEW r \in Sessions, FanStep(r) PROVE feed'[s] = feed[s]
  <2>1. CASE FanCatchUp(r)
    BY <1>0, <2>1 DEF FanCatchUp, FanAt
  <2>2. CASE FanTake(r)
    <3>1. r # s
      BY <2>2
    <3> QED
      BY <1>0, <2>2, <3>1 DEF FanTake
  <2>3. CASE ~FanCatchUp(r) /\ ~FanTake(r)
    BY <1>8, <2>3 DEF FanStep, FanSubscribe, FanSubscribeLines, FanLine, FanDrain, FanOverflow,
        FanSwap, FanEvent, FanForward, FanEnd
  <2> QED
    BY <2>1, <2>2, <2>3
<1> QED
  BY <1>1, <1>2, <1>3, <1>4, <1>5, <1>6, <1>7, <1>8 DEF SNext, SessionStep

\* What it takes is of no connection whose loss it has forwarded.
LEMMA TakenIsRid ==
  ASSUME SInv, LossInv, [SNext]_vars, NEW s \in Sessions, fan[s].pc \in {"loop", "drain"},
         NEW i \in Len(feed[s]) + 1 .. Len(feed'[s])
  PROVE  lineEpoch[feed'[s][i]] \notin told[s]
<1>1. feed[s] \in Seq(Seqs) /\ Len(feed[s]) \in Nat /\ lineSub[Sub(s)] \in LineState /\ Sub(s) \in Subs
  BY FanFacts
<1>2. feed'[s] # feed[s]
  BY <1>1
<1>3. FanTake(s)
  BY <1>2, OnlyTakes
<1> DEFINE q == lineSub[Sub(s)].q
           e == Head(q)
<1>4. q \in Seq(Entry) /\ q # <<>>
  BY <1>1, <1>3 DEF FanTake, RecvLine, LineState
<1>5. e = q[1] /\ 1 \in DOMAIN q /\ e \in Entry
  BY <1>4
<1>6. feed'[s] = Append(feed[s], e.seq)
  <2>1. feed' = feed \/ feed' = [feed EXCEPT ![s] = Append(@, e.seq)]
    BY <1>3 DEF FanTake
  <2>2. feed \in [Sessions -> Seq(Seqs)]
    BY DEF SInv, FanTypes
  <2> QED
    BY <1>2, <2>1, <2>2
<1>7. Known(e) /\ e.epoch \notin told[s]
  <2>1. Known(q[1])
    BY <1>1, <1>5 DEF LossInv, KeeperLinesKnown
  <2>2. q[1].epoch \notin told[s]
    BY <1>5 DEF LossInv, FeedsRid, Rid
  <2> QED
    BY <1>5, <2>1, <2>2
<1> HIDE DEF e, q
<1>8. feed'[s][i] = e.seq
  <2>1. e.seq \in Seqs
    BY <1>5 DEF Entry
  <2>2. Len(feed'[s]) = Len(feed[s]) + 1 /\ feed'[s][Len(feed[s]) + 1] = e.seq
    BY <1>1, <1>6, <2>1
  <2>3. i = Len(feed[s]) + 1
    BY <1>1, <2>2
  <2> QED
    BY <2>2, <2>3
<1> QED
  BY <1>7, <1>8 DEF Known

\* Of the lines that come out of the feeds, a brain hears of the loss of a
\* connection last: it waits behind what is already in the feed, and the loop
\* that publishes it has published every line it read.  As above, for any overlap
\* in which no two loops have a line in hand.
THEOREM LossComesLast == SSpec /\ []LinesApart => LossAfterLines
<1>1. SInit => LossInv
  BY LossInvInit
<1>2. SInv /\ LossInv /\ [SNext]_vars => LossInv'
  BY KnownStep, LossesOverStep, FeedsRidStep DEF LossInv
<1>3. SSpec /\ []LinesApart => []SInv
  BY SessionInvariant
<1>4. SInv /\ LossInv /\ [SNext]_vars =>
        [\A s \in Sessions : \A i \in Len(feed[s]) + 1 .. Len(feed'[s]) :
           fan[s].pc \in {"loop", "drain"} => lineEpoch[feed'[s][i]] \notin told[s]]_vars
  BY TakenIsRid
<1>5. SSpec /\ []LinesApart => []LossInv
  BY <1>1, <1>2, <1>3, PTL DEF SSpec
<1>6. SSpec /\ []LinesApart => [][\A s \in Sessions : \A i \in Len(feed[s]) + 1 .. Len(feed'[s]) :
           fan[s].pc \in {"loop", "drain"} => lineEpoch[feed'[s][i]] \notin told[s]]_vars
  BY <1>3, <1>4, <1>5, PTL DEF SSpec
<1> QED
  BY <1>6 DEF LossAfterLines

-----------------------------------------------------------------------------
(* What a brain knows and what the blob records.                           *)

\* Of the lines of connection c up to w, as lineEpoch le tells them, those that
\* change the state are in R.
Covered(c, le, R, w) ==
  c # 0 => \A n \in StateLines : n <= w /\ le[n] = c => [seq |-> n, epoch |-> c] \in R

Cov(R, w) == Covered(conn, lineEpoch, R, w)

\* The frames of kind t among the first n of q, as lines.
Item(m) == [seq |-> m.seq, epoch |-> m.epoch]
Of(q, t, n) == {Item(q[j]) : j \in {k \in 1 .. n : q[k].t = t}}
AllOf(q, t) == Of(q, t, Len(q))
First(q, n) == {q[j] : j \in 1 .. n}
Got == First(lines, Len(lines))

\* The types of the attaches and of the brain.
SessState == [pc : {"none", "hello", "acked", "live", "closing"}, has : BOOLEAN, killed : BOOLEAN]
BrainState == [pc : {"down", "hello", "run", "detached"}, sess : 0 .. MaxSession, connected : BOOLEAN,
               epoch : 0 .. MaxEpoch, wantDial : BOOLEAN, closing : BOOLEAN]

SessTypes ==
  /\ known \in BOOLEAN
  /\ sess \in [Sessions -> SessState]
  /\ brain \in BrainState
  /\ know \subseteq Entry

\* Which steps concern the brain ...
BrainOwn(s) ==
  \/ AttachHello(s) \/ AttachAck(s) \/ BrainRecv(s) \/ BrainDetached(s) \/ BrainHandle(s)
  \/ BrainPushTimeout(s) \/ BrainAck(s) \/ BrainDial(s) \/ BrainReconnect(s)

LEMMA BrainWho ==
  ASSUME [SNext]_vars
  PROVE  UNCHANGED brainVars \/ (\E s \in Sessions : BrainOwn(s)) \/ BrainCrash
<1> USE DEF brainVars
<1>1. ASSUME NEW e \in Epochs, KeeperRead(e) PROVE UNCHANGED brainVars
  BY <1>1 DEF KeeperRead
<1>2. ASSUME NEW c \in Closers, KeeperClose(c) \/ HandleCloseResult(c) PROVE UNCHANGED brainVars
  BY <1>2 DEF KeeperClose, HandleCloseResult
<1>3. ASSUME NEW d \in Dialers, HandleDialInstall(d) \/ HandleDialResult(d) PROVE UNCHANGED brainVars
  BY <1>3 DEF HandleDialInstall, HandleDialResult
<1>4. ASSUME NEW s \in Sessions, SessionStep(s) PROVE UNCHANGED brainVars
  BY <1>4 DEF SessionStep, LiveReady, Teardown, HandleBlobPush, HandleSeqAck, HandleDial, HandleClose
<1>5. ASSUME NEW s \in Sessions, FanStep(s) PROVE UNCHANGED brainVars
  BY <1>5 DEF FanStep, FanSubscribe, FanSubscribeLines, FanCatchUp, FanLine, FanDrain, FanTake,
              FanOverflow, FanSwap, FanEvent, FanForward, FanEnd
<1>6. ASSUME NEW s \in Sessions, OtherNetworkGap(s) PROVE UNCHANGED brainVars
  BY <1>6 DEF OtherNetworkGap
<1>7. UNCHANGED vars => UNCHANGED brainVars
  BY DEF vars
<1> QED
  BY <1>1, <1>2, <1>3, <1>4, <1>5, <1>6, <1>7 DEF SNext, BrainStep, BrainOwn

\* ... the frames to the keeper and the phase of an attach ...
UpOwn(s) ==
  \/ AttachHello(s) \/ AttachAck(s) \/ LiveReady(s) \/ Teardown(s)
  \/ HandleBlobPush(s) \/ HandleSeqAck(s) \/ HandleDial(s) \/ HandleClose(s)
  \/ BrainHandle(s) \/ BrainAck(s) \/ BrainDial(s) \/ BrainReconnect(s)

LEMMA UpWho ==
  ASSUME [SNext]_vars, SessTypes
  PROVE  \/ up' = up /\ \A s \in Sessions : sess'[s].pc = sess[s].pc /\ sess'[s].has = sess[s].has
         \/ \E s \in Sessions : UpOwn(s)
<1> USE DEF sessVars
<1> DEFINE G == up' = up /\ \A s \in Sessions : sess'[s].pc = sess[s].pc /\ sess'[s].has = sess[s].has
<1>0. UNCHANGED <<up, sess>> => G
  OBVIOUS
<1>1. ASSUME NEW e \in Epochs, KeeperRead(e) PROVE UNCHANGED <<up, sess>>
  BY <1>1 DEF KeeperRead
<1>2. ASSUME NEW c \in Closers, KeeperClose(c) \/ HandleCloseResult(c) PROVE UNCHANGED <<up, sess>>
  BY <1>2 DEF KeeperClose, HandleCloseResult
<1>3. ASSUME NEW d \in Dialers, HandleDialInstall(d) \/ HandleDialResult(d) PROVE UNCHANGED <<up, sess>>
  BY <1>3 DEF HandleDialInstall, HandleDialResult
<1>4. ASSUME NEW s \in Sessions, FanStep(s), ~FanCatchUp(s) PROVE UNCHANGED <<up, sess>>
  BY <1>4 DEF FanStep, FanSubscribe, FanSubscribeLines, FanLine, FanDrain, FanTake,
              FanOverflow, FanSwap, FanEvent, FanForward, FanEnd
<1>5. ASSUME NEW s \in Sessions, FanCatchUp(s) \/ OtherNetworkGap(s) PROVE G
  <2>1. up' = up /\ (sess' = sess \/ sess' = [sess EXCEPT ![s].killed = TRUE])
    BY <1>5 DEF FanCatchUp, OtherNetworkGap
  <2> QED
    BY <2>1 DEF SessTypes, SessState
<1>6. ASSUME NEW s \in Sessions, BrainRecv(s) \/ BrainDetached(s) \/ BrainPushTimeout(s)
      PROVE  UNCHANGED <<up, sess>>
  BY <1>6 DEF BrainRecv, BrainDetached, BrainPushTimeout
<1>7. BrainCrash \/ UNCHANGED vars => UNCHANGED <<up, sess>>
  BY DEF BrainCrash, vars
<1> QED
  BY <1>0, <1>1, <1>2, <1>3, <1>4, <1>5, <1>6, <1>7 DEF SNext, SessionStep, BrainStep, UpOwn

\* ... and the frames to the brain.
LEMMA WireWho ==
  ASSUME SInv, [SNext]_vars
  PROVE  \/ wire' = wire
         \/ \E s \in Sessions : FanCatchUp(s) \/ FanLine(s) \/ FanDrain(s) \/ FanForward(s) \/ BrainRecv(s)
         \/ \E s : \E m \in SentFrame : Send(s, <<m>>) /\ m.t # "line" /\ UNCHANGED brainVars
         \/ BrainCrash
<1> USE DEF sessVars, brainVars
<1>1. ASSUME NEW e \in Epochs, KeeperRead(e) PROVE wire' = wire
  BY <1>1 DEF KeeperRead
<1>2. ASSUME NEW c \in Closers, KeeperClose(c) PROVE wire' = wire
  BY <1>2 DEF KeeperClose
<1> DEFINE G == \E s : \E m \in SentFrame : Send(s, <<m>>) /\ m.t # "line" /\ UNCHANGED brainVars
<1>0. /\ [t |-> "pushres"] \in SentFrame /\ [t |-> "closeres"] \in SentFrame
      /\ \A b \in BOOLEAN : DialResult(b) \in SentFrame /\ DialResult(b).t # "line"
  BY FrameKinds DEF SInv, DialResult
<1>3. ASSUME NEW c \in Closers, HandleCloseResult(c) PROVE G
  <2>1. Send(owner[c], <<[t |-> "closeres"]>>) /\ UNCHANGED brainVars
    BY <1>3 DEF HandleCloseResult
  <2> QED
    BY <1>0, <2>1
<1>4. ASSUME NEW d \in Dialers, HandleDialInstall(d) PROVE wire' = wire
  BY <1>4 DEF HandleDialInstall
<1>5. ASSUME NEW d \in Dialers, HandleDialResult(d) PROVE G
  <2>1. PICK b \in BOOLEAN : Send(owner[d], <<DialResult(b)>>) /\ UNCHANGED brainVars
    BY <1>5 DEF HandleDialResult
  <2> QED
    BY <1>0, <2>1
<1>6. ASSUME NEW s \in Sessions, LiveReady(s) \/ Teardown(s) \/ HandleSeqAck(s) PROVE wire' = wire
  BY <1>6 DEF LiveReady, Teardown, HandleSeqAck
<1>7. ASSUME NEW s \in Sessions, HandleBlobPush(s) PROVE G
  <2>1. Send(s, <<[t |-> "pushres"]>>) /\ UNCHANGED brainVars
    BY <1>7 DEF HandleBlobPush
  <2> QED
    BY <1>0, <2>1
<1>8. ASSUME NEW s \in Sessions, HandleDial(s) PROVE wire' = wire \/ G
  <2>1. wire' = wire \/ (Send(s, <<DialResult(FALSE)>>) /\ UNCHANGED brainVars)
    BY <1>8 DEF HandleDial
  <2> QED
    BY <1>0, <2>1
<1>9. ASSUME NEW s \in Sessions, HandleClose(s) PROVE wire' = wire \/ G
  <2>1. wire' = wire \/ (Send(s, <<[t |-> "closeres"]>>) /\ UNCHANGED brainVars)
    BY <1>9 DEF HandleClose
  <2> QED
    BY <1>0, <2>1
<1>10. ASSUME NEW s \in Sessions, FanStep(s), ~FanCatchUp(s), ~FanLine(s), ~FanDrain(s), ~FanForward(s)
       PROVE  wire' = wire
  BY <1>10 DEF FanStep, FanSubscribe, FanSubscribeLines, FanLine, FanDrain,
              FanOverflow, FanSwap, FanEvent, FanEnd
<1>11. ASSUME NEW s \in Sessions, BrainOwn(s), ~BrainRecv(s) PROVE wire' = wire
  BY <1>11 DEF BrainOwn, AttachHello, AttachAck, BrainDetached, BrainHandle, BrainPushTimeout, BrainAck,
               BrainDial, BrainReconnect
<1>12. ASSUME NEW s \in Sessions, OtherNetworkGap(s) PROVE wire' = wire
  BY <1>12 DEF OtherNetworkGap
<1>13. UNCHANGED vars => wire' = wire
  BY DEF vars
<1> HIDE DEF G
<1>14. \/ wire' = wire
       \/ \E s \in Sessions : FanCatchUp(s) \/ FanLine(s) \/ FanDrain(s) \/ FanForward(s) \/ BrainRecv(s)
       \/ G
       \/ BrainCrash
  BY <1>1, <1>2, <1>3, <1>4, <1>5, <1>6, <1>7, <1>8, <1>9, <1>10, <1>11, <1>12, <1>13
     DEF SNext, SessionStep, BrainStep, BrainOwn
<1> QED
  BY <1>14 DEF G

\* What becomes of the keeper's connection, blob and watermark.
LEMMA KeeperWho ==
  ASSUME SInv, [SNext]_vars
  PROVE  /\ \/ conn' \in {conn, 0}
            \/ conn = 0 /\ conn' = epoch + 1 /\ epoch' = epoch + 1 /\ \E d \in Dialers : DialInstall(d)
         /\ epoch' \in {epoch, epoch + 1}
         /\ \/ blob' = blob
            \/ /\ blob' = {} /\ conn' = conn
               /\ (\E e \in Epochs : reader[e].pc = "clear") \/ (\E c \in Closers : closer[c].pc = "clear")
            \/ \E s \in Sessions : HandleBlobPush(s)
         /\ \/ deliveredSeq' = deliveredSeq
            \/ conn' = 0 /\ deliveredSeq' = 0
            \/ \E s \in Sessions : HandleSeqAck(s)
<1> USE DEF connVars, streamVars, procVars
<1> DEFINE C == \/ conn' \in {conn, 0}
                \/ conn = 0 /\ conn' = epoch + 1 /\ epoch' = epoch + 1 /\ \E d \in Dialers : DialInstall(d)
           E == epoch' \in {epoch, epoch + 1}
           B == \/ blob' = blob
                \/ /\ blob' = {} /\ conn' = conn
                   /\ (\E e \in Epochs : reader[e].pc = "clear") \/ (\E c \in Closers : closer[c].pc = "clear")
                \/ \E s \in Sessions : HandleBlobPush(s)
           D == \/ deliveredSeq' = deliveredSeq
                \/ conn' = 0 /\ deliveredSeq' = 0
                \/ \E s \in Sessions : HandleSeqAck(s)
<1>1. ASSUME UNCHANGED <<conn, epoch, blob, deliveredSeq>> PROVE C /\ E /\ B /\ D
  BY <1>1
<1>2. ASSUME NEW e \in Epochs, KeeperRead(e) PROVE C /\ E /\ B /\ D
  <2>1. ReadStep(e)
    BY <1>2 DEF KeeperRead
  <2>2. CASE Cleanup(e)
    BY <2>2 DEF Cleanup
  <2>3. CASE CleanupClear(e)
    BY <2>3 DEF CleanupClear
  <2>4. CASE ~Cleanup(e) /\ ~CleanupClear(e)
    BY <1>1, <2>1, <2>4 DEF ReadStep, ReadLine, PushLine, PublishRead, OverflowClose, AfterLine, ReadError,
                      CleanupEvent
  <2> QED
    BY <2>2, <2>3, <2>4
<1>3. ASSUME NEW c \in Closers, KeeperClose(c) PROVE C /\ E /\ B /\ D
  BY <1>3 DEF KeeperClose, CloseClear, CloseShut
<1>4. ASSUME NEW c \in Closers, HandleCloseResult(c) PROVE C /\ E /\ B /\ D
  BY <1>1, <1>4 DEF HandleCloseResult, CloseReturn
<1>5. ASSUME NEW d \in Dialers, HandleDialInstall(d) PROVE C /\ E /\ B /\ D
  BY <1>5 DEF HandleDialInstall, DialInstall
<1>6. ASSUME NEW d \in Dialers, HandleDialResult(d) PROVE C /\ E /\ B /\ D
  BY <1>1, <1>6 DEF HandleDialResult, DialReject, DialPublish
<1>7. ASSUME NEW s \in Sessions, LiveReady(s) \/ Teardown(s) PROVE C /\ E /\ B /\ D
  BY <1>1, <1>7 DEF LiveReady, Teardown, keeperVars
<1>8. ASSUME NEW s \in Sessions, HandleBlobPush(s) PROVE C /\ E /\ B /\ D
  BY <1>8 DEF HandleBlobPush, PushBlob
<1>9. ASSUME NEW s \in Sessions, HandleSeqAck(s) PROVE C /\ E /\ B /\ D
  BY <1>9 DEF HandleSeqAck, AckSeq
<1>10. ASSUME NEW s \in Sessions, HandleDial(s) PROVE C /\ E /\ B /\ D
  BY <1>1, <1>10 DEF HandleDial, DialStart, keeperVars
<1>11. ASSUME NEW s \in Sessions, HandleClose(s) PROVE C /\ E /\ B /\ D
  <2>1. (conn' = 0 \/ conn' = conn) /\ UNCHANGED <<epoch, blob, deliveredSeq>>
    BY <1>11 DEF HandleClose, CloseStart, TakeConn, keeperVars
  <2> QED
    BY <2>1
<1>12. ASSUME NEW s \in Sessions, FanStep(s) PROVE C /\ E /\ B /\ D
  BY <1>1, <1>12 DEF FanStep, FanSubscribe, Subscribe, FanSubscribeLines, SubscribeLines, FanCatchUp,
              FanLine, FanDrain, FanTake, RecvLine, FanOverflow, FanSwap, UnsubscribeLines,
              FanEvent, RecvEvent, FanForward, FanEnd, keeperVars
<1>13. ASSUME NEW s \in Sessions, BrainOwn(s) \/ OtherNetworkGap(s) PROVE C /\ E /\ B /\ D
  BY <1>1, <1>13 DEF BrainOwn, AttachHello, AttachAck, BrainRecv, BrainDetached, BrainHandle,
              BrainPushTimeout, BrainAck, BrainDial, OtherNetworkGap, BrainReconnect, keeperVars
<1>14. ASSUME BrainCrash \/ UNCHANGED vars PROVE C /\ E /\ B /\ D
  BY <1>1, <1>14 DEF BrainCrash, keeperVars, vars
<1> HIDE DEF C, E, B, D
<1>15. C /\ E /\ B /\ D
  BY <1>2, <1>3, <1>4, <1>5, <1>6, <1>7, <1>8, <1>9, <1>10, <1>11, <1>12, <1>13, <1>14
     DEF SNext, SessionStep, BrainStep, BrainOwn
<1> QED
  BY <1>15 DEF C, E, B, D

\* No connection is made while a blob is being cleared, and none is made of nothing.
Clears ==
  /\ \A c \in Closers : closer[c].pc = "clear" => conn = 0
  /\ \A e \in Epochs : reader[e].pc = "clear" => conn = 0
  /\ \A d \in Dialers : dialer[d].pc = "dialing" => conn = 0 /\ \A c \in Closers : closer[c].pc # "clear"

\* The lines that were read are of connections that were made.
LinesRead == \A n \in Seqs : lineEpoch[n] <= epoch /\ (n > seqCounter => lineEpoch[n] = 0)

\* Serial callers dial when nothing runs, so that a loop is alone from its Dial on.
LEMMA OneAtATimeStep ==
  ASSUME SerialCallers, KeeperInv, OneAtATime, KeeperMove
  PROVE  OneAtATime'
<1> USE DEF connVars, streamVars, procVars
<1>0. reader \in [Epochs -> ReaderState] /\ dialer \in [Dialers -> DialerState]
  BY DEF KeeperInv, TypeOK
<1>1. ASSUME UNCHANGED <<dialer, reader>> PROVE OneAtATime'
  BY <1>1 DEF OneAtATime, Reading, Calling
<1>2. ASSUME NEW e \in Epochs, ReadStep(e) PROVE OneAtATime'
  <2>1. Reading(e)
    BY <1>2 DEF Reading, ReadStep, ReadLine, PushLine, PublishRead, OverflowClose, AfterLine,
           ReadError, Cleanup, CleanupClear, CleanupEvent
  <2>2. dialer' = dialer /\ \A f \in Epochs \ {e} : reader'[f] = reader[f]
    BY <1>0, <1>2 DEF ReadStep, ReadLine, PushLine, PublishRead, OverflowClose, AfterLine, ReadError,
           Cleanup, CleanupClear, CleanupEvent
  <2> QED
    BY <2>1, <2>2 DEF OneAtATime, Reading, Calling
<1>3. ASSUME NEW d \in Dialers, DialStep(d) PROVE OneAtATime'
  <2>1. CASE DialStart(d)
    <3>1. /\ \A f \in Dialers : ~Calling(f)
          /\ \A e \in Epochs : ~Reading(e)
      BY <2>1 DEF DialStart, Quiet, Calling, Reading
    <3>2. reader' = reader /\ \A f \in Dialers \ {d} : dialer'[f] = dialer[f]
      BY <1>0, <2>1 DEF DialStart
    <3> QED
      BY <3>1, <3>2 DEF OneAtATime, Calling, Reading
  <2>2. CASE DialReject(d) \/ DialInstall(d)
    <3>1. reader' = reader /\ Calling(d) /\ \A f \in Dialers \ {d} : dialer'[f] = dialer[f]
      BY <1>0, <2>2 DEF DialReject, DialInstall, Calling
    <3> QED
      BY <1>0, <3>1 DEF OneAtATime, Calling, Reading
  <2>3. CASE DialPublish(d)
    <3>1. /\ Calling(d) /\ ~Calling(d)'
          /\ \A f \in Dialers \ {d} : dialer'[f] = dialer[f]
          /\ \A f \in Epochs \ {dialer[d].epoch} : reader'[f] = reader[f]
      BY <1>0, <2>3 DEF DialPublish, Calling, IdleDialer
    <3>2. /\ \A f \in Epochs : ~Reading(f)
          /\ \A f \in Dialers \ {d} : ~Calling(f)
      BY <3>1 DEF OneAtATime
    <3> QED
      BY <3>1, <3>2 DEF OneAtATime, Calling, Reading
  <2> QED
    BY <1>3, <2>1, <2>2, <2>3 DEF DialStep
<1>4. ASSUME NEW c \in Closers, CloseStep(c) PROVE OneAtATime'
  BY <1>1, <1>4 DEF CloseStep, CloseStart, QuitStart, QuitClose, TakeConn, CloseClear, CloseShut,
                    CloseReturn
<1>5. ASSUME \/ ClientStep \/ UNCHANGED keeperVars \/ (\E y \in Entry : PushBlob(y))
             \/ (\E n \in 0 .. MaxSeq : AckSeq(n)) \/ (\E s \in Sessions : FanEnd(s))
             \/ (\E e \in Epochs : Finalize(e))
      PROVE  OneAtATime'
  BY <1>1, <1>5 DEF ClientStep, keeperVars, Subscribe, Unsubscribe, RecvEvent, SubscribeLines,
                    UnsubscribeLines, RecvLine, PushBlob, AckSeq, FanEnd, Finalize
<1> QED
  BY <1>2, <1>3, <1>4, <1>5 DEF KeeperMove, Next

LEMMA ClearsStep ==
  ASSUME SerialCallers, OneAtATime, SInv, Clears, [SNext]_vars
  PROVE  Clears'
<1> USE DEF connVars, streamVars, procVars
<1>0. /\ KeeperInv /\ reader \in [Epochs -> ReaderState] /\ closer \in [Closers -> CloserState]
      /\ dialer \in [Dialers -> DialerState] /\ epoch \in Nat
  BY KeeperAssumption DEF SInv, KeeperInv, TypeOK, StreamInv
<1>1. ASSUME UNCHANGED <<conn, closer, reader, dialer>> PROVE Clears'
  BY <1>1 DEF Clears
<1>2. ASSUME NEW e \in Epochs, KeeperRead(e) PROVE Clears'
  <2>1. ReadStep(e)
    BY <1>2 DEF KeeperRead
  <2>2. conn' \in {conn, 0} /\ (reader'[e].pc = "clear" => conn' = 0) /\ UNCHANGED <<closer, dialer>>
    BY <1>0, <2>1 DEF ReadStep, ReadLine, PushLine, PublishRead, OverflowClose, AfterLine, ReadError,
                      Cleanup, CleanupClear, CleanupEvent, ReaderState
  <2>3. \A f \in Epochs \ {e} : reader'[f] = reader[f]
    BY <1>0, <2>1 DEF ReadStep, ReadLine, PushLine, PublishRead, OverflowClose, AfterLine, ReadError,
                      Cleanup, CleanupClear, CleanupEvent
  <2> QED
    BY <2>2, <2>3 DEF Clears
<1>3. ASSUME NEW c \in Closers, KeeperClose(c) \/ HandleCloseResult(c) PROVE Clears'
  <2>1. UNCHANGED <<conn, reader, dialer>> /\ \A f \in Closers : closer'[f].pc = "clear" => closer[f].pc = "clear"
    BY <1>0, <1>3 DEF KeeperClose, HandleCloseResult, CloseClear, CloseShut, CloseReturn, IdleCloser, CloserState
  <2> QED
    BY <2>1 DEF Clears
<1>4. ASSUME NEW d \in Dialers, HandleDialInstall(d) PROVE Clears'
  <2>1. /\ dialer[d].pc = "dialing" /\ UNCHANGED <<closer, reader>>
        /\ dialer'[d].pc = "publish" /\ \A f \in Dialers \ {d} : dialer'[f] = dialer[f]
    BY <1>0, <1>4 DEF HandleDialInstall, DialInstall
  <2>2. \A c \in Closers : closer[c].pc # "clear"
    BY <2>1 DEF Clears
  <2>3. \A e \in Epochs : reader[e].pc # "clear"
    BY <1>0, <2>1 DEF OneAtATime, Calling, Reading
  <2>4. \A f \in Dialers \ {d} : dialer[f].pc # "dialing"
    BY <1>0, <2>1 DEF OneAtATime, Calling
  <2> QED
    BY <2>1, <2>2, <2>3, <2>4 DEF Clears
<1>5. ASSUME NEW d \in Dialers, HandleDialResult(d) PROVE Clears'
  <2>1. UNCHANGED <<conn, closer>> /\ \A f \in Dialers : dialer'[f].pc = "dialing" => dialer[f].pc = "dialing"
    BY <1>0, <1>5 DEF HandleDialResult, DialReject, DialPublish, IdleDialer
  <2>2. \A e \in Epochs : reader'[e].pc = "clear" => reader[e].pc = "clear"
    BY <1>0, <1>5 DEF HandleDialResult, DialReject, DialPublish, ReaderState
  <2> QED
    BY <2>1, <2>2 DEF Clears
<1>6. ASSUME NEW s \in Sessions, HandleDial(s) PROVE Clears'
  <2>1. CASE UNCHANGED keeperVars
    BY <1>1, <2>1 DEF keeperVars
  <2>2. ASSUME NEW d \in Dialers, DialStart(d) PROVE Clears'
    <3>1. /\ conn = 0 /\ conn' = 0 /\ UNCHANGED <<closer, reader>>
          /\ \A c \in Closers : closer[c].pc = "idle"
      BY <2>2 DEF DialStart, Quiet
    <3> QED
      BY <3>1 DEF Clears
  <2> QED
    BY <1>6, <2>1, <2>2 DEF HandleDial
<1>7. ASSUME NEW s \in Sessions, HandleClose(s) PROVE Clears'
  <2>1. CASE UNCHANGED keeperVars
    BY <1>1, <2>1 DEF keeperVars
  <2>2. ASSUME NEW c \in Closers, CloseStart(c) PROVE Clears'
    <3>1. conn # 0 /\ conn' = 0 /\ UNCHANGED <<dialer, reader>>
      BY <2>2 DEF CloseStart, TakeConn
    <3>2. \A d \in Dialers : dialer[d].pc # "dialing"
      BY <3>1 DEF Clears
    <3> QED
      BY <3>1, <3>2 DEF Clears
  <2> QED
    BY <1>7, <2>1, <2>2 DEF HandleClose
<1>8. ASSUME NEW s \in Sessions, LiveReady(s) \/ Teardown(s) \/ HandleBlobPush(s) \/ HandleSeqAck(s)
      PROVE  Clears'
  BY <1>1, <1>8 DEF LiveReady, Teardown, HandleBlobPush, HandleSeqAck, PushBlob, AckSeq, keeperVars
<1>9. ASSUME NEW s \in Sessions, FanStep(s) PROVE Clears'
  BY <1>1, <1>9 DEF FanStep, FanSubscribe, Subscribe, FanSubscribeLines, SubscribeLines, FanCatchUp,
              FanLine, FanDrain, FanTake, RecvLine, FanOverflow, FanSwap, UnsubscribeLines,
              FanEvent, RecvEvent, FanForward, FanEnd, keeperVars
<1>10. ASSUME NEW s \in Sessions, BrainOwn(s) \/ OtherNetworkGap(s) PROVE Clears'
  BY <1>1, <1>10 DEF BrainOwn, AttachHello, AttachAck, BrainRecv, BrainDetached, BrainHandle,
              BrainPushTimeout, BrainAck, BrainDial, OtherNetworkGap, BrainReconnect, keeperVars
<1>11. ASSUME BrainCrash \/ UNCHANGED vars PROVE Clears'
  BY <1>1, <1>11 DEF BrainCrash, keeperVars, vars
<1> QED
  BY <1>2, <1>3, <1>4, <1>5, <1>6, <1>7, <1>8, <1>9, <1>10, <1>11
     DEF SNext, SessionStep, BrainStep, BrainOwn

LEMMA LinesReadStep ==
  ASSUME SInv, KeeperLinesKnown, LinesRead, [SNext]_vars
  PROVE  LinesRead'
<1>0. /\ KeeperInv /\ seqCounter \in Nat /\ epoch \in Nat /\ lineEpoch \in [Seqs -> 0 .. MaxEpoch]
      /\ epoch' \in {epoch, epoch + 1}
  BY KeeperAssumption, KeeperWho DEF SInv, KeeperInv, TypeOK, KeeperLinesKnown
<1>1. \A n \in Seqs : lineEpoch[n] \in Nat
  BY <1>0
<1>2. CASE seqCounter' = seqCounter
  BY <1>0, <1>1, <1>2, LoopSteps DEF LinesRead
<1>3. CASE seqCounter' # seqCounter
  <2>1. PICK e \in Epochs : ReadLine(e) /\ lineEpoch' = [lineEpoch EXCEPT ![seqCounter + 1] = e]
    BY <1>3, LoopSteps
  <2>2. reader[e].pc = "read" /\ epoch' = epoch /\ seqCounter' = seqCounter + 1
    BY <2>1 DEF ReadLine, connVars
  <2>3. e <= epoch
    BY <1>0, <2>2 DEF KeeperInv, EpochsFresh, Epochs
  <2> QED
    BY <1>0, <1>1, <2>1, <2>2, <2>3 DEF LinesRead, Seqs
<1> QED
  BY <1>2, <1>3

LEMMA BrainFields ==
  ASSUME NEW f \in BrainState
  PROVE  /\ \A n \in 0 .. MaxSession : [f EXCEPT !.sess = n] \in BrainState
         /\ \A b \in BOOLEAN : /\ [f EXCEPT !.connected = b] \in BrainState
                              /\ [f EXCEPT !.wantDial = b] \in BrainState
<1>1. ASSUME NEW n \in 0 .. MaxSession PROVE [f EXCEPT !.sess = n] \in BrainState
  BY <1>1 DEF BrainState
<1>2. ASSUME NEW b \in BOOLEAN PROVE [f EXCEPT !.connected = b] \in BrainState
  BY <1>2 DEF BrainState
<1>3. ASSUME NEW b \in BOOLEAN PROVE [f EXCEPT !.wantDial = b] \in BrainState
  BY <1>3 DEF BrainState
<1> QED
  BY <1>1, <1>2, <1>3

LEMMA SessTypesStep ==
  ASSUME SInv, SessTypes, [SNext]_vars
  PROVE  SessTypes'
<1> USE DEF sessVars, brainVars
<1>0. /\ known \in BOOLEAN /\ sess \in [Sessions -> SessState] /\ brain \in BrainState /\ know \subseteq Entry
      /\ FrameTypes /\ KeeperInv /\ blob \subseteq Entry
  BY DEF SessTypes, SInv, KeeperInv, TypeOK
<1>1. known' \in BOOLEAN
  <2>1. \A s \in Sessions : SessionStep(s) => known' = known \/ known' = TRUE
    BY DEF SessionStep, LiveReady, Teardown, HandleBlobPush, HandleSeqAck, HandleDial, HandleClose
  <2>2. \A s \in Sessions : FanStep(s) \/ OtherNetworkGap(s) => known' = known
    BY DEF FanStep, FanSubscribe, FanSubscribeLines, FanCatchUp, FanLine, FanDrain, FanTake,
           FanOverflow, FanSwap, FanEvent, FanForward, FanEnd, OtherNetworkGap
  <2>3. \A s \in Sessions : BrainStep(s) \/ BrainReconnect(s) => known' = known
    BY DEF BrainStep, AttachHello, AttachAck, BrainRecv, BrainDetached, BrainHandle, BrainPushTimeout,
           BrainAck, BrainDial, BrainReconnect
  <2>4. \A e \in Epochs : KeeperRead(e) => known' = known
    BY DEF KeeperRead
  <2>5. \A c \in Closers : KeeperClose(c) \/ HandleCloseResult(c) => known' = known
    BY DEF KeeperClose, HandleCloseResult
  <2>6. \A d \in Dialers : HandleDialInstall(d) \/ HandleDialResult(d) => known' = known
    BY DEF HandleDialInstall, HandleDialResult
  <2>7. BrainCrash \/ UNCHANGED vars => known' = known
    BY DEF BrainCrash, vars
  <2> QED
    BY <1>0, <2>1, <2>2, <2>3, <2>4, <2>5, <2>6, <2>7 DEF SNext
<1>2. sess' \in [Sessions -> SessState]
  <2>1. ASSUME NEW s \in Sessions, \/ AttachHello(s) \/ AttachAck(s) \/ LiveReady(s) \/ Teardown(s)
                                   \/ FanCatchUp(s) \/ OtherNetworkGap(s)
        PROVE  sess' \in [Sessions -> SessState]
    <3>1. ASSUME NEW f \in SessState, NEW p \in {"none", "hello", "acked", "live", "closing"}
          PROVE  [f EXCEPT !.pc = p] \in SessState /\ [f EXCEPT !.killed = TRUE] \in SessState
                 /\ [pc |-> p, has |-> known, killed |-> FALSE] \in SessState
      BY <1>0 DEF SessState
    <3>2. sess[s] \in SessState
      BY <1>0
    <3>3. \/ sess' = sess
          \/ \E f \in SessState : sess' = [sess EXCEPT ![s] = f]
      BY <1>0, <2>1, <3>1, <3>2 DEF AttachHello, AttachAck, LiveReady, Teardown, FanCatchUp, OtherNetworkGap
    <3> QED
      BY <1>0, <3>3
  <2>2. sess' = sess \/ \E s \in Sessions : \/ AttachHello(s) \/ AttachAck(s) \/ LiveReady(s) \/ Teardown(s)
                                            \/ FanCatchUp(s) \/ OtherNetworkGap(s)
    <3>1. \A s \in Sessions : HandleBlobPush(s) \/ HandleSeqAck(s) \/ HandleDial(s) \/ HandleClose(s)
                              => sess' = sess
      BY DEF HandleBlobPush, HandleSeqAck, HandleDial, HandleClose
    <3>2. \A s \in Sessions : FanStep(s) /\ ~FanCatchUp(s) => sess' = sess
      BY DEF FanStep, FanSubscribe, FanSubscribeLines, FanLine, FanDrain, FanTake,
             FanOverflow, FanSwap, FanEvent, FanForward, FanEnd
    <3>3. \A s \in Sessions : BrainOwn(s) /\ ~AttachHello(s) /\ ~AttachAck(s) => sess' = sess
      BY DEF BrainOwn, BrainRecv, BrainDetached, BrainHandle, BrainPushTimeout,
             BrainAck, BrainDial, BrainReconnect
    <3>4. \A e \in Epochs : KeeperRead(e) => sess' = sess
      BY DEF KeeperRead
    <3>5. \A c \in Closers : KeeperClose(c) \/ HandleCloseResult(c) => sess' = sess
      BY DEF KeeperClose, HandleCloseResult
    <3>6. \A d \in Dialers : HandleDialInstall(d) \/ HandleDialResult(d) => sess' = sess
      BY DEF HandleDialInstall, HandleDialResult
    <3>7. BrainCrash \/ UNCHANGED vars => sess' = sess
      BY DEF BrainCrash, vars
    <3> QED
      BY <3>1, <3>2, <3>3, <3>4, <3>5, <3>6, <3>7 DEF SNext, SessionStep, BrainStep, BrainOwn
  <2> QED
    BY <1>0, <2>1, <2>2
<1>3. know' \subseteq Entry
  <2>1. ASSUME NEW s \in Sessions, BrainHandle(s) PROVE know' \subseteq Entry
    <3>1. Head(lines) \in Entry /\ know' = know \union {Head(lines)}
      BY <1>0, <2>1, HeadTail DEF BrainHandle, FrameTypes
    <3> QED
      BY <1>0, <3>1
  <2>2. ASSUME NEW s \in Sessions, AttachAck(s) PROVE know' \subseteq Entry
    BY <1>0, <2>2 DEF AttachAck
  <2>3. ASSUME NEW s \in Sessions, BrainOwn(s), ~BrainHandle(s), ~AttachAck(s) PROVE know' = know
    BY <2>3 DEF BrainOwn, AttachHello, BrainRecv, BrainDetached, BrainPushTimeout, BrainAck, BrainDial,
                BrainReconnect
  <2> QED
    BY <1>0, <2>1, <2>2, <2>3, BrainWho DEF BrainCrash
<1>4. brain' \in BrainState
  <2>0. DOMAIN brain = {"pc", "sess", "connected", "epoch", "wantDial", "closing"}
        /\ brain.epoch \in 0 .. MaxEpoch /\ brain.sess \in 0 .. MaxSession
    BY <1>0 DEF BrainState
  <2>1. ASSUME NEW s \in Sessions, BrainRecv(s) PROVE brain' \in BrainState
    <3> DEFINE m == Head(wire[s])
    <3>1. m \in SentFrame
      BY <1>0, <2>1, HeadTail DEF BrainRecv, FrameTypes
    <3>2. m.t \in {"dialres", "connected"} => m.epoch \in 0 .. MaxEpoch
      BY <3>1, KeeperAssumption DEF SentFrame, Epochs
    <3> HIDE DEF m
    <3>3. \/ brain' = brain
          \/ m.t \in {"dialres", "connected"} /\ brain' = [brain EXCEPT !.epoch = IF m.epoch > @ THEN m.epoch ELSE @]
          \/ \E b \in BOOLEAN : brain' = [brain EXCEPT !.wantDial = b]
          \/ \E b \in BOOLEAN : brain' = [brain EXCEPT !.closing = FALSE, !.wantDial = b]
      BY <1>0, <2>1 DEF BrainRecv, m, BrainState
    <3> QED
      BY <1>0, <3>2, <3>3 DEF BrainState
  <2>2. ASSUME NEW s \in Sessions, AttachHello(s) \/ AttachAck(s) PROVE brain' \in BrainState
    <3>1. ASSUME NEW b \in BOOLEAN
          PROVE  /\ [brain EXCEPT !.pc = "hello", !.sess = s, !.connected = b] \in BrainState
                 /\ [brain EXCEPT !.pc = "run", !.wantDial = b] \in BrainState
      <4>1. s \in 0 .. MaxSession
        BY LiveSessionAssumption DEF Sessions
      <4>2. [brain EXCEPT !.pc = "hello"] \in BrainState /\ [brain EXCEPT !.pc = "run"] \in BrainState
        BY <1>0 DEF BrainState
      <4>3. [[brain EXCEPT !.pc = "hello"] EXCEPT !.sess = s] \in BrainState
        BY <4>1, <4>2, BrainFields
      <4>4. [[[brain EXCEPT !.pc = "hello"] EXCEPT !.sess = s] EXCEPT !.connected = b] \in BrainState
        BY <4>3, BrainFields
      <4>5. [[brain EXCEPT !.pc = "run"] EXCEPT !.wantDial = b] \in BrainState
        BY <4>2, BrainFields
      <4> QED
        BY <4>4, <4>5
    <3>2. brain.connected \in BOOLEAN /\ (conn # 0) \in BOOLEAN /\ (~brain.connected) \in BOOLEAN
      BY <1>0 DEF BrainState
    <3> QED
      BY <2>2, <3>1, <3>2 DEF AttachHello, AttachAck
  <2>3. ASSUME NEW s \in Sessions, BrainDetached(s) \/ BrainDial(s) \/ BrainReconnect(s)
        PROVE  brain' \in BrainState
    BY <1>0, <2>3 DEF BrainDetached, BrainDial, BrainReconnect, BrainState
  <2>4. ASSUME NEW s \in Sessions, BrainHandle(s) \/ BrainPushTimeout(s) \/ BrainAck(s)
        PROVE  brain' = brain
    BY <2>4 DEF BrainHandle, BrainPushTimeout, BrainAck
  <2>5. BrainCrash => brain' \in BrainState
    <3>1. Down \in BrainState
      BY KeeperAssumption, LiveSessionAssumption DEF Down, BrainState
    <3>2. [Down EXCEPT !.sess = brain.sess] \in BrainState
      BY <2>0, <3>1, BrainFields
    <3> QED
      BY <3>2 DEF BrainCrash
  <2> QED
    BY <1>0, <2>1, <2>2, <2>3, <2>4, <2>5, BrainWho DEF BrainOwn
<1> QED
  BY <1>1, <1>2, <1>3, <1>4 DEF SessTypes

\* Whoever else steps, a fan-in stays as it is or is started, from the watermark.
LEMMA FanWho ==
  ASSUME SInv, SessTypes, [SNext]_vars, NEW s \in Sessions, ~FanStep(s)
  PROVE  \/ fan'[s] = fan[s]
         \/ /\ fan[s].pc = "off" /\ fan'[s].pc = "subEvents" /\ fan'[s].lastSent = deliveredSeq
            /\ sess'[s].pc = "live"
<1> USE DEF sessVars, brainVars, histVars
<1>0. fan \in [Sessions -> FanState] /\ sess \in [Sessions -> SessState]
  BY DEF SInv, FanTypes, SessTypes
<1> DEFINE G == \/ fan'[s] = fan[s]
                \/ /\ fan[s].pc = "off" /\ fan'[s].pc = "subEvents" /\ fan'[s].lastSent = deliveredSeq
                   /\ sess'[s].pc = "live"
<1>1. ASSUME NEW e \in Epochs, KeeperRead(e) PROVE fan' = fan
  BY <1>1 DEF KeeperRead
<1>2. ASSUME NEW c \in Closers, KeeperClose(c) \/ HandleCloseResult(c) PROVE fan' = fan
  BY <1>2 DEF KeeperClose, HandleCloseResult
<1>3. ASSUME NEW r, NEW w, StartFanIn(r, w)
      PROVE  \/ fan'[s] = fan[s]
             \/ /\ r = s /\ w /\ fan[s].pc = "off" /\ fan'[s].pc = "subEvents"
                /\ fan'[s].lastSent = deliveredSeq
  <2>1. CASE w /\ fan[r].pc = "off"
    <3>1. fan' = [fan EXCEPT ![r] = [NoFan EXCEPT !.pc = "subEvents", !.lastSent = deliveredSeq]]
      BY <1>3, <2>1 DEF StartFanIn
    <3>2. CASE r = s
      BY <1>0, <2>1, <3>1, <3>2 DEF NoFan
    <3>3. CASE r # s
      BY <1>0, <3>1, <3>3
    <3> QED
      BY <3>2, <3>3
  <2>2. CASE ~(w /\ fan[r].pc = "off")
    BY <1>3, <2>2 DEF StartFanIn
  <2> QED
    BY <2>1, <2>2
<1>4. ASSUME NEW d \in Dialers, HandleDialInstall(d) PROVE fan' = fan
  BY <1>4 DEF HandleDialInstall
<1>5. ASSUME NEW d \in Dialers, HandleDialResult(d) PROVE G
  <2>1. sess' = sess /\ (fan' = fan \/ StartFanIn(owner[d], Live(owner[d])))
    BY <1>5 DEF HandleDialResult
  <2>2. \/ fan'[s] = fan[s]
        \/ /\ owner[d] = s /\ Live(owner[d]) /\ fan[s].pc = "off" /\ fan'[s].pc = "subEvents"
           /\ fan'[s].lastSent = deliveredSeq
    BY <1>3, <2>1
  <2> QED
    BY <2>1, <2>2 DEF Live
<1>6. ASSUME NEW r \in Sessions, LiveReady(r) PROVE G
  <2>1. StartFanIn(r, sess[r].has) /\ sess'[r].pc = "live"
    BY <1>0, <1>6 DEF LiveReady, SessState
  <2> QED
    BY <1>3, <2>1
<1>7. ASSUME NEW r \in Sessions,
             \/ Teardown(r) \/ HandleBlobPush(r) \/ HandleSeqAck(r) \/ HandleDial(r) \/ HandleClose(r)
             \/ BrainStep(r) \/ OtherNetworkGap(r) \/ BrainReconnect(r)
      PROVE  fan' = fan
  BY <1>7 DEF Teardown, HandleBlobPush, HandleSeqAck, HandleDial, HandleClose, BrainStep, AttachHello,
      AttachAck, BrainRecv, BrainDetached, BrainHandle, BrainPushTimeout, BrainAck, BrainDial,
      OtherNetworkGap, BrainReconnect
<1>8. ASSUME BrainCrash \/ UNCHANGED vars PROVE fan' = fan
  BY <1>8 DEF BrainCrash, vars
<1>9. ASSUME NEW r \in Sessions, r # s, FanStep(r) PROVE fan'[s] = fan[s]
  <2>1. CASE FanCatchUp(r)
    BY <1>0, <1>9, <2>1 DEF FanCatchUp
  <2>2. CASE FanTake(r)
    BY <1>0, <1>9, <2>2 DEF FanTake
  <2>3. CASE ~FanCatchUp(r) /\ ~FanTake(r)
    BY <1>0, <1>9, <2>3 DEF FanStep, FanSubscribe, FanSubscribeLines, FanLine, FanDrain, FanOverflow,
        FanSwap, FanEvent, FanForward, FanEnd
  <2> QED
    BY <2>1, <2>2, <2>3
<1> QED
  BY <1>1, <1>2, <1>4, <1>5, <1>6, <1>7, <1>8, <1>9 DEF SNext, SessionStep

LEMMA JoinOne ==
  ASSUME NEW S, NEW q \in Seq(S), NEW m \in S
  PROVE  q \o <<m>> = Append(q, m) /\ Append(q, m) \in Seq(S) /\ Len(q) \in Nat /\ Len(Append(q, m)) = Len(q) + 1
         /\ Append(q, m)[Len(q) + 1] = m /\ \A i \in 1 .. Len(q) : Append(q, m)[i] = q[i]
OBVIOUS

\* The request a brain makes is put behind the others.
LEMMA AskOne ==
  ASSUME up \in [Sessions -> Seq(AskFrame)], NEW s \in Sessions, NEW m \in AskFrame, Ask(s, <<m>>)
  PROVE  IF sess[s].pc \in {"acked", "live"} THEN up'[s] = Append(up[s], m) ELSE up'[s] = up[s]
BY JoinOne DEF Ask

LEMMA BrainAsks ==
  ASSUME SInv, NEW s \in Sessions
  PROVE  /\ BrainHandle(s) => /\ lines # <<>> /\ Head(lines) = lines[1] /\ lines[1] \in Entry
                              /\ lines[1].seq \in StateLines =>
                                   /\ [t |-> "push", seq |-> lines[1].seq, epoch |-> lines[1].epoch] \in AskFrame
                                   /\ Ask(s, <<[t |-> "push", seq |-> lines[1].seq, epoch |-> lines[1].epoch]>>)
                              /\ lines[1].seq \notin StateLines => up' = up
         /\ BrainAck(s) => /\ [t |-> "ack", seq |-> cur.seq] \in AskFrame
                           /\ Ask(s, <<[t |-> "ack", seq |-> cur.seq]>>)
         /\ BrainDial(s) => [t |-> "dial"] \in AskFrame /\ Ask(s, <<[t |-> "dial"]>>)
         /\ BrainReconnect(s) => [t |-> "close"] \in AskFrame /\ Ask(s, <<[t |-> "close"]>>)
<1>0. KeeperInv /\ lines \in Seq(Entry) /\ (cur.pc # "idle" => cur.seq \in Seqs)
  BY DEF SInv, FrameTypes
<1>1. ASSUME BrainHandle(s)
      PROVE  /\ lines # <<>> /\ Head(lines) = lines[1] /\ lines[1] \in Entry
             /\ lines[1].seq \in StateLines =>
                  /\ [t |-> "push", seq |-> lines[1].seq, epoch |-> lines[1].epoch] \in AskFrame
                  /\ Ask(s, <<[t |-> "push", seq |-> lines[1].seq, epoch |-> lines[1].epoch]>>)
             /\ lines[1].seq \notin StateLines => up' = up
  <2>1. lines # <<>>
    BY <1>1 DEF BrainHandle
  <2>2. Head(lines) = lines[1] /\ lines[1] \in Entry
    BY <1>0, <2>1
  <2>3. lines[1].seq \in Seqs /\ lines[1].epoch \in Epochs
    BY <2>2 DEF Entry
  <2>4. [t |-> "push", seq |-> lines[1].seq, epoch |-> lines[1].epoch] \in AskFrame
    BY <1>0, <2>3, FrameKinds
  <2> QED
    BY <1>1, <2>1, <2>2, <2>4 DEF BrainHandle
<1>2. ASSUME BrainAck(s)
      PROVE  [t |-> "ack", seq |-> cur.seq] \in AskFrame /\ Ask(s, <<[t |-> "ack", seq |-> cur.seq]>>)
  BY <1>0, <1>2, FrameKinds DEF BrainAck
<1>3. ASSUME BrainDial(s) PROVE [t |-> "dial"] \in AskFrame /\ Ask(s, <<[t |-> "dial"]>>)
  BY <1>0, <1>3, FrameKinds DEF BrainDial
<1>4. ASSUME BrainReconnect(s) PROVE [t |-> "close"] \in AskFrame /\ Ask(s, <<[t |-> "close"]>>)
  BY <1>0, <1>4, FrameKinds DEF BrainReconnect
<1> QED
  BY <1>1, <1>2, <1>3, <1>4

\* The attaches come one after the other, and what is left of an old one is at
\* most one frame.  A brain that does not run holds no line.
Shape ==
  /\ \A s \in Sessions : s > brain.sess => sess[s].pc = "none"
  /\ \A s \in Sessions : sess[s].pc \in {"hello", "acked", "live"} => s = brain.sess
  /\ \A s \in Sessions : sess[s].pc \in {"none", "hello"} => up[s] = <<>> /\ wire[s] = <<>>
  /\ \A s \in Sessions : sess[s].pc = "closing" => Len(up[s]) <= 1
  /\ brain.pc \in {"down", "hello"} => lines = <<>> /\ cur.pc = "idle"
  /\ \A s \in Sessions : fan[s].ev.t # "line"
  /\ \A s \in Sessions : sess[s].pc \in {"none", "hello", "acked"} => fan[s].pc = "off"
  /\ \A s \in Sessions : sess[s].pc = "acked" => up[s] # <<>> /\ up[s][1].t = "ready"

\* Frames leave the keeper on the live attach only.
LEMMA SendLive ==
  ASSUME wire \in [Sessions -> Seq(SentFrame)], NEW s, NEW msgs, Send(s, msgs), NEW r \in Sessions
  PROVE  \/ wire'[r] = wire[r]
         \/ r = s /\ Live(s) /\ brain.sess = s /\ brain.pc # "down" /\ wire'[r] = wire[r] \o msgs
BY DEF Send

LEMMA ShapeStep ==
  ASSUME SInv, SessTypes, Shape, told \in [Sessions -> SUBSET Epochs], [SNext]_vars
  PROVE  Shape'
<1> USE DEF sessVars, brainVars
<1>0. /\ sess \in [Sessions -> SessState] /\ brain \in BrainState
      /\ up \in [Sessions -> Seq(AskFrame)] /\ wire \in [Sessions -> Seq(SentFrame)]
      /\ lines \in Seq(Entry) /\ cur \in InHand
      /\ \A s \in Sessions : s \in Nat
  BY DEF SessTypes, SInv, FrameTypes, Sessions
<1>1. \/ brain'.sess = brain.sess
      \/ \E s \in Sessions : AttachHello(s)
  <2>1. DOMAIN brain = {"pc", "sess", "connected", "epoch", "wantDial", "closing"}
    BY <1>0 DEF BrainState
  <2>2. ASSUME NEW s \in Sessions, BrainRecv(s) PROVE brain'.sess = brain.sess
    <3>1. \/ brain' = brain
          \/ \E n : brain' = [brain EXCEPT !.epoch = n]
          \/ \E b : brain' = [brain EXCEPT !.wantDial = b]
          \/ \E b : brain' = [brain EXCEPT !.closing = FALSE, !.wantDial = b]
      BY <2>2 DEF BrainRecv
    <3> QED
      BY <2>1, <3>1
  <2>3. ASSUME NEW s \in Sessions, BrainOwn(s), ~BrainRecv(s), ~AttachHello(s) PROVE brain'.sess = brain.sess
    BY <2>1, <2>3 DEF BrainOwn, AttachAck, BrainDetached, BrainHandle, BrainPushTimeout, BrainAck,
                      BrainDial, BrainReconnect
  <2>4. BrainCrash => brain'.sess = brain.sess
    BY DEF BrainCrash, Down
  <2> QED
    BY <2>2, <2>3, <2>4, BrainWho
\* The phases of the attaches.
<1>2. /\ \A s \in Sessions : s > brain'.sess => sess'[s].pc = "none"
      /\ \A s \in Sessions : sess'[s].pc \in {"hello", "acked", "live"} => s = brain'.sess
  <2>1. ASSUME NEW r \in Sessions, AttachHello(r)
        PROVE  /\ \A s \in Sessions : s > brain'.sess => sess'[s].pc = "none"
               /\ \A s \in Sessions : sess'[s].pc \in {"hello", "acked", "live"} => s = brain'.sess
    <3>1. /\ brain'.sess = r /\ r = brain.sess + 1 /\ brain.sess \in Nat
          /\ \A s \in Sessions : sess[s].pc \notin {"hello", "acked", "live"}
          /\ \A s \in Sessions : s # r => sess'[s] = sess[s]
      BY <1>0, <2>1 DEF AttachHello, BrainState
    <3>2. ASSUME NEW s \in Sessions, s > r PROVE sess'[s].pc = "none"
      <4>1. s > brain.sess /\ s # r
        BY <1>0, <3>1, <3>2
      <4> QED
        BY <3>1, <4>1 DEF Shape
    <3>3. ASSUME NEW s \in Sessions, s # r PROVE sess'[s].pc \notin {"hello", "acked", "live"}
      BY <3>1, <3>3
    <3> QED
      BY <3>1, <3>2, <3>3
  <2>2. ASSUME brain'.sess = brain.sess, NEW r \in Sessions, UpOwn(r), ~AttachHello(r), NEW s \in Sessions
        PROVE  \/ sess'[s].pc = sess[s].pc
               \/ sess[s].pc \in {"hello", "acked", "live"}
    BY <1>0, <2>2 DEF UpOwn, AttachAck, LiveReady, Teardown, HandleBlobPush, HandleSeqAck,
                      HandleDial, HandleClose, BrainHandle, BrainAck, BrainDial, BrainReconnect, SessState
  <2>3. ASSUME brain'.sess = brain.sess, NEW s \in Sessions
        PROVE  sess'[s].pc = sess[s].pc \/ sess[s].pc \in {"hello", "acked", "live"}
               \/ \E r \in Sessions : AttachHello(r)
    BY <2>2, <2>3, UpWho
  <2>4. brain.sess \in Nat
    BY <1>0 DEF BrainState
  <2> QED
    BY <1>0, <1>1, <2>1, <2>3, <2>4 DEF Shape
\* The frames to the keeper.
<1>3. ASSUME NEW s \in Sessions
      PROVE  /\ sess'[s].pc \in {"none", "hello"} => up'[s] = <<>>
             /\ sess'[s].pc = "closing" => Len(up'[s]) <= 1
  <2>0. /\ sess[s].pc \in {"none", "hello"} => up[s] = <<>>
        /\ sess[s].pc = "closing" => Len(up[s]) <= 1
        /\ up[s] \in Seq(AskFrame) /\ sess[s] \in SessState
    BY <1>0 DEF Shape
  <2>1. CASE up'[s] = up[s] /\ sess'[s].pc = sess[s].pc
    BY <2>0, <2>1
  <2>2. ASSUME NEW r \in Sessions, UpOwn(r), r # s PROVE up'[s] = up[s] /\ sess'[s].pc = sess[s].pc
    BY <1>0, <2>2 DEF UpOwn, AttachHello, AttachAck, LiveReady, Teardown, HandleBlobPush, HandleSeqAck,
                      HandleDial, HandleClose, BrainHandle, BrainAck, BrainDial, BrainReconnect, Request, Ask
  <2>3. CASE AttachHello(s)
    <3>1. s > brain.sess
      BY <1>0, <2>3 DEF AttachHello, BrainState
    <3>2. sess[s].pc = "none"
      BY <3>1 DEF Shape
    <3>3. sess'[s].pc = "hello" /\ up'[s] = up[s]
      BY <1>0, <2>3 DEF AttachHello
    <3> QED
      BY <2>0, <3>2, <3>3
  <2>4. CASE AttachAck(s) \/ LiveReady(s)
    BY <1>0, <2>0, <2>4 DEF AttachAck, LiveReady, SessState
  <2>5. CASE Teardown(s)
    <3>1. sess'[s].pc = "closing"
      BY <1>0, <2>0, <2>5 DEF Teardown, SessState
    <3>2. up'[s] = <<>> \/ up'[s] = <<Head(up[s])>>
      BY <1>0, <2>5 DEF Teardown
    <3>3. Len(<<>>) <= 1 /\ \A m : Len(<<m>>) <= 1
      OBVIOUS
    <3>4. Len(up'[s]) <= 1
      BY <3>2, <3>3
    <3> QED
      BY <3>1, <3>4
  <2>6. CASE HandleBlobPush(s) \/ HandleSeqAck(s) \/ HandleDial(s) \/ HandleClose(s)
    <3>1. /\ sess'[s].pc = sess[s].pc /\ sess[s].pc \in {"live", "closing"}
          /\ up[s] # <<>> /\ up'[s] = Tail(up[s])
      BY <1>0, <2>6 DEF HandleBlobPush, HandleSeqAck, HandleDial, HandleClose, Request
    <3>2. Len(up'[s]) = Len(up[s]) - 1 /\ Len(up[s]) \in Nat
      BY <2>0, <3>1
    <3> QED
      BY <2>0, <3>1, <3>2
  <2>7. CASE BrainHandle(s) \/ BrainAck(s) \/ BrainDial(s) \/ BrainReconnect(s)
    <3>1. sess' = sess
      BY <2>7 DEF BrainHandle, BrainAck, BrainDial, BrainReconnect
    <3>2. sess[s].pc \notin {"acked", "live"} => up'[s] = up[s]
      BY <1>0, <2>7 DEF BrainHandle, BrainAck, BrainDial, BrainReconnect, Ask
    <3> QED
      BY <2>0, <3>1, <3>2
  <2> QED
    BY <2>1, <2>2, <2>3, <2>4, <2>5, <2>6, <2>7, UpWho DEF UpOwn
\* The frames to the brain.
<1>4. ASSUME NEW s \in Sessions, sess'[s].pc \in {"none", "hello"} PROVE wire'[s] = <<>>
  <2>1. sess[s].pc \in {"none", "hello"}
    <3>1. ASSUME NEW r \in Sessions, UpOwn(r) PROVE sess[s].pc \in {"none", "hello"}
      <4>1. CASE AttachHello(r) /\ r = s
        <5>1. s > brain.sess
          BY <1>0, <4>1 DEF AttachHello, BrainState
        <5> QED
          BY <5>1 DEF Shape
      <4>2. CASE AttachHello(r) /\ r # s
        BY <1>0, <1>4, <4>2 DEF AttachHello
      <4>3. CASE AttachAck(r)
        BY <1>0, <1>4, <4>3 DEF AttachAck, SessState
      <4>4. CASE LiveReady(r)
        BY <1>0, <1>4, <4>4 DEF LiveReady, SessState
      <4>5. CASE Teardown(r)
        BY <1>0, <1>4, <4>5 DEF Teardown, SessState
      <4> QED
        BY <1>4, <3>1, <4>1, <4>2, <4>3, <4>4, <4>5
           DEF UpOwn, HandleBlobPush, HandleSeqAck,
               HandleDial, HandleClose, BrainHandle, BrainAck, BrainDial, BrainReconnect
    <3> QED
      BY <1>4, <3>1, UpWho
  <2>2. wire[s] = <<>> /\ ~Live(s)
    BY <2>1 DEF Shape, Live
  <2>3. ASSUME NEW r, NEW m, Send(r, m) PROVE wire'[s] = wire[s]
    BY <1>0, <2>2, <2>3, SendLive
  <2>4. ASSUME NEW r \in Sessions, FanCatchUp(r) \/ FanLine(r) \/ FanDrain(r) \/ FanForward(r) PROVE wire'[s] = wire[s]
    <3>1. wire' = wire \/ \E q, m : Send(q, m)
      BY <2>4 DEF FanCatchUp, FanLine, FanDrain, FanTake, FanForward
    <3> QED
      BY <2>3, <3>1
  <2>5. ASSUME NEW r \in Sessions, BrainRecv(r) PROVE wire'[s] = wire[s]
    <3>1. r # s
      BY <2>2, <2>5 DEF BrainRecv
    <3> QED
      BY <1>0, <2>5, <3>1 DEF BrainRecv
  <2>6. BrainCrash => wire'[s] = <<>>
    BY <1>0, <2>2 DEF BrainCrash
  <2> QED
    BY <2>2, <2>3, <2>4, <2>5, <2>6, WireWho
\* The brain.
<1>5. ASSUME brain'.pc \in {"down", "hello"} PROVE lines' = <<>> /\ cur'.pc = "idle"
  <2>1. BrainCrash => lines' = <<>> /\ cur'.pc = "idle"
    BY DEF BrainCrash, NoLine
  <2>2. ASSUME NEW s \in Sessions, BrainOwn(s) PROVE lines' = <<>> /\ cur'.pc = "idle"
    <3>1. CASE AttachHello(s)
      BY <3>1 DEF AttachHello, Shape
    <3>2. CASE AttachAck(s) \/ BrainDetached(s)
      BY <1>0, <1>5, <3>2 DEF AttachAck, BrainDetached, BrainState
    <3>3. CASE BrainRecv(s)
      <4>1. \/ brain' = brain
            \/ \E n : brain' = [brain EXCEPT !.epoch = n]
            \/ \E b : brain' = [brain EXCEPT !.wantDial = b]
            \/ \E b : brain' = [brain EXCEPT !.closing = FALSE, !.wantDial = b]
        BY <3>3 DEF BrainRecv
      <4> QED
        BY <1>0, <1>5, <3>3, <4>1 DEF BrainRecv, Running, BrainState
    <3>4. CASE BrainHandle(s) \/ BrainPushTimeout(s) \/ BrainAck(s) \/ BrainDial(s) \/ BrainReconnect(s)
      BY <1>0, <1>5, <3>4 DEF BrainHandle, BrainPushTimeout, BrainAck, BrainDial, BrainReconnect, Running, BrainState
    <3> QED
      BY <2>2, <3>1, <3>2, <3>3, <3>4 DEF BrainOwn
  <2> QED
    BY <1>5, <2>1, <2>2, BrainWho DEF Shape
<1>6. ASSUME NEW s \in Sessions PROVE fan'[s].ev.t # "line"
  <2>1. CASE fan'[s].ev = fan[s].ev \/ fan'[s].ev = NoEvent
    BY <2>1 DEF Shape, NoEvent
  <2>2. CASE FanEvent(s) /\ fan'[s].ev = EventMsg(Head(evSub[<<s, 0>>].q))
    <3>1. evSub[<<s, 0>>].q \in Seq(Event) /\ evSub[<<s, 0>>].q # <<>>
      BY <2>2, LiveSessionAssumption DEF FanEvent, RecvEvent, EvState, SInv, KeeperInv, TypeOK
    <3>2. Head(evSub[<<s, 0>>].q) \in Event
      BY <3>1
    <3> QED
      BY <2>2, <3>2 DEF EventMsg, Event
  <2> QED
    BY <2>1, <2>2, ToldChange
\* The fan-ins.
<1>7. ASSUME NEW s \in Sessions, sess'[s].pc \in {"none", "hello", "acked"} PROVE fan'[s].pc = "off"
  <2>1. sess[s].pc \in {"none", "hello", "acked"}
    <3>1. ASSUME NEW r \in Sessions, UpOwn(r) PROVE sess[s].pc \in {"none", "hello", "acked"}
      <4>1. CASE AttachHello(r) /\ r = s
        <5>1. s > brain.sess
          BY <1>0, <4>1 DEF AttachHello, BrainState
        <5> QED
          BY <5>1 DEF Shape
      <4>2. CASE AttachHello(r) /\ r # s
        BY <1>0, <1>7, <4>2 DEF AttachHello
      <4>3. CASE AttachAck(r)
        BY <1>0, <1>7, <4>3 DEF AttachAck, SessState
      <4>4. CASE LiveReady(r)
        BY <1>0, <1>7, <4>4 DEF LiveReady, SessState
      <4>5. CASE Teardown(r)
        BY <1>0, <1>7, <4>5 DEF Teardown, SessState
      <4> QED
        BY <1>7, <3>1, <4>1, <4>2, <4>3, <4>4, <4>5
           DEF UpOwn, HandleBlobPush, HandleSeqAck,
               HandleDial, HandleClose, BrainHandle, BrainAck, BrainDial, BrainReconnect
    <3> QED
      BY <1>7, <3>1, UpWho
  <2>2. fan[s].pc = "off" /\ ~Live(s)
    BY <2>1 DEF Shape, Live
  <2>3. ~FanStep(s)
    BY <2>2 DEF FanStep, FanSubscribe, FanSubscribeLines, FanCatchUp, FanLine, FanDrain, FanOverflow,
                FanSwap, FanEvent, FanForward, FanEnd, FanAt
  <2> QED
    BY <1>7, <2>2, <2>3, FanWho
<1>8. ASSUME NEW s \in Sessions, sess'[s].pc = "acked" PROVE up'[s] # <<>> /\ up'[s][1].t = "ready"
  <2>0. up[s] \in Seq(AskFrame) /\ (sess[s].pc = "acked" => up[s] # <<>> /\ up[s][1].t = "ready")
    BY <1>0 DEF Shape
  <2>1. CASE up'[s] = up[s] /\ sess'[s].pc = sess[s].pc
    BY <1>8, <2>0, <2>1
  <2>2. ASSUME NEW r \in Sessions, UpOwn(r), r # s PROVE up'[s] = up[s] /\ sess'[s].pc = sess[s].pc
    BY <1>0, <2>2 DEF UpOwn, AttachHello, AttachAck, LiveReady, Teardown, HandleBlobPush, HandleSeqAck,
                      HandleDial, HandleClose, BrainHandle, BrainAck, BrainDial, BrainReconnect, Request, Ask
  <2>3. CASE AttachAck(s)
    <3>1. up'[s] = <<[t |-> "ready"]>>
      BY <1>0, <2>3 DEF AttachAck
    <3> QED
      BY <3>1
  <2>4. CASE AttachHello(s) \/ LiveReady(s) \/ Teardown(s)
    BY <1>0, <1>8, <2>4 DEF AttachHello, LiveReady, Teardown, SessState
  <2>5. CASE HandleBlobPush(s) \/ HandleSeqAck(s) \/ HandleDial(s) \/ HandleClose(s)
    BY <1>0, <1>8, <2>5 DEF HandleBlobPush, HandleSeqAck, HandleDial, HandleClose, Request
  <2>6. CASE BrainHandle(s) \/ BrainAck(s) \/ BrainDial(s) \/ BrainReconnect(s)
    <3>1. sess' = sess
      BY <2>6 DEF BrainHandle, BrainAck, BrainDial, BrainReconnect
    <3>2. up'[s] = up[s] \/ \E m \in AskFrame : up'[s] = Append(up[s], m)
      BY <1>0, <2>6, BrainAsks, AskOne
    <3> QED
      BY <1>8, <2>0, <3>1, <3>2, JoinOne
  <2> QED
    BY <2>1, <2>2, <2>3, <2>4, <2>5, <2>6, UpWho DEF UpOwn
<1> QED
  BY <1>2, <1>3, <1>4, <1>5, <1>6, <1>7, <1>8 DEF Shape

\* What becomes of the frames to the keeper.
LEMMA UpChange ==
  ASSUME SInv, SessTypes, Shape, [SNext]_vars, NEW s \in Sessions
  PROVE  \/ up'[s] = up[s]
         \/ AttachAck(s) /\ up[s] = <<>> /\ up'[s] = <<[t |-> "ready"]>>
         \/ /\ up[s] # <<>> /\ up'[s] = Tail(up[s])
            /\ \/ up[s][1].t \notin {"push", "ack"} /\ ~AttachAck(s)
               \/ HandleBlobPush(s) /\ up[s][1].t = "push"
               \/ HandleSeqAck(s) /\ up[s][1].t = "ack"
         \/ Teardown(s) /\ sess'[s].pc = "closing" /\ up'[s] = <<>>
         \/ Teardown(s) /\ sess'[s].pc = "closing" /\ up[s] # <<>> /\ up'[s] = <<up[s][1]>>
         \/ /\ sess[s].pc \in {"acked", "live"}
            /\ \/ /\ BrainDial(s) \/ BrainReconnect(s)
                  /\ \E m \in AskFrame : m.t \in {"dial", "close"} /\ up'[s] = Append(up[s], m)
               \/ BrainHandle(s) /\ lines[1].seq \in StateLines
                  /\ up'[s] = Append(up[s], [t |-> "push", seq |-> lines[1].seq, epoch |-> lines[1].epoch])
               \/ BrainAck(s) /\ up'[s] = Append(up[s], [t |-> "ack", seq |-> cur.seq])
<1> USE DEF sessVars, brainVars
<1>0. /\ sess \in [Sessions -> SessState] /\ up \in [Sessions -> Seq(AskFrame)]
  BY DEF SessTypes, SInv, FrameTypes
<1>1. up[s] \in Seq(AskFrame) /\ (up[s] # <<>> => Head(up[s]) = up[s][1])
  BY <1>0
<1>2. ASSUME NEW r \in Sessions, UpOwn(r), r # s PROVE up'[s] = up[s]
  BY <1>0, <1>2 DEF UpOwn, AttachHello, AttachAck, LiveReady, Teardown, HandleBlobPush, HandleSeqAck,
                    HandleDial, HandleClose, BrainHandle, BrainAck, BrainDial, BrainReconnect, Request, Ask
<1>3. CASE AttachHello(s)
  BY <1>3 DEF AttachHello
<1>4. CASE AttachAck(s)
  BY <1>0, <1>4 DEF AttachAck, Shape
<1>5. CASE LiveReady(s)
  <2>1. up[s] # <<>> /\ up[s][1].t = "ready" /\ up'[s] = Tail(up[s]) /\ ~AttachAck(s)
    BY <1>0, <1>5 DEF LiveReady, AttachAck, Shape
  <2> QED
    BY <2>1
<1>6. CASE Teardown(s)
  BY <1>0, <1>1, <1>6 DEF Teardown, SessState
<1>7. CASE HandleBlobPush(s) \/ HandleSeqAck(s) \/ HandleDial(s) \/ HandleClose(s)
  <2>1. up[s] # <<>> /\ up'[s] = Tail(up[s]) /\ ~AttachAck(s)
        /\ \/ HandleBlobPush(s) /\ up[s][1].t = "push"
           \/ HandleSeqAck(s) /\ up[s][1].t = "ack"
           \/ up[s][1].t \in {"dial", "close"}
    BY <1>0, <1>1, <1>7 DEF HandleBlobPush, HandleSeqAck, HandleDial, HandleClose, Request, AttachAck
  <2> QED
    BY <2>1
<1>8. CASE BrainHandle(s)
  BY <1>0, <1>8, BrainAsks, AskOne
<1>9. CASE BrainAck(s)
  BY <1>0, <1>9, BrainAsks, AskOne
<1>10. CASE BrainDial(s)
  BY <1>0, <1>10, BrainAsks, AskOne
<1>11. CASE BrainReconnect(s)
  BY <1>0, <1>11, BrainAsks, AskOne
<1> QED
  BY <1>2, <1>3, <1>4, <1>5, <1>6, <1>7, <1>8, <1>9, <1>10, <1>11, UpWho DEF UpOwn

\* Every line and frame that names a line is known to the keeper.
KnownFrames ==
  /\ \A x \in blob \cup know : Known(x)
  /\ \A i \in 1 .. Len(lines) : Known(lines[i])
  /\ \A s \in Sessions : \A i \in 1 .. Len(wire[s]) : wire[s][i].t = "line" => Known(wire[s][i])
  /\ \A s \in Sessions : \A i \in 1 .. Len(up[s]) :
       /\ up[s][i].t = "push" => Known(up[s][i])
       /\ up[s][i].t = "ack" => up[s][i].seq <= seqCounter
  /\ cur.pc # "idle" => Known(cur)
  /\ deliveredSeq <= seqCounter
  /\ \A s \in Sessions : fan[s].lastSent <= seqCounter

\* What becomes of the frames to the brain.
LEMMA WireChange ==
  ASSUME SInv, Shape, [SNext]_vars, NEW s \in Sessions
  PROVE  \/ wire'[s] = wire[s]
         \/ BrainRecv(s) /\ wire[s] # <<>> /\ Head(wire[s]) = wire[s][1] /\ wire'[s] = Tail(wire[s])
         \/ BrainCrash /\ wire'[s] = <<>>
         \/ UNCHANGED brainVars /\ \E m \in SentFrame : m.t # "line" /\ wire'[s] = Append(wire[s], m)
         \/ FanCatchUp(s) /\ wire'[s] = wire[s] \o LineMsgs(Since(ring, fan[s].lastSent))
         \/ (FanLine(s) \/ FanDrain(s)) /\ wire'[s] = Append(wire[s], LineMsg(Head(lineSub[Sub(s)].q)))
<1> USE DEF sessVars, brainVars
<1>0. /\ wire \in [Sessions -> Seq(SentFrame)] /\ KeeperInv
      /\ \A r \in Sessions : fan[r].pc = "drain" => fan[r].ev \in SentFrame
  BY DEF SInv, FrameTypes, FanTypes
<1>1. ASSUME NEW r, NEW m \in SentFrame, Send(r, <<m>>)
      PROVE  wire'[s] = wire[s] \/ (r = s /\ wire'[s] = Append(wire[s], m))
  <2>1. wire[s] \in Seq(SentFrame)
    BY <1>0
  <2>2. wire[s] \o <<m>> = Append(wire[s], m)
    BY <2>1, JoinOne
  <2>3. wire'[s] = wire[s] \/ (r = s /\ wire'[s] = wire[s] \o <<m>>)
    BY <1>0, <1>1, SendLive, SMTT(30)
  <2> QED
    BY <2>2, <2>3
<1>2. ASSUME NEW r \in Sessions, FanCatchUp(r)
      PROVE  wire'[s] = wire[s] \/ (r = s /\ wire'[s] = wire[s] \o LineMsgs(Since(ring, fan[s].lastSent)))
  <2>1. wire' = wire \/ Send(r, LineMsgs(Since(ring, fan[r].lastSent)))
    BY <1>2 DEF FanCatchUp
  <2> QED
    BY <1>0, <2>1, SendLive
<1>3. ASSUME NEW r \in Sessions, FanLine(r) \/ FanDrain(r)
      PROVE  wire'[s] = wire[s] \/ (r = s /\ wire'[s] = Append(wire[s], LineMsg(Head(lineSub[Sub(s)].q))))
  <2>1. /\ lineSub[Sub(r)].q # <<>>
        /\ wire' = wire \/ Send(r, <<LineMsg(Head(lineSub[Sub(r)].q))>>)
    BY <1>3 DEF FanLine, FanDrain, FanTake, RecvLine
  <2>2. lineSub[Sub(r)].q \in Seq(Entry)
    <3>1. PICK k \in {0, 1} : Sub(r) = <<r, k>>
      BY FanFacts
    <3> QED
      BY <3>1, FanFacts
  <2>3. Head(lineSub[Sub(r)].q) \in Entry
    BY <2>1, <2>2
  <2>4. LineMsg(Head(lineSub[Sub(r)].q)) \in SentFrame
    BY <1>0, <2>3, FrameKinds
  <2> QED
    BY <1>1, <2>1, <2>4
<1>4. ASSUME NEW r \in Sessions, FanForward(r)
      PROVE  wire'[s] = wire[s]
             \/ (UNCHANGED brainVars /\ \E m \in SentFrame : m.t # "line" /\ wire'[s] = Append(wire[s], m))
  <2>1. fan[r].ev \in SentFrame /\ fan[r].ev.t # "line" /\ Send(r, <<fan[r].ev>>) /\ UNCHANGED brainVars
    BY <1>0, <1>4 DEF FanForward, FanAt, Shape
  <2>2. wire'[s] = wire[s] \/ wire'[s] = Append(wire[s], fan[r].ev)
    BY <1>1, <2>1
  <2>3. ASSUME wire'[s] = Append(wire[s], fan[r].ev)
        PROVE  \E m \in SentFrame : m.t # "line" /\ wire'[s] = Append(wire[s], m)
    BY <2>1, <2>3
  <2> QED
    BY <2>1, <2>2, <2>3
<1>5. ASSUME NEW r \in Sessions, BrainRecv(r)
      PROVE  wire'[s] = wire[s] \/ (r = s /\ wire[s] # <<>> /\ Head(wire[s]) = wire[s][1] /\ wire'[s] = Tail(wire[s]))
  BY <1>0, <1>5 DEF BrainRecv
<1>6. BrainCrash => wire'[s] \in {wire[s], <<>>}
  BY <1>0 DEF BrainCrash
<1> QED
  BY <1>1, <1>2, <1>3, <1>4, <1>5, <1>6, WireWho

\* What becomes of the lines in the brain.
LEMMA LinesChange ==
  ASSUME SInv, [SNext]_vars
  PROVE  \/ lines' = lines
         \/ \E s \in Sessions : /\ BrainRecv(s) /\ wire[s] # <<>> /\ wire[s][1].t = "line"
                                /\ Item(wire[s][1]) \in Entry
                                /\ lines' = Append(lines, Item(wire[s][1]))
         \/ \E s \in Sessions : BrainHandle(s) /\ lines # <<>> /\ lines' = Tail(lines)
         \/ BrainCrash /\ lines' = <<>>
<1> USE DEF brainVars
<1>0. wire \in [Sessions -> Seq(SentFrame)]
  BY DEF SInv, FrameTypes
<1>1. ASSUME NEW s \in Sessions, BrainRecv(s)
      PROVE  lines' = lines \/ (/\ wire[s] # <<>> /\ wire[s][1].t = "line" /\ Item(wire[s][1]) \in Entry
                                /\ lines' = Append(lines, Item(wire[s][1])))
  <2>1. wire[s] # <<>> /\ Head(wire[s]) = wire[s][1] /\ wire[s][1] \in SentFrame
    BY <1>0, <1>1 DEF BrainRecv
  <2>2. wire[s][1].t = "line" => Item(wire[s][1]) \in Entry
    BY <2>1 DEF SentFrame, Item, Entry
  <2>3. lines' = lines \/ (wire[s][1].t = "line" /\ lines' = Append(lines, Item(wire[s][1])))
    BY <1>1, <2>1 DEF BrainRecv, Item
  <2> QED
    BY <2>1, <2>2, <2>3
<1>2. ASSUME NEW s \in Sessions, BrainOwn(s), ~BrainRecv(s), ~BrainHandle(s) PROVE lines' = lines
  BY <1>2 DEF BrainOwn, AttachHello, AttachAck, BrainDetached, BrainPushTimeout, BrainAck, BrainDial, BrainReconnect
<1>3. ASSUME NEW s \in Sessions, BrainHandle(s) PROVE lines # <<>> /\ lines' = Tail(lines)
  BY <1>3 DEF BrainHandle
<1>4. BrainCrash => lines' = <<>>
  BY DEF BrainCrash
<1> QED
  BY <1>1, <1>2, <1>3, <1>4, BrainWho

\* What becomes of what the brain knows and of the line it is processing.
LEMMA KnowChange ==
  ASSUME SInv, [SNext]_vars
  PROVE  /\ \/ know' = know
            \/ \E s \in Sessions : AttachAck(s) /\ know' = IF brain.connected THEN blob ELSE {}
            \/ \E s \in Sessions : /\ BrainHandle(s) /\ lines # <<>> /\ lines[1] \in Entry
                                   /\ know' = know \cup {lines[1]}
            \/ BrainCrash /\ know' = {}
         /\ \/ cur' = cur
            \/ cur'.pc = "idle"
            \/ cur.pc # "idle" /\ cur'.seq = cur.seq /\ cur'.epoch = cur.epoch
            \/ \E s \in Sessions : /\ BrainHandle(s) /\ lines # <<>> /\ lines[1] \in Entry
                                   /\ cur'.seq = lines[1].seq /\ cur'.epoch = lines[1].epoch
<1> USE DEF brainVars
<1>0. cur \in InHand
  BY DEF SInv, FrameTypes
<1>1. ASSUME NEW s \in Sessions, BrainHandle(s)
      PROVE  /\ lines # <<>> /\ lines[1] \in Entry /\ know' = know \cup {lines[1]}
             /\ cur'.seq = lines[1].seq /\ cur'.epoch = lines[1].epoch
  BY <1>1, BrainAsks DEF BrainHandle
<1>2. ASSUME NEW s \in Sessions, AttachAck(s)
      PROVE  cur' = cur /\ know' = IF brain.connected THEN blob ELSE {}
  BY <1>2 DEF AttachAck
<1>3. ASSUME NEW s \in Sessions, BrainRecv(s) \/ BrainPushTimeout(s)
      PROVE  know' = know /\ (cur' = cur \/ (cur.pc # "idle" /\ cur'.seq = cur.seq /\ cur'.epoch = cur.epoch))
  BY <1>0, <1>3 DEF BrainRecv, BrainPushTimeout, InHand
<1>4. ASSUME NEW s \in Sessions, BrainAck(s) PROVE know' = know /\ cur'.pc = "idle"
  BY <1>4 DEF BrainAck, NoLine
<1>5. ASSUME NEW s \in Sessions, AttachHello(s) \/ BrainDetached(s) \/ BrainDial(s) \/ BrainReconnect(s)
      PROVE  know' = know /\ cur' = cur
  BY <1>5 DEF AttachHello, BrainDetached, BrainDial, BrainReconnect
<1>6. BrainCrash => know' = {} /\ cur'.pc = "idle"
  BY DEF BrainCrash, NoLine
<1> QED
  BY <1>1, <1>2, <1>3, <1>4, <1>5, <1>6, BrainWho DEF BrainOwn

\* What a fan-in catches up on is in the ring, and what it takes is in its feed.
LEMMA SinceRing ==
  ASSUME SInv, NEW s \in Sessions
  PROVE  LET b == Since(ring, fan[s].lastSent)
         IN  b \in Seq(Entry) /\ \A j \in 1 .. Len(b) : \E i \in DOMAIN ring : b[j] = ring[i]
<1>1. ring \in Seq(Entry) /\ EndsAt(ring, Pushed) /\ Pushed \in Nat /\ fan[s].lastSent \in Nat
  BY FanFacts DEF SInv, StreamInv, RingAtHead, KeeperInv, TypeOK
<1> QED
  BY <1>1, SinceIsRest

LEMMA FeedHead ==
  ASSUME SInv, KeeperLinesKnown, NEW s \in Sessions, lineSub[Sub(s)].q # <<>>
  PROVE  Head(lineSub[Sub(s)].q) \in Entry /\ Known(Head(lineSub[Sub(s)].q))
<1>1. Sub(s) \in Subs /\ lineSub[Sub(s)].q \in Seq(Entry)
  <2>1. PICK k \in {0, 1} : Sub(s) = <<s, k>>
    BY FanFacts
  <2> QED
    BY <2>1, FanFacts
<1>2. Head(lineSub[Sub(s)].q) = lineSub[Sub(s)].q[1] /\ 1 \in DOMAIN lineSub[Sub(s)].q /\ lineSub[Sub(s)].q[1] \in Entry
  BY <1>1
<1>3. Known(lineSub[Sub(s)].q[1])
  BY <1>1, <1>2 DEF KeeperLinesKnown
<1> QED
  BY <1>2, <1>3

LEMMA KnownFramesStep ==
  ASSUME SInv, SessTypes, Shape, KeeperLinesKnown, KnownFrames, [SNext]_vars
  PROVE  KnownFrames'
<1>0. /\ blob \subseteq Entry /\ know \subseteq Entry /\ lines \in Seq(Entry) /\ cur \in InHand
      /\ wire \in [Sessions -> Seq(SentFrame)] /\ up \in [Sessions -> Seq(AskFrame)]
      /\ cur.pc # "idle" => cur.seq \in Seqs
      /\ seqCounter \in Nat /\ seqCounter <= seqCounter' /\ seqCounter' \in Nat /\ deliveredSeq \in Nat
      /\ ring \in Seq(Entry) /\ fan \in [Sessions -> FanState]
  BY LoopSteps, KeeperAssumption DEF SInv, SessTypes, FrameTypes, FanTypes, KeeperInv, TypeOK
<1>1. \A x : x.seq \in Seqs /\ Known(x) => x.seq <= seqCounter' /\ lineEpoch'[x.seq] = x.epoch
  <2>1. ASSUME NEW x, x.seq \in Seqs, Known(x) PROVE x.seq <= seqCounter' /\ lineEpoch'[x.seq] = x.epoch
    BY <2>1, KnownKept DEF Known
  <2> QED
    BY <2>1
<1>2. \A x \in Entry : x.seq \in Seqs
  BY DEF Entry
<1>3. \A m \in SentFrame : m.t = "line" => m.seq \in Seqs
  BY DEF SentFrame
<1>4. \A m \in AskFrame : m.t = "push" => m.seq \in Seqs
  BY DEF AskFrame
<1>5. \A s \in Sessions : \A i \in 1 .. Len(wire[s]) : wire[s][i] \in SentFrame
  BY <1>0
<1>6. \A s \in Sessions : \A i \in 1 .. Len(up[s]) :
         up[s][i] \in AskFrame /\ (up[s][i].t = "ack" => up[s][i].seq \in Nat)
  <2>1. \A s \in Sessions : \A i \in 1 .. Len(up[s]) : up[s][i] \in AskFrame
    BY <1>0
  <2>2. \A m \in AskFrame : m.t = "ack" => m.seq \in Nat
    BY KeeperAssumption DEF AskFrame
  <2> QED
    BY <2>1, <2>2
<1>7. \A i \in 1 .. Len(lines) : lines[i] \in Entry /\ Known(lines[i])
  BY <1>0 DEF KnownFrames
\* What the blob and the brain's state record.
<1>8. ASSUME NEW x \in blob' \cup know' PROVE Known(x)'
  <2>1. CASE x \in blob \cup know \/ \E i \in 1 .. Len(lines) : x = lines[i]
    <3>1. x \in Entry /\ Known(x)
      BY <1>0, <1>7, <2>1 DEF KnownFrames
    <3> QED
      BY <1>1, <1>2, <3>1 DEF Known
  <2>2. ASSUME NEW s \in Sessions, HandleBlobPush(s), x \in blob', x \notin blob PROVE Known(x)'
    <3>1. /\ up[s] # <<>> /\ Head(up[s]) = up[s][1] /\ 1 \in 1 .. Len(up[s])
          /\ Head(up[s]).t = "push"
          /\ x = [seq |-> Head(up[s]).seq, epoch |-> Head(up[s]).epoch]
      BY <1>0, <2>2 DEF HandleBlobPush, Request, PushBlob
    <3>2. Known(up[s][1]) /\ up[s][1].seq \in Seqs
      BY <1>4, <1>6, <3>1 DEF KnownFrames
    <3>3. PICK m : m = up[s][1]
      OBVIOUS
    <3>4. m.seq <= seqCounter' /\ lineEpoch'[m.seq] = m.epoch
      BY <1>1, <3>2, <3>3
    <3> QED
      BY <3>1, <3>3, <3>4 DEF Known
  <2>3. x \in blob' => x \in blob \/ Known(x)'
    <3>1. \/ blob' = blob \/ blob' = {}
          \/ \E s \in Sessions : HandleBlobPush(s)
      BY KeeperWho
    <3> QED
      BY <2>2, <3>1
  <2>4. x \in know' => x \in know \/ x \in blob \/ x \in {} \/ \E i \in 1 .. Len(lines) : x = lines[i]
    <3>1. lines # <<>> => 1 \in 1 .. Len(lines)
      BY <1>0
    <3> QED
      BY <3>1, KnowChange
  <2> QED
    BY <1>8, <2>1, <2>3, <2>4
\* The lines in the brain.
<1>9. ASSUME NEW i \in 1 .. Len(lines') PROVE Known(lines[i])'
  <2>1. CASE \E j \in 1 .. Len(lines) : lines'[i] = lines[j]
    BY <1>1, <1>2, <1>7, <2>1 DEF Known
  <2>2. ASSUME NEW s \in Sessions, wire[s] # <<>>, wire[s][1].t = "line", lines'[i] = Item(wire[s][1])
        PROVE  Known(lines[i])'
    <3>1. 1 \in 1 .. Len(wire[s])
      BY <1>0, <2>2
    <3>2. Known(wire[s][1]) /\ wire[s][1].seq \in Seqs
      BY <1>3, <1>5, <2>2, <3>1 DEF KnownFrames
    <3>3. PICK m : m = wire[s][1]
      OBVIOUS
    <3>4. m.seq <= seqCounter' /\ lineEpoch'[m.seq] = m.epoch
      BY <1>1, <3>2, <3>3
    <3> QED
      BY <2>2, <3>3, <3>4 DEF Known, Item
  <2>3. ASSUME NEW y \in Entry, lines' = Append(lines, y)
        PROVE  lines'[i] = y \/ \E j \in 1 .. Len(lines) : lines'[i] = lines[j]
    BY <1>0, <2>3
  <2>4. ASSUME lines # <<>>, lines' = Tail(lines)
        PROVE  \E j \in 1 .. Len(lines) : lines'[i] = lines[j]
    <3>1. i + 1 \in 1 .. Len(lines) /\ lines'[i] = lines[i + 1]
      BY <1>0, <2>4
    <3> QED
      BY <3>1
  <2>5. lines' # <<>>
    OBVIOUS
  <2>6. CASE lines' = lines
    BY <2>1, <2>6
  <2>7. ASSUME NEW s \in Sessions, wire[s] # <<>>, wire[s][1].t = "line", Item(wire[s][1]) \in Entry,
               lines' = Append(lines, Item(wire[s][1]))
        PROVE  Known(lines[i])'
    BY <2>1, <2>2, <2>3, <2>7
  <2>8. CASE lines # <<>> /\ lines' = Tail(lines)
    BY <2>1, <2>4, <2>8
  <2> QED
    BY <2>5, <2>6, <2>7, <2>8, LinesChange

\* The frames to the brain.
<1>10. ASSUME NEW s \in Sessions, NEW i \in 1 .. Len(wire'[s]), wire'[s][i].t = "line"
       PROVE  Known(wire[s][i])'
  <2>0. wire[s] \in Seq(SentFrame) /\ Len(wire[s]) \in Nat
    BY <1>0
  <2>1. CASE \E j \in 1 .. Len(wire[s]) : wire'[s][i] = wire[s][j]
    <3>1. PICK j \in 1 .. Len(wire[s]) : wire'[s][i] = wire[s][j]
      BY <2>1
    <3>2. Known(wire[s][j]) /\ wire[s][j].seq \in Seqs
      BY <1>3, <1>5, <1>10, <3>1 DEF KnownFrames
    <3>3. PICK m : m = wire[s][j]
      OBVIOUS
    <3>4. m.seq <= seqCounter' /\ lineEpoch'[m.seq] = m.epoch
      BY <1>1, <3>2, <3>3
    <3> QED
      BY <3>1, <3>3, <3>4 DEF Known
  <2>2. ASSUME NEW y \in Entry, Known(y), wire'[s][i] = LineMsg(y) PROVE Known(wire[s][i])'
    <3>1. y.seq <= seqCounter' /\ lineEpoch'[y.seq] = y.epoch
      BY <1>1, <1>2, <2>2
    <3> QED
      BY <2>2, <3>1 DEF Known, LineMsg
  <2>3. CASE wire'[s] = wire[s]
    BY <2>1, <2>3
  <2>4. CASE wire[s] # <<>> /\ wire'[s] = Tail(wire[s])
    <3>1. i + 1 \in 1 .. Len(wire[s]) /\ wire'[s][i] = wire[s][i + 1]
      BY <2>0, <2>4
    <3> QED
      BY <2>1, <3>1
  <2>5. ASSUME NEW m \in SentFrame, wire'[s] = Append(wire[s], m)
        PROVE  wire'[s][i] = m \/ \E j \in 1 .. Len(wire[s]) : wire'[s][i] = wire[s][j]
    BY <2>0, <2>5
  <2>6. CASE FanCatchUp(s) /\ wire'[s] = wire[s] \o LineMsgs(Since(ring, fan[s].lastSent))
    <3> DEFINE b == Since(ring, fan[s].lastSent)
    <3>1. b \in Seq(Entry) /\ LineMsgs(b) \in Seq(SentFrame)
      BY SinceRing, BacklogFrames DEF SInv
    <3>2. /\ Len(LineMsgs(b)) = Len(b) /\ Len(b) \in Nat
          /\ \A j \in 1 .. Len(b) : LineMsgs(b)[j] = LineMsg(b[j]) /\ b[j] \in Entry
      BY <3>1 DEF LineMsgs
    <3>3. wire'[s] = wire[s] \o LineMsgs(b)
      BY <2>6
    <3> HIDE DEF b
    <3>4. \/ \E j \in 1 .. Len(wire[s]) : wire'[s][i] = wire[s][j]
          \/ \E j \in 1 .. Len(b) : wire'[s][i] = LineMsgs(b)[j]
      <4>1. CASE i <= Len(wire[s])
        <5>1. i \in 1 .. Len(wire[s]) /\ wire'[s][i] = wire[s][i]
          BY <2>0, <3>1, <3>3, <4>1
        <5> QED
          BY <5>1
      <4>2. CASE i > Len(wire[s])
        <5>1. i - Len(wire[s]) \in 1 .. Len(LineMsgs(b)) /\ wire'[s][i] = LineMsgs(b)[i - Len(wire[s])]
          BY <2>0, <3>1, <3>3, <4>2
        <5> QED
          BY <3>2, <5>1
      <4> QED
        BY <2>0, <4>1, <4>2
    <3>5. \A j \in 1 .. Len(b) : Known(b[j])
      BY SinceRing DEF b, KeeperLinesKnown
    <3> QED
      BY <2>1, <2>2, <3>2, <3>4, <3>5
  <2>7. CASE (FanLine(s) \/ FanDrain(s)) /\ wire'[s] = Append(wire[s], LineMsg(Head(lineSub[Sub(s)].q)))
    <3> DEFINE y == Head(lineSub[Sub(s)].q)
    <3>1. y \in Entry /\ Known(y)
      BY <2>7, FeedHead DEF FanLine, FanDrain, FanTake, RecvLine
    <3>2. LineMsg(y) \in SentFrame
      BY <3>1, FrameKinds DEF SInv
    <3>3. wire'[s] = Append(wire[s], LineMsg(y))
      BY <2>7
    <3> HIDE DEF y
    <3> QED
      BY <2>1, <2>2, <2>5, <3>1, <3>2, <3>3
  <2>8. ASSUME NEW m \in SentFrame, m.t # "line", wire'[s] = Append(wire[s], m) PROVE Known(wire[s][i])'
    BY <1>10, <2>1, <2>5, <2>8
  <2>9. wire'[s] # <<>>
    OBVIOUS
  <2> QED
    BY <2>3, <2>4, <2>6, <2>7, <2>8, <2>9, WireChange
\* The frames to the keeper.
<1>11. ASSUME NEW s \in Sessions, NEW i \in 1 .. Len(up'[s])
       PROVE  /\ up'[s][i].t = "push" => Known(up[s][i])'
              /\ up'[s][i].t = "ack" => up'[s][i].seq <= seqCounter'
  <2>0. up[s] \in Seq(AskFrame) /\ Len(up[s]) \in Nat
    BY <1>0
  <2> DEFINE G == /\ up'[s][i].t = "push" => Known(up[s][i])'
                  /\ up'[s][i].t = "ack" => up'[s][i].seq <= seqCounter'
  <2>1. CASE \E j \in 1 .. Len(up[s]) : up'[s][i] = up[s][j]
    <3>1. PICK j \in 1 .. Len(up[s]) : up'[s][i] = up[s][j]
      BY <2>1
    <3>2. PICK m : m = up[s][j]
      OBVIOUS
    <3>3. m.t = "push" => m.seq <= seqCounter' /\ lineEpoch'[m.seq] = m.epoch
      BY <1>1, <1>4, <1>6, <3>1, <3>2 DEF KnownFrames
    <3>4. m.t = "ack" => m.seq <= seqCounter /\ m.seq \in Nat
      BY <1>6, <3>1, <3>2 DEF KnownFrames
    <3> QED
      BY <1>0, <3>1, <3>2, <3>3, <3>4 DEF Known
  <2>2. ASSUME NEW m \in AskFrame, up'[s] = Append(up[s], m)
        PROVE  up'[s][i] = m \/ \E j \in 1 .. Len(up[s]) : up'[s][i] = up[s][j]
    BY <2>0, <2>2
  <2>3. CASE up'[s] = up[s]
    BY <2>1, <2>3
  <2>4. CASE up[s] # <<>> /\ up'[s] = Tail(up[s])
    <3>1. i + 1 \in 1 .. Len(up[s]) /\ up'[s][i] = up[s][i + 1]
      BY <2>0, <2>4
    <3> QED
      BY <2>1, <3>1
  <2>5. CASE up'[s] = <<[t |-> "ready"]>>
    <3>1. [t |-> "ready"] \in AskFrame
      BY DEF AskFrame
    <3>2. up'[s][i] = [t |-> "ready"]
      BY <2>5
    <3> QED
      BY <3>2
  <2>6. CASE up[s] # <<>> /\ up'[s] = <<up[s][1]>>
    <3>1. i = 1 /\ up'[s][1] = up[s][1] /\ 1 \in 1 .. Len(up[s])
      BY <2>0, <2>6
    <3> QED
      BY <2>1, <3>1
  <2>7. ASSUME NEW m \in AskFrame, m.t \in {"dial", "close"}, up'[s] = Append(up[s], m) PROVE G
    BY <2>1, <2>2, <2>7
  <2>8. CASE BrainHandle(s) /\ up'[s] = Append(up[s], [t |-> "push", seq |-> lines[1].seq, epoch |-> lines[1].epoch])
    <3>1. lines # <<>>
      BY <2>8, BrainAsks
    <3>2. 1 \in 1 .. Len(lines)
      BY <1>0, <3>1
    <3>3. lines[1] \in Entry /\ Known(lines[1])
      BY <1>7, <3>2
    <3>4. lines[1].seq <= seqCounter' /\ lineEpoch'[lines[1].seq] = lines[1].epoch
      BY <1>1, <1>2, <3>3
    <3>5. PICK m : m = [t |-> "push", seq |-> lines[1].seq, epoch |-> lines[1].epoch]
      OBVIOUS
    <3>6. m \in AskFrame /\ m.t = "push" /\ m.seq <= seqCounter' /\ lineEpoch'[m.seq] = m.epoch
      BY <3>3, <3>4, <3>5 DEF AskFrame, Entry
    <3> QED
      BY <2>1, <2>2, <2>8, <3>5, <3>6 DEF Known
  <2>9. CASE BrainAck(s) /\ up'[s] = Append(up[s], [t |-> "ack", seq |-> cur.seq])
    <3>1. cur.pc # "idle" /\ [t |-> "ack", seq |-> cur.seq] \in AskFrame
      BY <2>9, BrainAsks DEF BrainAck
    <3>2. cur.seq <= seqCounter /\ cur.seq \in Nat
      BY <1>0, <3>1 DEF KnownFrames, Known, Seqs
    <3>3. PICK m : m = [t |-> "ack", seq |-> cur.seq]
      OBVIOUS
    <3>4. m \in AskFrame /\ m.t = "ack" /\ m.seq <= seqCounter'
      BY <1>0, <3>1, <3>2, <3>3
    <3> QED
      BY <2>1, <2>2, <2>9, <3>3, <3>4
  <2>10. up'[s] # <<>>
    OBVIOUS
  <2> HIDE DEF G
  <2>11. G
    <3>1. CASE \/ up'[s] = up[s] \/ up'[s] = <<[t |-> "ready"]>> \/ up'[s] = <<>>
               \/ (up[s] # <<>> /\ up'[s] = <<up[s][1]>>)
      BY <2>3, <2>5, <2>6, <2>10, <3>1 DEF G
    <3>2. CASE up[s] # <<>> /\ up'[s] = Tail(up[s])
      BY <2>4, <3>2 DEF G
    <3>3. CASE \E m \in AskFrame : m.t \in {"dial", "close"} /\ up'[s] = Append(up[s], m)
      BY <2>7, <3>3
    <3>4. CASE BrainHandle(s) /\ up'[s] = Append(up[s], [t |-> "push", seq |-> lines[1].seq, epoch |-> lines[1].epoch])
      BY <2>8, <3>4 DEF G
    <3>5. CASE BrainAck(s) /\ up'[s] = Append(up[s], [t |-> "ack", seq |-> cur.seq])
      BY <2>9, <3>5 DEF G
    <3> QED
      BY <3>1, <3>2, <3>3, <3>4, <3>5, UpChange
  <2> QED
    BY <2>11 DEF G
\* The line the brain is processing, and the watermarks.
<1>12. ASSUME cur'.pc # "idle" PROVE Known(cur)'
  <2>1. CASE cur.pc # "idle" /\ cur'.seq = cur.seq /\ cur'.epoch = cur.epoch
    <3>1. Known(cur) /\ cur.seq \in Seqs
      BY <1>0, <2>1 DEF KnownFrames
    <3> QED
      BY <1>1, <2>1, <3>1 DEF Known
  <2>2. ASSUME lines # <<>>, cur'.seq = lines[1].seq, cur'.epoch = lines[1].epoch PROVE Known(cur)'
    <3>1. 1 \in 1 .. Len(lines)
      BY <1>0, <2>2
    <3>2. lines[1].seq <= seqCounter' /\ lineEpoch'[lines[1].seq] = lines[1].epoch
      BY <1>1, <1>2, <1>7, <3>1
    <3> QED
      BY <2>2, <3>2 DEF Known
  <2> QED
    BY <1>12, <2>1, <2>2, KnowChange
<1>13. deliveredSeq' <= seqCounter'
  <2>1. ASSUME NEW s \in Sessions, HandleSeqAck(s) PROVE deliveredSeq' <= seqCounter'
    <3>1. /\ up[s] # <<>> /\ Head(up[s]) = up[s][1] /\ 1 \in 1 .. Len(up[s]) /\ Head(up[s]).t = "ack"
          /\ deliveredSeq' \in {deliveredSeq, Head(up[s]).seq}
      BY <1>0, <2>1 DEF HandleSeqAck, Request, AckSeq
    <3>2. Head(up[s]).seq \in Nat /\ Head(up[s]).seq <= seqCounter
      BY <1>6, <3>1 DEF KnownFrames
    <3> QED
      BY <1>0, <3>1, <3>2 DEF KnownFrames
  <2> QED
    BY <1>0, <2>1, KeeperWho DEF KnownFrames
<1>14. ASSUME NEW s \in Sessions PROVE fan'[s].lastSent <= seqCounter'
  <2>0. fan[s].lastSent \in Nat /\ fan[s].lastSent <= seqCounter /\ fan[s] \in FanState
    BY FanFacts DEF KnownFrames
  <2>1. CASE fan'[s].lastSent = fan[s].lastSent \/ fan'[s].lastSent = deliveredSeq \/ fan'[s].lastSent = 0
    BY <1>0, <2>0, <2>1 DEF KnownFrames
  <2>2. CASE FanCatchUp(s)
    <3> DEFINE b == Since(ring, fan[s].lastSent)
    <3>1. b \in Seq(Entry) /\ \A j \in 1 .. Len(b) : Known(b[j])
      BY SinceRing DEF KeeperLinesKnown
    <3>2. fan'[s].lastSent = fan[s].lastSent \/ (b # <<>> /\ fan'[s].lastSent = LastSeq(b))
      BY <1>0, <2>0, <2>2 DEF FanCatchUp, FanState
    <3> HIDE DEF b
    <3>3. b # <<>> => LastSeq(b) \in Nat /\ LastSeq(b) <= seqCounter
      <4>1. b # <<>> => Len(b) \in 1 .. Len(b) /\ b[Len(b)] \in Entry /\ LastSeq(b) = b[Len(b)].seq
        BY <3>1 DEF LastSeq
      <4> QED
        BY <3>1, <4>1 DEF Known, Entry, Seqs
    <3> QED
      BY <1>0, <2>0, <3>2, <3>3
  <2>3. CASE FanTake(s)
    <3> DEFINE y == Head(lineSub[Sub(s)].q)
    <3>1. y \in Entry /\ Known(y)
      BY <2>3, FeedHead DEF FanTake, RecvLine
    <3>2. fan'[s].lastSent = fan[s].lastSent \/ fan'[s].lastSent = y.seq
      BY <1>0, <2>0, <2>3 DEF FanTake, FanState
    <3> HIDE DEF y
    <3> QED
      BY <1>0, <2>0, <3>1, <3>2 DEF Known, Entry, Seqs
  <2>4. CASE FanStep(s) /\ ~FanCatchUp(s) /\ ~FanTake(s)
    <3>1. fan'[s].lastSent = fan[s].lastSent \/ fan'[s] = NoFan
      BY <1>0, <2>0, <2>4 DEF FanStep, FanSubscribe, FanSubscribeLines, FanLine, FanDrain, FanOverflow,
         FanSwap, FanEvent, FanForward, FanEnd, FanState
    <3> QED
      BY <2>1, <3>1 DEF NoFan
  <2> QED
    BY <2>1, <2>2, <2>3, <2>4, FanWho
<1> QED
  BY <1>8, <1>9, <1>10, <1>11, <1>12, <1>13, <1>14 DEF KnownFrames

\* What the proofs of what the brain knows start from.
Base ==
  OneAtATime /\ SInv /\ SessTypes /\ Shape /\ KeeperLinesKnown /\ LinesRead /\ Clears /\ KnownFrames

\* A step with the same connection before and after.
Steady == conn' = conn /\ conn # 0

\* No line is of a connection that has just been made.
LEMMA AllNew ==
  ASSUME Base, [SNext]_vars, ~Steady
  PROVE  /\ \A R, w : Covered(conn', lineEpoch', R, w)
         /\ \A x \in Entry : Known(x)' => x.epoch # conn'
<1>1. ASSUME conn' # 0, NEW n \in Seqs PROVE lineEpoch'[n] # conn'
  <2>1. conn' = epoch + 1 /\ \E d \in Dialers : DialInstall(d)
    BY <1>1, KeeperWho DEF Base, Steady
  <2>2. seqCounter' = seqCounter
    BY <2>1 DEF DialInstall, streamVars
  <2>3. lineEpoch' = lineEpoch
    BY <2>2, LoopSteps DEF Base
  <2>4. lineEpoch[n] <= epoch /\ lineEpoch[n] \in Nat /\ epoch \in Nat
    BY KeeperAssumption DEF Base, LinesRead, KeeperLinesKnown, SInv, KeeperInv, TypeOK
  <2> QED
    BY <2>1, <2>3, <2>4
<1>2. StateLines \subseteq Seqs
  BY LiveSessionAssumption
<1>3. \A R, w : Covered(conn', lineEpoch', R, w)
  BY <1>1, <1>2 DEF Covered
<1>4. ASSUME NEW x \in Entry, Known(x)' PROVE x.epoch # conn'
  BY <1>1, <1>4 DEF Known, Entry, Epochs
<1> QED
  BY <1>3, <1>4

\* What covers the lines up to one that has been read still does.
LEMMA CovKept ==
  ASSUME Base, [SNext]_vars, Steady, NEW R, NEW Q, NEW w \in Int, R \subseteq Q, w <= seqCounter, Cov(R, w)
  PROVE  Covered(conn', lineEpoch', Q, w)
<1> SUFFICES ASSUME NEW n \in StateLines, n <= w, lineEpoch'[n] = conn
             PROVE  [seq |-> n, epoch |-> conn] \in R
  BY DEF Covered, Steady
<1>1. n \in Seqs /\ n \in Nat /\ seqCounter \in Nat
  BY LiveSessionAssumption, KeeperAssumption DEF Seqs, Base, SInv, KeeperInv, TypeOK
<1>2. lineEpoch'[n] = lineEpoch[n]
  <2>1. CASE seqCounter' = seqCounter
    BY <2>1, LoopSteps DEF Base
  <2>2. CASE seqCounter' # seqCounter
    <3>1. PICK e \in Epochs : lineEpoch' = [lineEpoch EXCEPT ![seqCounter + 1] = e]
      BY <2>2, LoopSteps DEF Base
    <3> QED
      BY <1>1, <3>1 DEF Base, KeeperLinesKnown
  <2> QED
    BY <2>1, <2>2
<1> QED
  BY <1>2 DEF Cov, Covered, Steady

LEMMA CovMore ==
  ASSUME NEW R, NEW Q, NEW w, R \subseteq Q, Cov(R, w)
  PROVE  Cov(Q, w)
BY DEF Cov, Covered

\* With a line that is covered up to, the line itself covers one more.
LEMMA CovNext ==
  ASSUME Base, NEW x \in Entry, Known(x), NEW R, Cov(R, x.seq - 1)
  PROVE  Cov(R \cup {x}, x.seq)
<1> SUFFICES ASSUME conn # 0, NEW n \in StateLines, n <= x.seq, lineEpoch[n] = conn
             PROVE  [seq |-> n, epoch |-> conn] \in R \cup {x}
  BY DEF Cov, Covered
<1>1. n \in Nat /\ x.seq \in Nat
  BY LiveSessionAssumption DEF Seqs, Entry
<1>2. CASE n <= x.seq - 1
  BY <1>2 DEF Cov, Covered
<1>3. CASE n = x.seq
  <2>1. x.epoch = conn
    BY <1>3 DEF Known
  <2>2. x = [seq |-> n, epoch |-> conn]
    BY <1>3, <2>1 DEF Entry
  <2> QED
    BY <2>2
<1> QED
  BY <1>1, <1>2, <1>3

LEMMA BlobKept ==
  ASSUME Base, [SNext]_vars, Steady
  PROVE  /\ blob \subseteq blob'
         /\ deliveredSeq' = deliveredSeq \/ \E s \in Sessions : HandleSeqAck(s)
<1>1. \/ blob' = blob \/ \E s \in Sessions : HandleBlobPush(s)
  BY KeeperWho DEF Base, Steady, Clears
<1>2. ASSUME NEW s \in Sessions, HandleBlobPush(s) PROVE blob \subseteq blob'
  BY <1>2 DEF HandleBlobPush, PushBlob
<1> QED
  BY <1>1, <1>2, KeeperWho DEF Base, Steady

LEMMA OfIs ==
  ASSUME NEW q, NEW t, NEW n, NEW x
  PROVE  x \in Of(q, t, n) <=> \E j \in 1 .. n : q[j].t = t /\ x = Item(q[j])
BY DEF Of

LEMMA OfTail ==
  ASSUME NEW S, NEW q \in Seq(S), q # <<>>, NEW t, NEW i \in 0 .. Len(q) - 1
  PROVE  /\ q[1].t = t => Of(q, t, i + 1) = {Item(q[1])} \cup Of(Tail(q), t, i)
         /\ q[1].t # t => Of(q, t, i + 1) = Of(Tail(q), t, i)
<1>1. /\ Len(q) \in Nat /\ Len(q) >= 1 /\ i \in Nat
      /\ \A j \in 1 .. Len(q) - 1 : Tail(q)[j] = q[j + 1]
  BY HeadTail
<1>2. ASSUME NEW x, x \in Of(q, t, i + 1)
      PROVE  (q[1].t = t /\ x = Item(q[1])) \/ x \in Of(Tail(q), t, i)
  <2>1. PICK j \in 1 .. i + 1 : q[j].t = t /\ x = Item(q[j])
    BY <1>2, OfIs
  <2>2. CASE j = 1
    BY <2>1, <2>2
  <2>3. CASE j # 1
    <3>1. j - 1 \in 1 .. i /\ j - 1 \in 1 .. Len(q) - 1 /\ (j - 1) + 1 = j
      BY <1>1, <2>3
    <3>2. Tail(q)[j - 1] = q[j]
      BY <1>1, <3>1
    <3> QED
      BY <2>1, <3>1, <3>2, OfIs
  <2> QED
    BY <2>2, <2>3
<1>3. ASSUME NEW x, (q[1].t = t /\ x = Item(q[1])) \/ x \in Of(Tail(q), t, i)
      PROVE  x \in Of(q, t, i + 1)
  <2>1. CASE q[1].t = t /\ x = Item(q[1])
    <3>1. 1 \in 1 .. i + 1
      BY <1>1
    <3> QED
      BY <2>1, <3>1, OfIs
  <2>2. CASE x \in Of(Tail(q), t, i)
    <3>1. PICK j \in 1 .. i : Tail(q)[j].t = t /\ x = Item(Tail(q)[j])
      BY <2>2 DEF Of
    <3>2. j + 1 \in 1 .. i + 1 /\ Tail(q)[j] = q[j + 1]
      BY <1>1
    <3> QED
      BY <3>1, <3>2, OfIs
  <2> QED
    BY <1>3, <2>1, <2>2
<1> QED
  BY <1>2, <1>3

LEMMA OfJoin ==
  ASSUME NEW S, NEW q \in Seq(S), NEW p \in Seq(S), NEW t, NEW i \in 0 .. Len(q)
  PROVE  Of(q \o p, t, i) = Of(q, t, i)
<1>1. Len(q) \in Nat /\ \A j \in 1 .. i : (q \o p)[j] = q[j]
  OBVIOUS
<1> QED
  BY <1>1 DEF Of

LEMMA OfAppend ==
  ASSUME NEW S, NEW q \in Seq(S), NEW m \in S, NEW t
  PROVE  /\ Of(Append(q, m), t, Len(q)) = AllOf(q, t)
         /\ AllOf(q, t) \subseteq AllOf(Append(q, m), t)
         /\ m.t = t => Item(m) \in AllOf(Append(q, m), t)
<1>1. Len(q) \in Nat /\ \A j \in 1 .. Len(q) : Append(q, m)[j] = q[j]
      /\ Append(q, m)[Len(q) + 1] = m /\ Len(Append(q, m)) = Len(q) + 1
  OBVIOUS
<1>2. Of(Append(q, m), t, Len(q)) = AllOf(q, t)
  BY <1>1 DEF Of, AllOf
<1>3. ASSUME NEW x \in AllOf(q, t) PROVE x \in AllOf(Append(q, m), t)
  <2>1. PICK j \in 1 .. Len(q) : q[j].t = t /\ x = Item(q[j])
    BY OfIs DEF AllOf
  <2>2. j \in 1 .. Len(q) + 1 /\ Append(q, m)[j] = q[j]
    BY <1>1
  <2> QED
    BY <1>1, <2>1, <2>2, OfIs DEF AllOf
<1>4. ASSUME m.t = t PROVE Item(m) \in AllOf(Append(q, m), t)
  <2>1. Len(q) + 1 \in 1 .. Len(q) + 1
    BY <1>1
  <2> QED
    BY <1>1, <1>4, <2>1 DEF AllOf, Of
<1> QED
  BY <1>2, <1>3, <1>4

LEMMA OfBefore ==
  ASSUME NEW S, NEW q \in Seq(S), NEW m \in S, NEW t, NEW i \in 0 .. Len(q)
  PROVE  Of(Append(q, m), t, i) = Of(q, t, i)
<1>1. \A j \in 1 .. i : Append(q, m)[j] = q[j]
  OBVIOUS
<1> QED
  BY <1>1 DEF Of

LEMMA FirstTail ==
  ASSUME NEW S, NEW q \in Seq(S), q # <<>>, NEW i \in 0 .. Len(q) - 1
  PROVE  First(q, i + 1) = {q[1]} \cup First(Tail(q), i)
<1>1. /\ Len(q) \in Nat /\ Len(q) >= 1 /\ i \in Nat
      /\ \A j \in 1 .. Len(q) - 1 : Tail(q)[j] = q[j + 1]
  BY HeadTail
<1>2. ASSUME NEW x \in First(q, i + 1) PROVE x = q[1] \/ x \in First(Tail(q), i)
  <2>1. PICK j \in 1 .. i + 1 : x = q[j]
    BY DEF First
  <2>2. CASE j # 1
    <3>1. j - 1 \in 1 .. i /\ j - 1 \in 1 .. Len(q) - 1 /\ (j - 1) + 1 = j
      BY <1>1, <2>2
    <3>2. Tail(q)[j - 1] = q[j]
      BY <1>1, <3>1
    <3> QED
      BY <2>1, <3>1, <3>2 DEF First
  <2> QED
    BY <2>1, <2>2
<1>3. ASSUME NEW x, x = q[1] \/ x \in First(Tail(q), i) PROVE x \in First(q, i + 1)
  <2>1. CASE x = q[1]
    <3>1. 1 \in 1 .. i + 1
      BY <1>1
    <3> QED
      BY <2>1, <3>1 DEF First
  <2>2. CASE x \in First(Tail(q), i)
    <3>1. PICK j \in 1 .. i : x = Tail(q)[j]
      BY <2>2 DEF First
    <3>2. j + 1 \in 1 .. i + 1 /\ Tail(q)[j] = q[j + 1]
      BY <1>1
    <3> QED
      BY <3>1, <3>2 DEF First
  <2> QED
    BY <1>3, <2>1, <2>2
<1> QED
  BY <1>2, <1>3

LEMMA FirstAppend ==
  ASSUME NEW S, NEW q \in Seq(S), NEW m \in S
  PROVE  /\ \A i \in 0 .. Len(q) : First(Append(q, m), i) = First(q, i)
         /\ First(Append(q, m), Len(q) + 1) = First(q, Len(q)) \cup {m}
<1>1. Len(q) \in Nat /\ \A j \in 1 .. Len(q) : Append(q, m)[j] = q[j]
      /\ Append(q, m)[Len(q) + 1] = m
  OBVIOUS
<1>2. ASSUME NEW i \in 0 .. Len(q) PROVE First(Append(q, m), i) = First(q, i)
  <2>1. \A j \in 1 .. i : Append(q, m)[j] = q[j]
    BY <1>1
  <2> QED
    BY <2>1 DEF First
<1>3. First(Append(q, m), Len(q) + 1) = First(q, Len(q)) \cup {m}
  <2>1. ASSUME NEW x \in First(Append(q, m), Len(q) + 1) PROVE x = m \/ x \in First(q, Len(q))
    <3>1. PICK j \in 1 .. Len(q) + 1 : x = Append(q, m)[j]
      BY DEF First
    <3>2. CASE j = Len(q) + 1
      BY <1>1, <3>1, <3>2
    <3>3. CASE j # Len(q) + 1
      <4>1. j \in 1 .. Len(q)
        BY <1>1, <3>3
      <4> QED
        BY <1>1, <3>1, <4>1 DEF First
    <3> QED
      BY <3>2, <3>3
  <2>2. ASSUME NEW x, x = m \/ x \in First(q, Len(q)) PROVE x \in First(Append(q, m), Len(q) + 1)
    <3>1. CASE x = m
      <4>1. Len(q) + 1 \in 1 .. Len(q) + 1
        BY <1>1
      <4> QED
        BY <1>1, <3>1, <4>1 DEF First
    <3>2. CASE x \in First(q, Len(q))
      <4>1. PICK j \in 1 .. Len(q) : x = q[j]
        BY <3>2 DEF First
      <4>2. j \in 1 .. Len(q) + 1 /\ Append(q, m)[j] = q[j]
        BY <1>1
      <4> QED
        BY <4>1, <4>2 DEF First
    <3> QED
      BY <2>2, <3>1, <3>2
  <2> QED
    BY <2>1, <2>2
<1> QED
  BY <1>2, <1>3

\* Acknowledged is what the blob records, and it records nothing without what
\* came before ...
BlobCov ==
  /\ Cov(blob, deliveredSeq)
  /\ \A x \in blob : x.epoch = conn => Cov(blob, x.seq - 1)

\* ... which stays so when the frames on their way are applied in their order.
UpCov ==
  \A s \in Sessions : \A i \in 1 .. Len(up[s]) :
    /\ up[s][i].t = "ack" => Cov(blob \cup Of(up[s], "push", i - 1), up[s][i].seq)
    /\ up[s][i].t = "push" => Cov(blob \cup Of(up[s], "push", i - 1), up[s][i].seq - 1)

AcksCov(R) ==
  \A s \in Sessions : \A i \in 1 .. Len(up[s]) : up[s][i].t = "ack" => Cov(R, up[s][i].seq)

\* A brain that was told that there is no connection starts from nothing.
StartCov == brain.pc = "hello" /\ ~brain.connected => Cov({}, deliveredSeq) /\ AcksCov({})

\* A brain knows what came before what it knows, and what is acknowledged or will be.
KnowCov ==
  /\ \A x \in know : x.epoch = conn => Cov(know, x.seq - 1)
  /\ brain.pc = "run" => /\ Cov(know, deliveredSeq)
                         /\ AcksCov(know)
                         /\ cur.pc # "idle" => Cov(know, cur.seq)

\* What it has taken in.
Has == know \cup Got

\* The lines on their way to it leave nothing out.
LinesCov == \A i \in 1 .. Len(lines) : Cov(know \cup First(lines, i - 1), lines[i].seq - 1)
WireCov(s) ==
  \A i \in 1 .. Len(wire[s]) : wire[s][i].t = "line" =>
    Cov(Has \cup Of(wire[s], "line", i - 1), wire[s][i].seq - 1)
FanCov(s) ==
  fan[s].pc # "off" => Cov(Has \cup AllOf(wire[s], "line"), fan[s].lastSent)

\* What it derived from them is in the blob or on its way there.
OnItsWay(s) ==
  sess[s].pc \in {"acked", "live"} =>
    \A x \in know : x.epoch = conn /\ x.seq \in StateLines => x \in blob \cup AllOf(up[s], "push")

PipeCov == \A s \in Sessions : Running(s) => LinesCov /\ WireCov(s) /\ FanCov(s) /\ OnItsWay(s)

LEMMA OfNone ==
  /\ \A R, q, t : R \cup Of(q, t, 1 - 1) = R
  /\ \A R, q : R \cup First(q, 1 - 1) = R
<1>1. 1 .. 1 - 1 = {}
  OBVIOUS
<1> QED
  BY <1>1 DEF Of, First

\* The frames to the keeper.
LEMMA UpFacts ==
  ASSUME Base, NEW s \in Sessions
  PROVE  /\ up[s] \in Seq(AskFrame) /\ Len(up[s]) \in Nat
         /\ up[s] # <<>> => Head(up[s]) = up[s][1] /\ 1 \in 1 .. Len(up[s])
         /\ \A i \in 1 .. Len(up[s]) :
              /\ up[s][i].t = "ack" => up[s][i].seq \in Int /\ up[s][i].seq <= seqCounter
              /\ up[s][i].t = "push" => up[s][i].seq - 1 \in Int /\ up[s][i].seq - 1 <= seqCounter
                                        /\ Item(up[s][i]) \in Entry
         /\ seqCounter \in Nat /\ deliveredSeq \in Nat /\ deliveredSeq <= seqCounter
<1>1. up[s] \in Seq(AskFrame) /\ seqCounter \in Nat /\ deliveredSeq \in Nat
  BY KeeperAssumption DEF Base, SInv, FrameTypes, KeeperInv, TypeOK
<1>2. \A i \in 1 .. Len(up[s]) : up[s][i] \in AskFrame
  BY <1>1
<1>3. \A m \in AskFrame : /\ m.t = "ack" => m.seq \in Int
                          /\ m.t = "push" => m.seq \in Nat /\ Item(m) \in Entry
  BY KeeperAssumption DEF AskFrame, Seqs, Item, Entry
<1>4. ASSUME NEW i \in 1 .. Len(up[s])
      PROVE  /\ up[s][i].t = "ack" => up[s][i].seq \in Int /\ up[s][i].seq <= seqCounter
             /\ up[s][i].t = "push" => up[s][i].seq - 1 \in Int /\ up[s][i].seq - 1 <= seqCounter
                                       /\ Item(up[s][i]) \in Entry
  BY <1>1, <1>2, <1>3 DEF Base, KnownFrames, Known
<1> QED
  BY <1>1, <1>4 DEF Base, KnownFrames

LEMMA BlobCovStep ==
  ASSUME Base, [SNext]_vars, Steady, BlobCov, UpCov
  PROVE  BlobCov'
<1>0. blob \subseteq blob' /\ blob \subseteq Entry /\ conn' = conn
      /\ seqCounter \in Nat /\ deliveredSeq \in Int /\ deliveredSeq <= seqCounter
  BY BlobKept, KeeperAssumption DEF Base, SInv, KeeperInv, TypeOK, KnownFrames, Steady
<1>1. Cov(blob, deliveredSeq)'
  <2>1. Covered(conn', lineEpoch', blob', deliveredSeq)
    BY <1>0, CovKept DEF BlobCov
  <2>2. ASSUME NEW s \in Sessions, HandleSeqAck(s) PROVE Covered(conn', lineEpoch', blob', deliveredSeq')
    <3>1. /\ up[s] # <<>> /\ up[s][1].t = "ack" /\ 1 \in 1 .. Len(up[s])
          /\ deliveredSeq' \in {deliveredSeq, up[s][1].seq}
      BY <2>2, UpFacts DEF HandleSeqAck, Request, AckSeq
    <3>2. Cov(blob \cup Of(up[s], "push", 1 - 1), up[s][1].seq)
      BY <3>1 DEF UpCov
    <3>3. Cov(blob, up[s][1].seq)
      BY <3>2, OfNone
    <3>4. up[s][1].seq \in Int /\ up[s][1].seq <= seqCounter
      BY <3>1, UpFacts
    <3>5. Covered(conn', lineEpoch', blob', up[s][1].seq)
      BY <1>0, <3>3, <3>4, CovKept
    <3> QED
      BY <2>1, <3>1, <3>5
  <2> QED
    BY <2>1, <2>2, BlobKept DEF Cov
<1>2. ASSUME NEW x \in blob', x.epoch = conn PROVE Covered(conn', lineEpoch', blob', x.seq - 1)
  <2>1. CASE x \in blob
    <3>1. x.seq - 1 \in Int /\ x.seq - 1 <= seqCounter
      BY <1>0, <2>1 DEF Base, KnownFrames, Known, Entry, Seqs
    <3>2. Cov(blob, x.seq - 1)
      BY <1>2, <2>1 DEF BlobCov
    <3> QED
      BY <1>0, <3>1, <3>2, CovKept
  <2>2. CASE x \notin blob
    <3>1. PICK s \in Sessions : HandleBlobPush(s)
      BY <2>2, KeeperWho DEF Base
    <3>2. /\ up[s] # <<>> /\ up[s][1].t = "push" /\ 1 \in 1 .. Len(up[s])
          /\ x.seq = up[s][1].seq
      BY <2>2, <3>1, UpFacts DEF HandleBlobPush, Request, PushBlob
    <3>3. Cov(blob \cup Of(up[s], "push", 1 - 1), up[s][1].seq - 1)
      BY <3>2 DEF UpCov
    <3>4. Cov(blob, x.seq - 1)
      BY <3>2, <3>3, OfNone
    <3>5. x.seq - 1 \in Int /\ x.seq - 1 <= seqCounter
      BY <3>2, UpFacts
    <3> QED
      BY <1>0, <3>4, <3>5, CovKept
  <2> QED
    BY <2>1, <2>2
<1> QED
  BY <1>0, <1>1, <1>2 DEF BlobCov, Cov

\* What the brain's state covers, the blob will once the frames to it are applied.
LEMMA OnWay ==
  ASSUME NEW s \in Sessions, OnItsWay(s), sess[s].pc \in {"acked", "live"}, NEW w, Cov(know, w)
  PROVE  Cov(blob \cup AllOf(up[s], "push"), w)
<1> SUFFICES ASSUME conn # 0, NEW n \in StateLines, n <= w, lineEpoch[n] = conn
             PROVE  [seq |-> n, epoch |-> conn] \in blob \cup AllOf(up[s], "push")
  BY DEF Cov, Covered
<1>1. [seq |-> n, epoch |-> conn] \in know
  BY DEF Cov, Covered
<1> QED
  BY <1>1 DEF OnItsWay

LEMMA UpCovStep ==
  ASSUME Base, [SNext]_vars, Steady, UpCov, KnowCov, PipeCov
  PROVE  UpCov'
<1> SUFFICES ASSUME NEW s \in Sessions, NEW i \in 1 .. Len(up'[s])
             PROVE  LET R == blob' \cup Of(up'[s], "push", i - 1)
                    IN  /\ up'[s][i].t = "ack" => Covered(conn', lineEpoch', R, up'[s][i].seq)
                        /\ up'[s][i].t = "push" => Covered(conn', lineEpoch', R, up'[s][i].seq - 1)
  BY DEF UpCov, Cov
<1> DEFINE R == blob' \cup Of(up'[s], "push", i - 1)
           q == up[s]
           G == /\ up'[s][i].t = "ack" => Covered(conn', lineEpoch', R, up'[s][i].seq)
                /\ up'[s][i].t = "push" => Covered(conn', lineEpoch', R, up'[s][i].seq - 1)
<1> SUFFICES G
  OBVIOUS
<1>0. /\ blob \subseteq blob' /\ q \in Seq(AskFrame) /\ Len(q) \in Nat /\ seqCounter \in Nat
      /\ i \in Nat /\ i >= 1
  BY BlobKept, UpFacts
\* A frame that was there, with what is before it no less than before.
<1>1. ASSUME NEW j \in 1 .. Len(q), up'[s][i] = q[j], Of(q, "push", j - 1) \subseteq R
      PROVE  G
  <2>1. blob \cup Of(q, "push", j - 1) \subseteq R
    BY <1>0, <1>1
  <2>2. /\ q[j].t = "ack" => q[j].seq \in Int /\ q[j].seq <= seqCounter
                             /\ Cov(blob \cup Of(q, "push", j - 1), q[j].seq)
        /\ q[j].t = "push" => q[j].seq - 1 \in Int /\ q[j].seq - 1 <= seqCounter
                             /\ Cov(blob \cup Of(q, "push", j - 1), q[j].seq - 1)
    BY UpFacts DEF UpCov
  <2> HIDE DEF R, q
  <2>3. q[j].t = "ack" => Covered(conn', lineEpoch', R, q[j].seq)
    BY <2>1, <2>2, CovKept
  <2>4. q[j].t = "push" => Covered(conn', lineEpoch', R, q[j].seq - 1)
    BY <2>1, <2>2, CovKept
  <2> QED
    BY <1>1, <2>3, <2>4
<1>2. CASE up'[s] = q
  BY <1>0, <1>1, <1>2
<1>3. CASE up'[s] = <<[t |-> "ready"]>>
  <2>1. up'[s][i] = [t |-> "ready"]
    BY <1>3
  <2>2. up'[s][i].t = "ready"
    BY <2>1
  <2> QED
    BY <2>2
<1>4. CASE q # <<>> /\ up'[s] = Tail(q) /\ (q[1].t # "push" \/ (HandleBlobPush(s) /\ q[1].t = "push"))
  <2>1. i + 1 \in 1 .. Len(q) /\ up'[s][i] = q[i + 1] /\ i - 1 \in 0 .. Len(q) - 1 /\ (i - 1) + 1 = i /\ (i + 1) - 1 = i
    BY <1>0, <1>4
  <2>2. ASSUME q[1].t # "push" PROVE Of(q, "push", i) \subseteq R
    <3>1. Of(q, "push", (i - 1) + 1) = Of(Tail(q), "push", i - 1)
      BY <1>0, <1>4, <2>1, <2>2, OfTail
    <3> QED
      BY <1>4, <2>1, <3>1
  <2>3. ASSUME HandleBlobPush(s), q[1].t = "push" PROVE Of(q, "push", i) \subseteq R
    <3>1. Of(q, "push", (i - 1) + 1) = {Item(q[1])} \cup Of(Tail(q), "push", i - 1)
      BY <1>0, <1>4, <2>1, <2>3, OfTail, ZenonT(60)
    <3>2. Item(q[1]) \in blob'
      BY <1>4, <2>3, UpFacts DEF HandleBlobPush, PushBlob, Item
    <3> QED
      BY <1>4, <2>1, <3>1, <3>2
  <2>4. Of(q, "push", i) \subseteq R
    BY <1>4, <2>2, <2>3
  <2> QED
    BY <1>1, <2>1, <2>4
<1>5. CASE q # <<>> /\ up'[s] = <<q[1]>>
  <2>1. i = 1 /\ up'[s][1] = q[1] /\ 1 \in 1 .. Len(q)
    BY <1>0, <1>5
  <2>2. R \cup Of(q, "push", 1 - 1) = R
    BY OfNone
  <2>3. Of(q, "push", 1 - 1) \subseteq R
    BY <2>2
  <2> HIDE DEF R, q, G
  <2> QED
    BY <1>1, <2>1, <2>3
<1>6. ASSUME NEW m \in AskFrame, up'[s] = Append(q, m),
             /\ m.t = "ack" => m.seq \in Int /\ m.seq <= seqCounter
                               /\ Cov(blob \cup AllOf(q, "push"), m.seq)
             /\ m.t = "push" => m.seq - 1 \in Int /\ m.seq - 1 <= seqCounter
                               /\ Cov(blob \cup AllOf(q, "push"), m.seq - 1)
      PROVE  G
  <2>1. CASE i \in 1 .. Len(q)
    <3>1. up'[s][i] = q[i] /\ i - 1 \in 0 .. Len(q)
      BY <1>0, <1>6, <2>1
    <3>2. Of(Append(q, m), "push", i - 1) = Of(q, "push", i - 1)
      BY <1>0, <3>1, OfBefore
    <3>3. Of(q, "push", i - 1) \subseteq R
      BY <1>6, <3>2
    <3> QED
      BY <1>1, <2>1, <3>1, <3>3
  <2>2. CASE i \notin 1 .. Len(q)
    <3>1. i - 1 = Len(q) /\ up'[s][i] = m /\ Len(q) \in 0 .. Len(q)
      BY <1>0, <1>6, <2>2
    <3>2. Of(Append(q, m), "push", Len(q)) = AllOf(q, "push")
      BY <1>0, OfAppend
    <3>3. blob \cup AllOf(q, "push") \subseteq R
      BY <1>0, <1>6, <3>1, <3>2
    <3> HIDE DEF R, q
    <3>4. m.t = "ack" => Covered(conn', lineEpoch', R, m.seq)
      BY <1>6, <3>3, CovKept
    <3>5. m.t = "push" => Covered(conn', lineEpoch', R, m.seq - 1)
      BY <1>6, <3>3, CovKept
    <3> QED
      BY <3>1, <3>4, <3>5
  <2> QED
    BY <2>1, <2>2
<1>7. CASE sess[s].pc \in {"acked", "live"} /\ BrainHandle(s) /\ lines[1].seq \in StateLines
           /\ up'[s] = Append(q, [t |-> "push", seq |-> lines[1].seq, epoch |-> lines[1].epoch])
  <2> DEFINE m == [t |-> "push", seq |-> lines[1].seq, epoch |-> lines[1].epoch]
  <2>1. lines # <<>> /\ m \in AskFrame /\ Running(s) /\ lines[1] \in Entry
    BY <1>7, BrainAsks DEF Base, BrainHandle
  <2>2. 1 \in 1 .. Len(lines)
    BY <2>1 DEF Base, SInv, FrameTypes
  <2>3. Cov(know \cup First(lines, 1 - 1), lines[1].seq - 1)
    BY <2>1, <2>2 DEF PipeCov, LinesCov
  <2>4. Cov(know, lines[1].seq - 1)
    BY <2>3, OfNone
  <2>5. Cov(blob \cup AllOf(q, "push"), lines[1].seq - 1)
    BY <1>7, <2>1, <2>4, OnWay DEF PipeCov
  <2>6. lines[1].seq - 1 \in Int /\ lines[1].seq - 1 <= seqCounter
    BY <1>0, <2>1, <2>2 DEF Base, KnownFrames, Known, Entry, Seqs
  <2>7. m.t = "push" /\ m.seq = lines[1].seq /\ up'[s] = Append(q, m)
    BY <1>7
  <2>8. /\ m.t # "ack"
        /\ m.t = "push" => m.seq - 1 \in Int /\ m.seq - 1 <= seqCounter
                           /\ Cov(blob \cup AllOf(q, "push"), m.seq - 1)
    BY <2>5, <2>6
  <2> HIDE DEF m, R, q, G
  <2> QED
    BY <1>6, <2>1, <2>7, <2>8
<1>8. CASE sess[s].pc \in {"acked", "live"} /\ BrainAck(s) /\ up'[s] = Append(q, [t |-> "ack", seq |-> cur.seq])
  <2> DEFINE m == [t |-> "ack", seq |-> cur.seq]
  <2>1. m \in AskFrame /\ Running(s) /\ cur.pc # "idle"
    BY <1>8, BrainAsks DEF Base, BrainAck
  <2>2. Cov(know, cur.seq)
    BY <2>1 DEF KnowCov, Running
  <2>3. Cov(blob \cup AllOf(q, "push"), cur.seq)
    BY <1>8, <2>1, <2>2, OnWay DEF PipeCov
  <2>4. cur.seq \in Int /\ cur.seq <= seqCounter
    BY <2>1 DEF Base, SInv, FrameTypes, Seqs, KnownFrames, Known
  <2>5. m.t = "ack" /\ m.seq = cur.seq /\ up'[s] = Append(q, m)
    BY <1>8
  <2>6. /\ m.t # "push"
        /\ m.t = "ack" => m.seq \in Int /\ m.seq <= seqCounter
                          /\ Cov(blob \cup AllOf(q, "push"), m.seq)
    BY <2>3, <2>4
  <2> HIDE DEF m, R, q, G
  <2> QED
    BY <1>6, <2>1, <2>5, <2>6
<1>9. up'[s] # <<>>
  OBVIOUS
<1>10. ASSUME NEW m \in AskFrame, m.t \in {"dial", "close"}, up'[s] = Append(q, m) PROVE G
  BY <1>6, <1>10
<1> HIDE DEF R, G
<1>11. G
  <2>1. CASE \/ q # <<>> /\ up'[s] = Tail(q) /\ (q[1].t # "push" \/ (HandleBlobPush(s) /\ q[1].t = "push"))
             \/ up'[s] = q \/ up'[s] = <<[t |-> "ready"]>> \/ (q # <<>> /\ up'[s] = <<q[1]>>)
    BY <1>2, <1>3, <1>4, <1>5, <2>1
  <2>2. CASE \E m \in AskFrame : m.t \in {"dial", "close"} /\ up'[s] = Append(q, m)
    BY <1>10, <2>2
  <2> QED
    BY <1>7, <1>8, <1>9, <2>1, <2>2, UpChange DEF Base
<1> QED
  BY <1>11

\* An acknowledgement on its way was there before, or the brain has just sent it.
LEMMA AcksStay ==
  ASSUME Base, [SNext]_vars, NEW s \in Sessions, NEW i \in 1 .. Len(up'[s]), up'[s][i].t = "ack"
  PROVE  \/ \E j \in 1 .. Len(up[s]) : up'[s][i] = up[s][j]
         \/ BrainAck(s) /\ up'[s][i].seq = cur.seq
<1> DEFINE q == up[s]
           Old == \E j \in 1 .. Len(q) : up'[s][i] = q[j]
<1>0. q \in Seq(AskFrame) /\ Len(q) \in Nat /\ i \in Nat /\ i >= 1 /\ up'[s] # <<>>
  BY UpFacts
<1>1. CASE up'[s] = q
  BY <1>1
<1>2. CASE up'[s] = <<[t |-> "ready"]>>
  <2>1. up'[s][i] = [t |-> "ready"]
    BY <1>2
  <2>2. up'[s][i].t = "ready"
    BY <2>1
  <2> QED
    BY <2>2
<1>3. CASE q # <<>> /\ up'[s] = Tail(q)
  <2>1. i + 1 \in 1 .. Len(q) /\ up'[s][i] = q[i + 1]
    BY <1>0, <1>3
  <2> QED
    BY <2>1
<1>4. CASE q # <<>> /\ up'[s] = <<q[1]>>
  <2>1. up'[s][i] = q[1] /\ 1 \in 1 .. Len(q)
    BY <1>0, <1>4
  <2> QED
    BY <2>1
<1>5. ASSUME NEW m \in AskFrame, up'[s] = Append(q, m)
      PROVE  up'[s][i] = m \/ Old
  BY <1>0, <1>5
<1>6. ASSUME NEW m \in AskFrame, m.t \in {"dial", "close"}, up'[s] = Append(q, m) PROVE Old
  BY <1>5, <1>6
<1>7. CASE BrainHandle(s) /\ lines[1].seq \in StateLines
           /\ up'[s] = Append(q, [t |-> "push", seq |-> lines[1].seq, epoch |-> lines[1].epoch])
  <2> DEFINE m == [t |-> "push", seq |-> lines[1].seq, epoch |-> lines[1].epoch]
  <2>1. m \in AskFrame /\ m.t # "ack" /\ up'[s] = Append(q, m)
    BY <1>7, BrainAsks DEF Base
  <2> HIDE DEF m
  <2> QED
    BY <1>5, <2>1
<1>8. CASE BrainAck(s) /\ up'[s] = Append(q, [t |-> "ack", seq |-> cur.seq])
  <2> DEFINE m == [t |-> "ack", seq |-> cur.seq]
  <2>1. m \in AskFrame /\ m.seq = cur.seq /\ up'[s] = Append(q, m)
    BY <1>8, BrainAsks DEF Base
  <2> HIDE DEF m
  <2> QED
    BY <1>5, <1>8, <2>1
<1>9. CASE \E m \in AskFrame : m.t \in {"dial", "close"} /\ up'[s] = Append(q, m)
  BY <1>6, <1>9
<1>10. CASE q # <<>> /\ up'[s] = Tail(q)
  BY <1>3, <1>10
<1> QED
  BY <1>0, <1>1, <1>2, <1>3, <1>4, <1>7, <1>8, <1>9, UpChange DEF Base

LEMMA AcksKept ==
  ASSUME Base, [SNext]_vars, Steady, NEW R, NEW Q, R \subseteq Q, AcksCov(R),
         \A s \in Sessions : BrainAck(s) => Cov(R, cur.seq)
  PROVE  \A s \in Sessions : \A i \in 1 .. Len(up'[s]) :
           up'[s][i].t = "ack" => Covered(conn', lineEpoch', Q, up'[s][i].seq)
<1> SUFFICES ASSUME NEW s \in Sessions, NEW i \in 1 .. Len(up'[s]), up'[s][i].t = "ack"
             PROVE  Covered(conn', lineEpoch', Q, up'[s][i].seq)
  OBVIOUS
<1>1. ASSUME NEW j \in 1 .. Len(up[s]), up'[s][i] = up[s][j]
      PROVE  Covered(conn', lineEpoch', Q, up'[s][i].seq)
  <2>1. up[s][j].t = "ack" /\ up[s][j].seq \in Int /\ up[s][j].seq <= seqCounter /\ Cov(R, up[s][j].seq)
    BY <1>1, UpFacts DEF AcksCov
  <2>2. Covered(conn', lineEpoch', Q, up[s][j].seq)
    BY <2>1, CovKept
  <2> QED
    BY <1>1, <2>2
<1>2. CASE BrainAck(s) /\ up'[s][i].seq = cur.seq
  <2>1. cur.seq \in Int /\ cur.seq <= seqCounter /\ Cov(R, cur.seq)
    BY <1>2 DEF BrainAck, Base, SInv, FrameTypes, Seqs, KnownFrames, Known
  <2>2. Covered(conn', lineEpoch', Q, cur.seq)
    BY <2>1, CovKept
  <2> QED
    BY <1>2, <2>2
<1> QED
  BY <1>1, <1>2, AcksStay

\* The watermark moves to what was acknowledged.
LEMMA WatermarkCov ==
  ASSUME Base, [SNext]_vars, Steady, NEW R, NEW Q, R \subseteq Q, AcksCov(R), Cov(R, deliveredSeq)
  PROVE  Covered(conn', lineEpoch', Q, deliveredSeq')
<1>0. seqCounter \in Nat /\ deliveredSeq \in Int /\ deliveredSeq <= seqCounter
  BY KeeperAssumption DEF Base, SInv, KeeperInv, TypeOK, KnownFrames
<1>1. Covered(conn', lineEpoch', Q, deliveredSeq)
  BY <1>0, CovKept
<1>2. ASSUME NEW s \in Sessions, HandleSeqAck(s) PROVE Covered(conn', lineEpoch', Q, deliveredSeq')
  <2>1. /\ up[s] # <<>> /\ up[s][1].t = "ack" /\ 1 \in 1 .. Len(up[s])
        /\ deliveredSeq' \in {deliveredSeq, up[s][1].seq}
    BY <1>2, UpFacts DEF HandleSeqAck, Request, AckSeq
  <2>2. Cov(R, up[s][1].seq) /\ up[s][1].seq \in Int /\ up[s][1].seq <= seqCounter
    BY <2>1, UpFacts DEF AcksCov
  <2>3. Covered(conn', lineEpoch', Q, up[s][1].seq)
    BY <2>2, CovKept
  <2> QED
    BY <1>1, <2>1, <2>3
<1> QED
  BY <1>1, <1>2, BlobKept

LEMMA StartCovStep ==
  ASSUME Base, [SNext]_vars, Steady, StartCov
  PROVE  StartCov'
<1> SUFFICES ASSUME brain'.pc = "hello", ~brain'.connected
             PROVE  /\ Covered(conn', lineEpoch', {}, deliveredSeq')
                    /\ \A s \in Sessions : \A i \in 1 .. Len(up'[s]) :
                         up'[s][i].t = "ack" => Covered(conn', lineEpoch', {}, up'[s][i].seq)
  BY DEF StartCov, AcksCov, Cov
<1>0. brain \in BrainState
  BY DEF Base, SessTypes
<1>1. brain' = brain
  <2>1. ASSUME NEW s \in Sessions, AttachHello(s) PROVE FALSE
    <3>1. brain'.connected = (conn # 0)
      BY <1>0, <2>1 DEF AttachHello, BrainState
    <3> QED
      BY <3>1 DEF Steady
  <2>2. ASSUME NEW s \in Sessions, BrainRecv(s) PROVE FALSE
    <3>1. \/ brain' = brain
          \/ \E n : brain' = [brain EXCEPT !.epoch = n]
          \/ \E b : brain' = [brain EXCEPT !.wantDial = b]
          \/ \E b : brain' = [brain EXCEPT !.closing = FALSE, !.wantDial = b]
      BY <2>2 DEF BrainRecv
    <3> QED
      BY <1>0, <2>2, <3>1 DEF BrainRecv, Running, BrainState
  <2>3. ASSUME NEW s \in Sessions, AttachAck(s) \/ BrainDetached(s) \/ BrainHandle(s) \/ BrainPushTimeout(s)
                                   \/ BrainAck(s) \/ BrainDial(s) \/ BrainReconnect(s)
        PROVE  FALSE
    BY <1>0, <2>3 DEF AttachAck, BrainDetached, BrainHandle, BrainPushTimeout, BrainAck, BrainDial,
                      BrainReconnect, Running, BrainState
  <2>4. BrainCrash => FALSE
    BY <1>0 DEF BrainCrash, Down, BrainState
  <2> QED
    BY <2>1, <2>2, <2>3, <2>4, BrainWho DEF BrainOwn, brainVars
<1>2. Cov({}, deliveredSeq) /\ AcksCov({})
  BY <1>1 DEF StartCov
<1>3. \A s \in Sessions : ~BrainAck(s)
  BY <1>1 DEF BrainAck, Running
<1> QED
  BY <1>2, <1>3, WatermarkCov, AcksKept

\* The brain runs on, or has just started to.
LEMMA RunWho ==
  ASSUME Base, [SNext]_vars
  PROVE  /\ brain'.pc = "run" => brain.pc = "run" \/ \E s \in Sessions : AttachAck(s)
         /\ \A s \in Sessions : Running(s)' => AttachAck(s) \/ Running(s)
<1>0. brain \in BrainState
  BY DEF Base, SessTypes
<1>1. ASSUME NEW s \in Sessions, BrainOwn(s), ~AttachAck(s), ~AttachHello(s)
      PROVE  brain.pc = "run" /\ brain'.sess = brain.sess
  <2>1. brain.pc = "run"
    BY <1>1 DEF BrainOwn, BrainRecv, BrainDetached, BrainHandle, BrainPushTimeout, BrainAck, BrainDial,
                BrainReconnect, Running
  <2>2. CASE BrainRecv(s)
    <3>1. \/ brain' = brain
          \/ \E n : brain' = [brain EXCEPT !.epoch = n]
          \/ \E b : brain' = [brain EXCEPT !.wantDial = b]
          \/ \E b : brain' = [brain EXCEPT !.closing = FALSE, !.wantDial = b]
      BY <2>2 DEF BrainRecv
    <3> QED
      BY <1>0, <2>1, <3>1 DEF BrainState
  <2>3. CASE ~BrainRecv(s)
    BY <1>0, <1>1, <2>1, <2>3 DEF BrainOwn, BrainDetached, BrainHandle, BrainPushTimeout, BrainAck, BrainDial,
                      BrainReconnect, BrainState
  <2> QED
    BY <2>1, <2>2, <2>3
<1>2. ASSUME NEW s \in Sessions, AttachAck(s) PROVE brain'.sess = s
  BY <1>0, <1>2 DEF AttachAck, BrainState
<1>3. ASSUME NEW s \in Sessions, AttachHello(s) PROVE brain'.pc = "hello"
  BY <1>0, <1>3 DEF AttachHello, BrainState
<1>4. BrainCrash => brain'.pc = "down"
  BY DEF BrainCrash, Down
<1>5. UNCHANGED brainVars => brain' = brain
  BY DEF brainVars
<1> QED
  BY <1>1, <1>2, <1>3, <1>4, <1>5, BrainWho DEF Running

\* A brain that has just attached starts from the blob, or from nothing.
LEMMA AttachedCov ==
  ASSUME Base, [SNext]_vars, Steady, BlobCov, UpCov, StartCov, NEW s \in Sessions, AttachAck(s)
  PROVE  KnowCov'
<1> DEFINE K == IF brain.connected THEN blob ELSE {}
<1>0. brain \in BrainState /\ up \in [Sessions -> Seq(AskFrame)] /\ blob \subseteq Entry /\ deliveredSeq \in Nat
      /\ deliveredSeq <= seqCounter
  BY KeeperAssumption DEF Base, SessTypes, SInv, FrameTypes, KeeperInv, TypeOK, KnownFrames
<1>1. /\ know' = K /\ brain.pc = "hello" /\ brain.sess = s /\ cur' = cur /\ deliveredSeq' = deliveredSeq
      /\ up' = [up EXCEPT ![s] = <<[t |-> "ready"]>>]
  BY <1>0 DEF AttachAck, keeperVars, streamVars
<1>2. cur'.pc = "idle"
  BY <1>1 DEF Base, Shape
<1>3. ASSUME NEW x \in K, x.epoch = conn PROVE Covered(conn', lineEpoch', K, x.seq - 1)
  <2>1. x \in blob /\ K = blob
    BY <1>3
  <2>2. Cov(blob, x.seq - 1)
    BY <1>3, <2>1 DEF BlobCov
  <2>3. x.seq - 1 \in Int /\ x.seq - 1 <= seqCounter
    BY <1>0, <2>1, KeeperAssumption DEF Base, KnownFrames, Known, Entry, Seqs, SInv, KeeperInv, TypeOK
  <2> HIDE DEF K
  <2> QED
    BY <2>1, <2>2, <2>3, CovKept
<1>4. Covered(conn', lineEpoch', K, deliveredSeq)
  <2>1. Cov(K, deliveredSeq)
    BY <1>1 DEF BlobCov, StartCov
  <2> HIDE DEF K
  <2> QED
    BY <1>0, <2>1, CovKept
<1>5. ASSUME NEW r \in Sessions, NEW i \in 1 .. Len(up'[r]), up'[r][i].t = "ack"
      PROVE  Covered(conn', lineEpoch', K, up'[r][i].seq)
  <2>1. CASE r = s
    <3>1. up'[r][i] = [t |-> "ready"]
      BY <1>0, <1>1, <2>1
    <3>2. up'[r][i].t = "ready"
      BY <3>1
    <3> QED
      BY <1>5, <3>2
  <2>2. CASE r # s
    <3>1. up'[r] = up[r]
      BY <1>0, <1>1, <2>2
    <3>2. sess[r].pc \in {"none", "closing"}
      BY <1>1, <2>2 DEF Base, Shape, SessTypes, SessState
    <3>3. up[r] # <<>> /\ Len(up[r]) <= 1
      BY <1>5, <3>1, <3>2 DEF Base, Shape
    <3>4. i = 1
      BY <1>5, <3>1, <3>3, UpFacts
    <3>5. up[r][1].seq \in Int /\ up[r][1].seq <= seqCounter
      BY <1>5, <3>1, <3>4, UpFacts
    <3>6. Cov(blob \cup Of(up[r], "push", 1 - 1), up[r][1].seq)
      BY <1>5, <3>1, <3>4 DEF UpCov
    <3>7. Cov(blob, up[r][1].seq)
      BY <3>6, OfNone
    <3>8. Cov(K, up[r][1].seq)
      BY <1>1, <1>5, <3>1, <3>4, <3>7 DEF StartCov, AcksCov
    <3>9. Covered(conn', lineEpoch', K, up[r][1].seq)
      <4> HIDE DEF K
      <4> QED
        BY <3>5, <3>8, CovKept
    <3> QED
      BY <3>1, <3>4, <3>9
  <2> QED
    BY <2>1, <2>2
<1> HIDE DEF K
<1>6. \A x \in know' : x.epoch = conn' => Covered(conn', lineEpoch', know', x.seq - 1)
  BY <1>1, <1>3 DEF Steady
<1>7. Covered(conn', lineEpoch', know', deliveredSeq')
  BY <1>1, <1>4
<1>8. \A r \in Sessions : \A i \in 1 .. Len(up'[r]) :
        up'[r][i].t = "ack" => Covered(conn', lineEpoch', know', up'[r][i].seq)
  BY <1>1, <1>5
<1> QED
  BY <1>2, <1>6, <1>7, <1>8 DEF KnowCov, AcksCov, Cov

\* The next line of a brain that runs.
LEMMA NextLine ==
  ASSUME Base, PipeCov, NEW s \in Sessions, Running(s), lines # <<>>
  PROVE  /\ lines[1] \in Entry /\ Known(lines[1])
         /\ Cov(know, lines[1].seq - 1)
         /\ Cov(know \cup {lines[1]}, lines[1].seq)
<1>1. lines \in Seq(Entry)
  BY DEF Base, SInv, FrameTypes
<1>2. 1 \in 1 .. Len(lines) /\ lines[1] \in Entry
  BY <1>1
<1>3. Known(lines[1])
  BY <1>2 DEF Base, KnownFrames
<1>4. Cov(know \cup First(lines, 1 - 1), lines[1].seq - 1)
  BY <1>2 DEF PipeCov, LinesCov
<1>5. Cov(know, lines[1].seq - 1)
  BY <1>4, OfNone
<1> QED
  BY <1>2, <1>3, <1>5, CovNext

\* What a brain knows it does not forget, but when it dies or attaches.
LEMMA KnowGrows ==
  ASSUME Base, [SNext]_vars, \A s \in Sessions : ~AttachAck(s), ~BrainCrash
  PROVE  know \subseteq know'
BY KnowChange DEF Base

LEMMA KnowCovStep ==
  ASSUME Base, [SNext]_vars, Steady, BlobCov, UpCov, StartCov, KnowCov, PipeCov
  PROVE  KnowCov'
<1>0. know \subseteq Entry /\ brain \in BrainState
  BY DEF Base, SessTypes
<1>1. CASE \E s \in Sessions : AttachAck(s)
  BY <1>1, AttachedCov
<1>2. CASE BrainCrash
  <2>1. know' = {} /\ brain'.pc = "down"
    BY <1>2 DEF BrainCrash, Down
  <2> QED
    BY <2>1 DEF KnowCov
<1>3. CASE ~BrainCrash /\ \A s \in Sessions : ~AttachAck(s)
  <2>1. know \subseteq know'
    BY <1>3, KnowGrows
  <2>2. ASSUME NEW x \in Entry, Known(x), Cov(know, x.seq - 1)
        PROVE  Covered(conn', lineEpoch', know', x.seq - 1)
    <3>1. x.seq - 1 \in Int /\ x.seq - 1 <= seqCounter
      BY <2>2, KeeperAssumption DEF Base, Known, Entry, Seqs, SInv, KeeperInv, TypeOK
    <3> QED
      BY <2>1, <2>2, <3>1, CovKept
  <2>3. ASSUME NEW x \in know', x.epoch = conn' PROVE Covered(conn', lineEpoch', know', x.seq - 1)
    <3>1. CASE x \in know
      <4>1. x \in Entry /\ Known(x) /\ Cov(know, x.seq - 1)
        BY <1>0, <2>3, <3>1 DEF Base, KnownFrames, KnowCov, Steady
      <4> QED
        BY <2>2, <4>1
    <3>2. CASE x \notin know
      <4>1. PICK s \in Sessions : BrainHandle(s) /\ lines # <<>> /\ x = lines[1]
        BY <1>3, <2>3, <3>2, KnowChange DEF Base
      <4>2. Running(s)
        BY <4>1 DEF BrainHandle
      <4> QED
        BY <2>2, <4>1, <4>2, NextLine
    <3> QED
      BY <3>1, <3>2
  <2>4. ASSUME brain'.pc = "run"
        PROVE  /\ Covered(conn', lineEpoch', know', deliveredSeq')
               /\ \A r \in Sessions : \A i \in 1 .. Len(up'[r]) :
                    up'[r][i].t = "ack" => Covered(conn', lineEpoch', know', up'[r][i].seq)
    <3>1. brain.pc = "run"
      BY <1>3, <2>4, RunWho
    <3>2. Cov(know, deliveredSeq) /\ AcksCov(know)
      BY <3>1 DEF KnowCov
    <3>3. \A s \in Sessions : BrainAck(s) => Cov(know, cur.seq)
      BY <3>1 DEF KnowCov, BrainAck
    <3> QED
      BY <2>1, <3>2, <3>3, AcksKept, WatermarkCov
  <2>5. ASSUME brain'.pc = "run", cur'.pc # "idle" PROVE Covered(conn', lineEpoch', know', cur'.seq)
    <3>1. brain.pc = "run"
      BY <1>3, <2>5, RunWho
    <3>2. CASE cur.pc # "idle" /\ cur'.seq = cur.seq
      <4>1. Cov(know, cur.seq) /\ cur.seq \in Int /\ cur.seq <= seqCounter
        BY <3>1, <3>2 DEF KnowCov, Base, SInv, FrameTypes, Seqs, KnownFrames, Known
      <4>2. Covered(conn', lineEpoch', know', cur.seq)
        BY <2>1, <4>1, CovKept
      <4> QED
        BY <3>2, <4>2
    <3>3. ASSUME NEW s \in Sessions, BrainHandle(s), lines # <<>>, cur'.seq = lines[1].seq
          PROVE  Covered(conn', lineEpoch', know', cur'.seq)
      <4>1. Running(s) /\ know' = know \cup {lines[1]}
        BY <3>3, BrainAsks DEF BrainHandle, Base
      <4>2. Cov(know', lines[1].seq) /\ Known(lines[1]) /\ lines[1] \in Entry
        BY <3>3, <4>1, NextLine
      <4>3. lines[1].seq \in Int /\ lines[1].seq <= seqCounter
        BY <4>2 DEF Known, Entry, Seqs
      <4>4. Covered(conn', lineEpoch', know', lines[1].seq)
        BY <4>2, <4>3, CovKept
      <4> QED
        BY <3>3, <4>4
    <3> QED
      BY <2>5, <3>2, <3>3, KnowChange DEF Base
  <2> QED
    BY <2>3, <2>4, <2>5 DEF KnowCov, AcksCov, Cov
<1> QED
  BY <1>1, <1>2, <1>3

-----------------------------------------------------------------------------
(* The ways of losing a line.                                              *)

\* The code can lose a line in three ways, each of which breaks ResumeComplete; a
\* step is careful that takes none of them.

\* A fan-in that may read a feed that has overflowed sends nothing from it: the
\* select of fanInNetwork picks the overflow signal, not the line behind the gap.
HeedsOverflow(s) == MayReadOverflowed(s) => feed'[s] = feed[s]

\* A line that Driver.Run receives finds room in Driver.lines: handleLine drops
\* it when the demux is behind.
KeepsUp(s) == BrainRecv(s) /\ Head(wire[s]).t = "line" => lines' # lines

\* A fan-in that catches up from the start of the ring (the watermark is 0) finds
\* every line of the connection there: since tells no gap before the first entry.
StartsWhole(s) ==
  FanCatchUp(s) /\ fan[s].lastSent = 0 /\ ring # <<>> =>
    \A n \in StateLines : n < ring[1].seq => lineEpoch[n] # conn

Careful(s) == HeedsOverflow(s) /\ KeepsUp(s) /\ StartsWhole(s)

\* Nothing that was on its way is lost.
LEMMA Flow ==
  ASSUME Base, [SNext]_vars, \A s \in Sessions : ~AttachAck(s), ~BrainCrash
  PROVE  Has \subseteq Has'
<1>0. lines \in Seq(Entry) /\ Len(lines) \in Nat
  BY DEF Base, SInv, FrameTypes
<1>1. know \subseteq know'
  BY KnowGrows
<1>2. CASE lines' = lines
  BY <1>1, <1>2 DEF Has, Got
<1>3. ASSUME NEW x \in Entry, lines' = Append(lines, x) PROVE Has \subseteq Has' /\ x \in Has'
  <2>1. Len(lines') = Len(lines) + 1
    BY <1>0, <1>3
  <2>2. First(lines', Len(lines')) = First(lines, Len(lines)) \cup {x}
    BY <1>0, <1>3, <2>1, FirstAppend
  <2> QED
    BY <1>1, <2>2 DEF Has, Got
<1>4. ASSUME NEW s \in Sessions, BrainHandle(s), lines # <<>>, lines' = Tail(lines) PROVE Has \subseteq Has'
  <2>1. Len(lines) - 1 \in 0 .. Len(lines) - 1 /\ (Len(lines) - 1) + 1 = Len(lines) /\ Len(lines') = Len(lines) - 1
    BY <1>0, <1>4, HeadTail
  <2>2. First(lines, (Len(lines) - 1) + 1) = {lines[1]} \cup First(Tail(lines), Len(lines) - 1)
    BY <1>0, <1>4, <2>1, FirstTail
  <2>3. First(lines, Len(lines)) = {lines[1]} \cup First(lines', Len(lines'))
    BY <1>4, <2>1, <2>2
  <2>4. lines[1] \in know'
    BY <1>4, BrainAsks DEF BrainHandle, Base
  <2> QED
    BY <1>1, <2>3, <2>4 DEF Has, Got
<1> QED
  BY <1>2, <1>3, <1>4, LinesChange DEF Base

\* A line that is received is among those.
LEMMA Received ==
  ASSUME Base, [SNext]_vars, NEW s \in Sessions, KeepsUp(s), BrainRecv(s), wire[s][1].t = "line"
  PROVE  Item(wire[s][1]) \in Has'
<1>0. lines \in Seq(Entry) /\ Len(lines) \in Nat /\ wire[s] \in Seq(SentFrame) /\ wire[s] # <<>>
      /\ Head(wire[s]) = wire[s][1] /\ wire[s][1] \in SentFrame
  BY HeadTail DEF Base, SInv, FrameTypes, BrainRecv
<1>1. lines' = Append(lines, Item(wire[s][1]))
  <2>1. lines' # lines
    BY <1>0 DEF KeepsUp
  <2> QED
    BY <1>0, <2>1 DEF BrainRecv, Item
<1>2. Item(wire[s][1]) \in Entry
  BY <1>0 DEF SentFrame, Item, Entry
<1>3. Len(lines') = Len(lines) + 1
  BY <1>0, <1>1, <1>2
<1>4. First(lines', Len(lines')) = First(lines, Len(lines)) \cup {Item(wire[s][1])}
  <2>1. PICK x : x = Item(wire[s][1])
    OBVIOUS
  <2>2. x \in Entry /\ lines' = Append(lines, x) /\ Len(lines') = Len(lines) + 1
    BY <1>1, <1>2, <1>3, <2>1
  <2>3. First(Append(lines, x), Len(lines) + 1) = First(lines, Len(lines)) \cup {x}
    BY <1>0, <2>2, FirstAppend
  <2> QED
    BY <2>1, <2>2, <2>3
<1> QED
  BY <1>4 DEF Has, Got

\* Of the lines that are in the keeper, a fan-in that catches up has sent those
\* that the brain needs, or sends them.
LEMMA Backlog ==
  ASSUME Base, NEW s \in Sessions, StartsWhole(s), FanCatchUp(s), SinceOK(ring, fan[s].lastSent),
         NEW n \in StateLines, lineEpoch[n] = conn, n <= Pushed, n > fan[s].lastSent
  PROVE  \E j \in 1 .. Len(Since(ring, fan[s].lastSent)) :
           Since(ring, fan[s].lastSent)[j] = [seq |-> n, epoch |-> conn]
<1> DEFINE a == fan[s].lastSent
<1>1. /\ ring \in Seq(Entry) /\ EndsAt(ring, Pushed) /\ Pushed \in Nat /\ a \in Nat /\ n \in Nat /\ n >= 1
      /\ ring = <<>> => Pushed = 0
  <2>1. SInv
    BY DEF Base
  <2>2. Pushed \in Nat /\ a \in Nat
    BY <2>1, FanFacts
  <2>3. ring \in Seq(Entry) /\ EndsAt(ring, Pushed) /\ (ring = <<>> => Pushed = 0)
    BY <2>1 DEF SInv, StreamInv, RingAtHead, KeeperInv, TypeOK
  <2>4. n \in Nat /\ n >= 1
    BY LiveSessionAssumption DEF Seqs
  <2> QED
    BY <2>2, <2>3, <2>4
<1>2. ring # <<>> /\ Len(ring) \in Nat /\ Len(ring) >= 1
  BY <1>1
<1>3. ring[1] \in Entry /\ ring[1].seq \in Nat /\ ring[1].seq + Len(ring) = Pushed + 1
  <2>1. 1 \in 1 .. Len(ring) /\ ring[1] \in Entry
    BY <1>1, <1>2
  <2>2. ring[1].seq + Len(ring) = Pushed + 1
    BY <1>1, <2>1 DEF EndsAt
  <2> QED
    BY <2>1, <2>2 DEF Entry, Seqs
<1>4. ring[1].seq <= n
  <2>1. CASE a = 0
    BY <1>1, <1>2, <1>3, <2>1 DEF StartsWhole
  <2>2. CASE a # 0
    BY <1>1, <1>2, <1>3, <2>2 DEF SinceOK
  <2> QED
    BY <2>1, <2>2
<1>5. PICK i \in 1 .. Len(ring) : i = n + Len(ring) - Pushed
  <2>1. n + Len(ring) - Pushed \in 1 .. Len(ring)
    BY <1>1, <1>2, <1>3, <1>4
  <2> QED
    BY <2>1
<1>6. ring[i] \in Entry /\ ring[i].seq + Len(ring) = Pushed + i
  BY <1>1, <1>5 DEF EndsAt
<1>7. ring[i].seq = n
  BY <1>1, <1>2, <1>5, <1>6 DEF Entry, Seqs
<1>8. Known(ring[i])
  BY <1>1, <1>5 DEF Base, KeeperLinesKnown
<1>9. ring[i] = [seq |-> n, epoch |-> conn]
  BY <1>6, <1>7, <1>8 DEF Known, Entry
<1>10. i \in DOMAIN ring
  BY <1>1, <1>5
<1>11. \A k \in DOMAIN ring : ring[k].seq > a => \E j \in 1 .. Len(Since(ring, a)) : Since(ring, a)[j] = ring[k]
  BY <1>1, SinceIsRest
<1> QED
  BY <1>7, <1>9, <1>10, <1>11

LEMMA CovLess ==
  ASSUME NEW R, NEW v \in Int, NEW w \in Int, v <= w, Cov(R, w)
  PROVE  Cov(R, v)
<1>1. \A n \in StateLines : n \in Int
  BY LiveSessionAssumption DEF Seqs
<1> QED
  BY <1>1 DEF Cov, Covered

\* The lines of a backlog, sent behind what is on its way.
LEMMA OfBacklog ==
  ASSUME NEW q \in Seq(SentFrame), NEW b \in Seq(Entry), LineMsgs(b) \in Seq(SentFrame), NEW k \in 0 .. Len(b)
  PROVE  AllOf(q, "line") \cup First(b, k) \subseteq Of(q \o LineMsgs(b), "line", Len(q) + k)
<1> DEFINE p == LineMsgs(b)
<1>1. /\ Len(q) \in Nat /\ Len(b) \in Nat /\ Len(p) = Len(b)
      /\ \A j \in 1 .. Len(b) : p[j] = LineMsg(b[j]) /\ b[j] \in Entry
  BY DEF LineMsgs
<1>2. p \in Seq(SentFrame)
  OBVIOUS
<1> HIDE DEF p
<1>3. /\ \A j \in 1 .. Len(q) : (q \o p)[j] = q[j]
      /\ \A j \in 1 .. Len(p) : (q \o p)[Len(q) + j] = p[j]
  BY <1>2
<1>4. ASSUME NEW x \in AllOf(q, "line") PROVE x \in Of(q \o p, "line", Len(q) + k)
  <2>1. PICK j \in 1 .. Len(q) : q[j].t = "line" /\ x = Item(q[j])
    BY OfIs DEF AllOf
  <2>2. j \in 1 .. Len(q) + k /\ (q \o p)[j] = q[j]
    BY <1>1, <1>3
  <2> QED
    BY <2>1, <2>2, OfIs
<1>5. ASSUME NEW x \in First(b, k) PROVE x \in Of(q \o p, "line", Len(q) + k)
  <2>1. PICK j \in 1 .. k : x = b[j]
    BY DEF First
  <2>2. j \in 1 .. Len(b) /\ Len(q) + j \in 1 .. Len(q) + k
    BY <1>1
  <2>3. (q \o p)[Len(q) + j] = LineMsg(x) /\ x \in Entry
    BY <1>1, <1>3, <2>1, <2>2
  <2>4. PICK i : i = Len(q) + j
    OBVIOUS
  <2>5. LineMsg(x).t = "line" /\ Item(LineMsg(x)) = x
    BY <2>3 DEF LineMsg, Item, Entry
  <2>6. i \in 1 .. Len(q) + k /\ (q \o p)[i].t = "line" /\ x = Item((q \o p)[i])
    BY <2>2, <2>3, <2>4, <2>5
  <2> QED
    BY <2>6, OfIs
<1> QED
  BY <1>4, <1>5 DEF p

\* What covers the lines before the next one of a feed.
LEMMA TakenCov ==
  ASSUME Base, NEW s \in Sessions, FanCov(s), HeedsOverflow(s), FanLine(s) \/ FanDrain(s)
  PROVE  LET y == Head(lineSub[Sub(s)].q)
         IN  /\ y \in Entry /\ Known(y)
             /\ Cov(Has \cup AllOf(wire[s], "line"), y.seq - 1)
<1> DEFINE q == lineSub[Sub(s)].q
           y == Head(q)
           w == fan[s].lastSent
<1>0. SInv /\ fan[s].pc \in {"loop", "drain"} /\ FanTake(s) /\ q # <<>>
  BY DEF FanLine, FanDrain, FanAt, FanTake, RecvLine, Base
<1>1. y \in Entry /\ Known(y)
  BY <1>0, FeedHead DEF Base
<1>2. w \in Nat /\ feed \in [Sessions -> Seq(Seqs)]
  BY <1>0, FanFacts DEF SInv, FanTypes
<1>3. y = q[1]
  <2>1. PICK k \in {0, 1} : Sub(s) = <<s, k>>
    BY <1>0, FanFacts
  <2>2. q \in Seq(Entry)
    BY <1>0, <2>1, FanFacts
  <2> QED
    BY <1>0, <2>2
<1>4. y.seq \in Nat
  BY <1>1 DEF Entry, Seqs
<1>5. y.seq - 1 <= w
  <2>1. CASE y.seq <= w
    BY <1>2, <1>4, <2>1
  <2>2. CASE ~(y.seq <= w)
    <3>1. feed' = [feed EXCEPT ![s] = Append(@, y.seq)]
      BY <1>0, <2>2 DEF FanTake
    <3>2. feed'[s] = Append(feed[s], y.seq) /\ feed[s] \in Seq(Seqs) /\ y.seq \in Seqs
      BY <1>1, <1>2, <3>1 DEF Entry
    <3>3. feed'[s] # feed[s]
      <4>1. Len(feed'[s]) = Len(feed[s]) + 1 /\ Len(feed[s]) \in Nat
        BY <3>2
      <4> QED
        BY <4>1
    <3>4. ~lineSub[Sub(s)].over
      BY <1>0, <3>3 DEF HeedsOverflow, MayReadOverflowed
    <3>5. FanInStep(s)
      BY <1>0, FanFacts
    <3>6. y.seq <= w + 1
      BY <1>0, <1>3, <3>4, <3>5 DEF FanInStep, InStep
    <3> QED
      BY <1>2, <1>4, <3>6
  <2> QED
    BY <2>1, <2>2
<1>6. Cov(Has \cup AllOf(wire[s], "line"), w)
  BY <1>0 DEF FanCov
<1>7. Cov(Has \cup AllOf(wire[s], "line"), y.seq - 1)
  <2>1. y.seq - 1 \in Int /\ w \in Int
    BY <1>2, <1>4
  <2> HIDE DEF y, w
  <2> QED
    BY <1>5, <1>6, <2>1, CovLess
<1> QED
  BY <1>1, <1>7

\* What covers the lines before each of a backlog, and up to its last.
LEMMA BacklogCov ==
  ASSUME Base, NEW s \in Sessions, FanCov(s), StartsWhole(s), FanCatchUp(s), SinceOK(ring, fan[s].lastSent)
  PROVE  LET b == Since(ring, fan[s].lastSent)
             A == Has \cup AllOf(wire[s], "line")
         IN  /\ \A k \in 1 .. Len(b) : Cov(A \cup First(b, k - 1), b[k].seq - 1)
             /\ b # <<>> => Cov(A \cup First(b, Len(b)), LastSeq(b))
<1> DEFINE b == Since(ring, fan[s].lastSent)
           A == Has \cup AllOf(wire[s], "line")
<1>1. ring \in Seq(Entry) /\ EndsAt(ring, Pushed) /\ Pushed \in Nat /\ fan[s].lastSent \in Nat
  <2>1. SInv
    BY DEF Base
  <2> QED
    BY <2>1, FanFacts DEF SInv, StreamInv, RingAtHead, KeeperInv, TypeOK
<1>2. b \in Seq(Entry) /\ EndsAt(b, Pushed) /\ (b # <<>> => LastSeq(b) = Pushed)
  BY <1>1, SinceIsRest
<1>3. Cov(A, fan[s].lastSent)
  BY DEF FanCov, FanCatchUp, FanAt
<1>4. ASSUME NEW n \in StateLines, lineEpoch[n] = conn, n <= Pushed, n > fan[s].lastSent
      PROVE  \E j \in 1 .. Len(b) : b[j] = [seq |-> n, epoch |-> conn]
  BY <1>4, Backlog
<1>5. \A n \in StateLines : n \in Nat
  BY LiveSessionAssumption DEF Seqs
<1> HIDE DEF b, A
<1>6. Len(b) \in Nat /\ \A j \in 1 .. Len(b) : b[j].seq \in Nat /\ b[j].seq + Len(b) = Pushed + j
  <2>1. Len(b) \in Nat /\ \A j \in 1 .. Len(b) : b[j] \in Entry
    BY <1>2
  <2>2. \A j \in 1 .. Len(b) : b[j].seq \in Nat
    BY <2>1 DEF Entry, Seqs
  <2> QED
    BY <1>2, <2>1, <2>2 DEF EndsAt
<1>7. ASSUME NEW k \in 1 .. Len(b) PROVE Cov(A \cup First(b, k - 1), b[k].seq - 1)
  <2> SUFFICES ASSUME conn # 0, NEW n \in StateLines, n <= b[k].seq - 1, lineEpoch[n] = conn
               PROVE  [seq |-> n, epoch |-> conn] \in A \cup First(b, k - 1)
    BY DEF Cov, Covered
  <2>1. CASE n <= fan[s].lastSent
    BY <1>3, <2>1 DEF Cov, Covered
  <2>2. CASE ~(n <= fan[s].lastSent)
    <3>1. n <= Pushed /\ n > fan[s].lastSent
      BY <1>1, <1>5, <1>6, <2>2, SMTT(30)
    <3>2. PICK j \in 1 .. Len(b) : b[j] = [seq |-> n, epoch |-> conn]
      BY <1>4, <3>1
    <3>3. b[j].seq = n
      BY <3>2
    <3>4. j \in 1 .. k - 1
      <4>1. b[j].seq + Len(b) = Pushed + j /\ b[k].seq + Len(b) = Pushed + k /\ b[k].seq \in Nat
        BY <1>6
      <4>2. n \in Nat /\ j \in Nat /\ k \in Nat /\ Len(b) \in Nat
        BY <1>5, <1>6
      <4> QED
        BY <1>1, <3>3, <4>1, <4>2, SMTT(30)
    <3> QED
      BY <3>2, <3>4 DEF First
  <2> QED
    BY <2>1, <2>2
<1>8. ASSUME b # <<>> PROVE Cov(A \cup First(b, Len(b)), LastSeq(b))
  <2> SUFFICES ASSUME conn # 0, NEW n \in StateLines, n <= Pushed, lineEpoch[n] = conn
               PROVE  [seq |-> n, epoch |-> conn] \in A \cup First(b, Len(b))
    BY <1>2, <1>8 DEF Cov, Covered
  <2>1. CASE n <= fan[s].lastSent
    BY <1>3, <2>1 DEF Cov, Covered
  <2>2. CASE ~(n <= fan[s].lastSent)
    <3>1. n > fan[s].lastSent
      BY <1>1, <1>5, <2>2
    <3>2. PICK j \in 1 .. Len(b) : b[j] = [seq |-> n, epoch |-> conn]
      BY <1>4, <3>1
    <3> QED
      BY <3>2 DEF First
  <2> QED
    BY <2>1, <2>2
<1> QED
  BY <1>7, <1>8 DEF b, A

\* The frames to the brain.
LEMMA WireFacts ==
  ASSUME Base, NEW s \in Sessions
  PROVE  /\ wire[s] \in Seq(SentFrame) /\ Len(wire[s]) \in Nat
         /\ wire[s] # <<>> => Head(wire[s]) = wire[s][1] /\ 1 \in 1 .. Len(wire[s])
         /\ \A i \in 1 .. Len(wire[s]) : wire[s][i].t = "line" =>
              /\ wire[s][i].seq - 1 \in Int /\ wire[s][i].seq - 1 <= seqCounter
              /\ Item(wire[s][i]) \in Entry
<1>1. wire[s] \in Seq(SentFrame) /\ seqCounter \in Nat
  BY KeeperAssumption DEF Base, SInv, FrameTypes, KeeperInv, TypeOK
<1>2. \A i \in 1 .. Len(wire[s]) : wire[s][i] \in SentFrame
  BY <1>1
<1>3. \A m \in SentFrame : m.t = "line" => m.seq \in Nat /\ Item(m) \in Entry
  BY DEF SentFrame, Seqs, Item, Entry
<1>4. ASSUME NEW i \in 1 .. Len(wire[s]), wire[s][i].t = "line"
      PROVE  /\ wire[s][i].seq - 1 \in Int /\ wire[s][i].seq - 1 <= seqCounter
             /\ Item(wire[s][i]) \in Entry
  BY <1>1, <1>2, <1>3, <1>4 DEF Base, KnownFrames, Known
<1> QED
  BY <1>1, <1>4

\* The lines in the brain.
LEMMA LinesCovStep ==
  ASSUME Base, [SNext]_vars, Steady, NEW s \in Sessions, Running(s), LinesCov, WireCov(s),
         \A r \in Sessions : ~AttachAck(r), ~BrainCrash
  PROVE  LinesCov'
<1>0. lines \in Seq(Entry) /\ Len(lines) \in Nat /\ seqCounter \in Nat /\ know \subseteq know'
  BY KnowGrows, KeeperAssumption DEF Base, SInv, FrameTypes, KeeperInv, TypeOK
<1> SUFFICES ASSUME NEW i \in 1 .. Len(lines')
             PROVE  Covered(conn', lineEpoch', know' \cup First(lines', i - 1), lines'[i].seq - 1)
  BY DEF LinesCov, Cov
<1>1. ASSUME NEW x \in Entry, Known(x), NEW R, R \subseteq know' \cup First(lines', i - 1),
             Cov(R, x.seq - 1), lines'[i] = x
      PROVE  Covered(conn', lineEpoch', know' \cup First(lines', i - 1), lines'[i].seq - 1)
  <2>1. x.seq - 1 \in Int /\ x.seq - 1 <= seqCounter
    BY <1>0, <1>1 DEF Known, Entry, Seqs
  <2>2. Covered(conn', lineEpoch', know' \cup First(lines', i - 1), x.seq - 1)
    BY <1>1, <2>1, CovKept
  <2> QED
    BY <1>1, <2>2
<1>2. ASSUME NEW j \in 1 .. Len(lines), lines'[i] = lines[j],
             know \cup First(lines, j - 1) \subseteq know' \cup First(lines', i - 1)
      PROVE  Covered(conn', lineEpoch', know' \cup First(lines', i - 1), lines'[i].seq - 1)
  <2>1. lines[j] \in Entry /\ Known(lines[j])
    BY <1>0 DEF Base, KnownFrames
  <2>2. Cov(know \cup First(lines, j - 1), lines[j].seq - 1)
    BY DEF LinesCov
  <2> QED
    BY <1>1, <1>2, <2>1, <2>2
<1>3. CASE lines' = lines
  BY <1>0, <1>2, <1>3
<1>4. ASSUME NEW r \in Sessions, BrainRecv(r), wire[r] # <<>>, wire[r][1].t = "line",
             NEW x \in Entry, x = Item(wire[r][1]), lines' = Append(lines, x)
      PROVE  Covered(conn', lineEpoch', know' \cup First(lines', i - 1), lines'[i].seq - 1)
  <2>1. CASE i \in 1 .. Len(lines)
    <3>1. lines'[i] = lines[i] /\ i - 1 \in 0 .. Len(lines)
      BY <1>0, <1>4, <2>1
    <3>2. First(lines', i - 1) = First(lines, i - 1)
      BY <1>0, <1>4, <3>1, FirstAppend
    <3> QED
      BY <1>0, <1>2, <2>1, <3>1, <3>2
  <2>2. CASE i \notin 1 .. Len(lines)
    <3>1. i - 1 = Len(lines) /\ lines'[i] = x /\ Len(lines) \in 0 .. Len(lines)
      BY <1>0, <1>4, <2>2
    <3>2. First(lines', i - 1) = First(lines, Len(lines))
      BY <1>0, <1>4, <3>1, FirstAppend
    <3>3. r = s
      BY <1>4 DEF BrainRecv, Running
    <3>4. 1 \in 1 .. Len(wire[s])
      BY <1>4, <3>3, WireFacts
    <3>5. Cov(Has \cup Of(wire[s], "line", 1 - 1), wire[s][1].seq - 1) /\ Known(wire[s][1])
      BY <1>4, <3>3, <3>4 DEF WireCov, Base, KnownFrames
    <3>6. Cov(Has, x.seq - 1) /\ Known(x)
      <4>1. x.seq = wire[s][1].seq /\ x.epoch = wire[s][1].epoch
        BY <1>4, <3>3 DEF Item
      <4> QED
        BY <3>5, <4>1, OfNone DEF Known
    <3>7. Has \subseteq know' \cup First(lines', i - 1)
      BY <1>0, <3>2 DEF Has, Got
    <3> QED
      BY <1>1, <3>1, <3>6, <3>7
  <2> QED
    BY <2>1, <2>2
<1>5. ASSUME NEW r \in Sessions, BrainHandle(r), lines # <<>>, lines' = Tail(lines)
      PROVE  Covered(conn', lineEpoch', know' \cup First(lines', i - 1), lines'[i].seq - 1)
  <2>1. i + 1 \in 1 .. Len(lines) /\ lines'[i] = lines[i + 1] /\ i - 1 \in 0 .. Len(lines) - 1
        /\ (i + 1) - 1 = (i - 1) + 1
    BY <1>0, <1>5
  <2>2. First(lines, (i - 1) + 1) = {lines[1]} \cup First(lines', i - 1)
    BY <1>0, <1>5, <2>1, FirstTail
  <2>3. lines[1] \in know'
    BY <1>5, BrainAsks DEF BrainHandle, Base
  <2>4. know \cup First(lines, (i + 1) - 1) \subseteq know' \cup First(lines', i - 1)
    BY <1>0, <2>1, <2>2, <2>3
  <2> QED
    BY <1>2, <2>1, <2>4
<1> QED
  BY <1>3, <1>4, <1>5, LinesChange DEF Base

\* The lines sent to it.
LEMMA WireCovStep ==
  ASSUME Base, [SNext]_vars, Steady, NEW s \in Sessions, WireCov(s), FanCov(s), Careful(s),
         \A r \in Sessions : ~AttachAck(r), ~BrainCrash
  PROVE  /\ WireCov(s)'
         /\ Has \cup AllOf(wire[s], "line") \subseteq Has' \cup AllOf(wire'[s], "line")
<1> DEFINE q == wire[s]
           q1 == wire'[s]
           C(i) == Covered(conn', lineEpoch', Has' \cup Of(q1, "line", i - 1), q1[i].seq - 1)
           W == \A i \in 1 .. Len(q1) : q1[i].t = "line" => C(i)
           F == Has \cup AllOf(q, "line") \subseteq Has' \cup AllOf(q1, "line")
<1>0. q \in Seq(SentFrame) /\ Len(q) \in Nat /\ Has \subseteq Has' /\ seqCounter \in Nat
  BY Flow, WireFacts, KeeperAssumption DEF Base, SInv, KeeperInv, TypeOK
<1>1. ASSUME NEW i \in 1 .. Len(q1), NEW j \in 1 .. Len(q), q1[i] = q[j], q[j].t = "line",
             Has \cup Of(q, "line", j - 1) \subseteq Has' \cup Of(q1, "line", i - 1)
      PROVE  C(i)
  <2>1. q[j].seq - 1 \in Int /\ q[j].seq - 1 <= seqCounter /\ Cov(Has \cup Of(q, "line", j - 1), q[j].seq - 1)
    BY <1>1, WireFacts DEF WireCov
  <2> HIDE DEF q, q1
  <2>2. Covered(conn', lineEpoch', Has' \cup Of(q1, "line", i - 1), q[j].seq - 1)
    BY <1>1, <2>1, CovKept
  <2> QED
    BY <1>1, <2>2
<1>2. ASSUME NEW i \in 1 .. Len(q1), NEW x \in Entry, Known(x), q1[i].seq = x.seq, NEW R, Cov(R, x.seq - 1),
             R \subseteq Has' \cup Of(q1, "line", i - 1)
      PROVE  C(i)
  <2>1. x.seq - 1 \in Int /\ x.seq - 1 <= seqCounter
    BY <1>0, <1>2 DEF Known, Entry, Seqs
  <2> HIDE DEF q1
  <2>2. Covered(conn', lineEpoch', Has' \cup Of(q1, "line", i - 1), x.seq - 1)
    BY <1>2, <2>1, CovKept
  <2> QED
    BY <1>2, <2>2
<1>3. ASSUME q1 = q PROVE W /\ F
  <2> HIDE DEF q, q1, C
  <2> QED
    BY <1>0, <1>1, <1>3
<1>4. ASSUME BrainRecv(s), q # <<>>, q1 = Tail(q) PROVE W /\ F
  <2>1. ASSUME q[1].t = "line" PROVE Item(q[1]) \in Has'
    BY <1>4, <2>1, Received DEF Careful
  <2> HIDE DEF q, q1, C
  <2>2. ASSUME NEW i \in 0 .. Len(q) - 1
        PROVE  Has \cup Of(q, "line", i + 1) \subseteq Has' \cup Of(q1, "line", i)
    <3>1. CASE q[1].t = "line"
      <4>1. Of(q, "line", i + 1) = {Item(q[1])} \cup Of(q1, "line", i)
        BY <1>0, <1>4, <3>1, OfTail
      <4> QED
        BY <1>0, <2>1, <3>1, <4>1
    <3>2. CASE q[1].t # "line"
      <4>1. Of(q, "line", i + 1) = Of(q1, "line", i)
        BY <1>0, <1>4, <3>2, OfTail
      <4> QED
        BY <1>0, <4>1
    <3> QED
      BY <3>1, <3>2
  <2>3. F
    <3>1. Len(q1) = Len(q) - 1 /\ Len(q) - 1 \in 0 .. Len(q) - 1 /\ (Len(q) - 1) + 1 = Len(q)
      BY <1>0, <1>4, HeadTail
    <3> QED
      BY <2>2, <3>1 DEF AllOf
  <2>4. ASSUME NEW i \in 1 .. Len(q1), q1[i].t = "line" PROVE C(i)
    <3>1. i + 1 \in 1 .. Len(q) /\ q1[i] = q[i + 1] /\ i - 1 \in 0 .. Len(q) - 1 /\ (i - 1) + 1 = (i + 1) - 1
      BY <1>0, <1>4
    <3>2. Has \cup Of(q, "line", (i + 1) - 1) \subseteq Has' \cup Of(q1, "line", i - 1)
      BY <2>2, <3>1
    <3> QED
      BY <1>1, <2>4, <3>1, <3>2
  <2> QED
    BY <2>3, <2>4
<1>5. ASSUME NEW m \in SentFrame, q1 = Append(q, m),
             m.t = "line" => \E x \in Entry : Known(x) /\ m.seq = x.seq /\ Cov(Has \cup AllOf(q, "line"), x.seq - 1)
      PROVE  W /\ F
  <2> HIDE DEF q, q1, C
  <2>1. F
    BY <1>0, <1>5, OfAppend
  <2>2. ASSUME NEW i \in 1 .. Len(q1), q1[i].t = "line" PROVE C(i)
    <3>1. CASE i \in 1 .. Len(q)
      <4>1. q1[i] = q[i] /\ i - 1 \in 0 .. Len(q)
        BY <1>0, <1>5, <3>1
      <4>2. Of(q1, "line", i - 1) = Of(q, "line", i - 1)
        BY <1>0, <1>5, <4>1, OfBefore
      <4> QED
        BY <1>0, <1>1, <2>2, <3>1, <4>1, <4>2
    <3>2. CASE i \notin 1 .. Len(q)
      <4>1. q1[i] = m /\ i - 1 = Len(q)
        BY <1>0, <1>5, <3>2
      <4>2. PICK x \in Entry : Known(x) /\ m.seq = x.seq /\ Cov(Has \cup AllOf(q, "line"), x.seq - 1)
        BY <1>5, <2>2, <4>1
      <4>3. Of(q1, "line", i - 1) = AllOf(q, "line")
        BY <1>0, <1>5, <4>1, OfAppend
      <4> QED
        BY <1>0, <1>2, <4>1, <4>2, <4>3
    <3> QED
      BY <3>1, <3>2
  <2> QED
    BY <2>1, <2>2
<1>6. ASSUME FanLine(s) \/ FanDrain(s), q1 = Append(q, LineMsg(Head(lineSub[Sub(s)].q))) PROVE W /\ F
  <2> DEFINE y == Head(lineSub[Sub(s)].q)
  <2>1. y \in Entry /\ Known(y) /\ Cov(Has \cup AllOf(wire[s], "line"), y.seq - 1)
    BY <1>6, TakenCov DEF Careful
  <2>2. q1 = Append(q, LineMsg(y))
    BY <1>6
  <2> HIDE DEF y
  <2>3. PICK m : m = LineMsg(y)
    OBVIOUS
  <2>4. m \in SentFrame /\ m.seq = y.seq /\ q1 = Append(q, m)
    BY <2>1, <2>2, <2>3, FrameKinds DEF LineMsg, Base, SInv
  <2> HIDE DEF q1, C
  <2> QED
    BY <1>5, <2>1, <2>4
<1>7. ASSUME FanCatchUp(s), q1 = q \o LineMsgs(Since(ring, fan[s].lastSent)), q1 # q PROVE W /\ F
  <2> DEFINE b == Since(ring, fan[s].lastSent)
             A == Has \cup AllOf(q, "line")
  <2>1. SinceOK(ring, fan[s].lastSent)
    BY <1>7 DEF FanCatchUp
  <2>2. \A k \in 1 .. Len(b) : Cov(A \cup First(b, k - 1), b[k].seq - 1)
    BY <1>7, <2>1, BacklogCov DEF Careful
  <2>3. /\ b \in Seq(Entry) /\ (\A j \in 1 .. Len(b) : Known(b[j])) /\ LineMsgs(b) \in Seq(SentFrame)
        /\ q1 = q \o LineMsgs(b)
    BY <1>7, SinceRing, BacklogFrames DEF Base, SInv, KeeperLinesKnown
  <2> HIDE DEF b, q, q1, C
  <2>4. /\ Len(b) \in Nat /\ Len(LineMsgs(b)) = Len(b)
        /\ \A j \in 1 .. Len(b) : LineMsgs(b)[j] = LineMsg(b[j]) /\ b[j] \in Entry
    BY <2>3 DEF LineMsgs
  <2>5. Len(q1) = Len(q) + Len(b)
    BY <1>0, <2>3, <2>4, JoinLength
  <2>6. \A k \in 0 .. Len(b) : AllOf(q, "line") \cup First(b, k) \subseteq Of(q1, "line", Len(q) + k)
    BY <1>0, <2>3, OfBacklog
  <2>7. F
    <3>1. Len(b) \in 0 .. Len(b)
      BY <2>4
    <3> QED
      BY <1>0, <2>5, <2>6, <3>1 DEF AllOf
  <2>8. ASSUME NEW i \in 1 .. Len(q1), q1[i].t = "line" PROVE C(i)
    <3>1. CASE i \in 1 .. Len(q)
      <4>1. q1[i] = q[i] /\ i - 1 \in 0 .. Len(q)
        BY <1>0, <2>3, <3>1
      <4>2. Of(q1, "line", i - 1) = Of(q, "line", i - 1)
        BY <1>0, <2>3, <4>1, OfJoin
      <4> QED
        BY <1>0, <1>1, <2>8, <3>1, <4>1, <4>2
    <3>2. CASE i \notin 1 .. Len(q)
      <4>1. PICK k \in 1 .. Len(b) : i = Len(q) + k
        <5>1. i - Len(q) \in 1 .. Len(b)
          BY <1>0, <2>4, <2>5, <3>2
        <5> QED
          BY <1>0, <2>5, <5>1, SMTT(30)
      <4>2. q1[i] = LineMsgs(b)[k]
        BY <1>0, <2>3, <2>4, <4>1
      <4>3. q1[i].seq = b[k].seq /\ b[k] \in Entry /\ Known(b[k])
        <5>1. b[k] \in Entry /\ Known(b[k]) /\ q1[i] = LineMsg(b[k])
          BY <2>3, <2>4, <4>2
        <5> QED
          BY <5>1 DEF LineMsg
      <4>4. k - 1 \in 0 .. Len(b) /\ i - 1 = Len(q) + (k - 1)
        BY <1>0, <2>4, <4>1
      <4>5. A \cup First(b, k - 1) \subseteq Has' \cup Of(q1, "line", i - 1)
        BY <1>0, <2>6, <4>4
      <4>6. Cov(A \cup First(b, k - 1), b[k].seq - 1)
        BY <2>2
      <4> HIDE DEF A
      <4> QED
        BY <1>2, <4>3, <4>5, <4>6
    <3> QED
      BY <3>1, <3>2
  <2> QED
    BY <2>7, <2>8
<1> HIDE DEF W, F
<1>8. W /\ F
  <2>1. CASE \E m \in SentFrame : m.t # "line" /\ q1 = Append(q, m)
    BY <1>5, <2>1
  <2> QED
    BY <1>3, <1>4, <1>6, <1>7, <2>1, WireChange DEF Base, W, F
<1> QED
  BY <1>8 DEF W, F, WireCov, Cov

\* What a fan-in has sent leaves nothing out.
LEMMA FanCovStep ==
  ASSUME Base, [SNext]_vars, Steady, NEW s \in Sessions, Running(s), KnowCov, WireCov(s), FanCov(s), Careful(s),
         \A r \in Sessions : ~AttachAck(r), ~BrainCrash
  PROVE  FanCov(s)'
<1> DEFINE A == Has \cup AllOf(wire[s], "line")
           B == Has' \cup AllOf(wire'[s], "line")
           G == fan'[s].pc # "off" => Covered(conn', lineEpoch', B, fan'[s].lastSent)
<1>0. /\ A \subseteq B /\ Has \subseteq Has' /\ know \subseteq Has'
      /\ wire \in [Sessions -> Seq(SentFrame)] /\ wire[s] \in Seq(SentFrame)
      /\ fan \in [Sessions -> FanState] /\ fan[s].lastSent \in Nat /\ fan[s].lastSent <= seqCounter
      /\ deliveredSeq \in Nat /\ deliveredSeq <= seqCounter
  <2>1. A \subseteq B
    BY WireCovStep
  <2>2. Has \subseteq Has' /\ know \subseteq Has
    BY Flow DEF Has
  <2>3. wire \in [Sessions -> Seq(SentFrame)] /\ fan \in [Sessions -> FanState]
    BY DEF Base, SInv, FrameTypes, FanTypes
  <2>4. fan[s].lastSent \in Nat /\ fan[s].lastSent <= seqCounter
    BY FanFacts DEF Base, KnownFrames
  <2> QED
    BY <2>1, <2>2, <2>3, <2>4, UpFacts
<1>1. fan[s].pc # "off" => Cov(A, fan[s].lastSent)
  BY DEF FanCov
<1>2. Cov(know, deliveredSeq)
  BY DEF KnowCov, Running
<1> HIDE DEF A, B
<1>3. ASSUME NEW w \in Int, w <= seqCounter, NEW R, R \subseteq B, Cov(R, w), fan'[s].lastSent = w PROVE G
  BY <1>3, CovKept
<1>4. ASSUME fan[s].pc # "off", fan'[s].lastSent = fan[s].lastSent PROVE G
  BY <1>0, <1>1, <1>3, <1>4
<1>5. CASE ~FanStep(s)
  <2>1. CASE fan'[s] = fan[s]
    <3>1. CASE fan[s].pc # "off"
      BY <1>4, <2>1, <3>1 DEF FanCov, Cov, B
    <3>2. CASE fan[s].pc = "off"
      BY <2>1, <3>2 DEF FanCov
    <3> QED
      BY <3>1, <3>2
  <2>2. CASE fan'[s].lastSent = deliveredSeq
    <3>1. G
      <4>1. know \subseteq B /\ deliveredSeq \in Int
        BY <1>0 DEF B
      <4> QED
        BY <1>0, <1>2, <1>3, <2>2, <4>1
    <3> QED
      BY <3>1 DEF FanCov, Cov, B
  <2> QED
    BY <1>5, <2>1, <2>2, FanWho DEF Base
<1>6. ASSUME FanCatchUp(s) PROVE G
  <2> DEFINE b == Since(ring, fan[s].lastSent)
  <2>1. fan[s].pc = "catchUp" /\ Live(s) /\ fan[s] \in FanState
    BY <1>0, <1>6 DEF FanCatchUp, FanAt
  <2>2. CASE ~SinceOK(ring, fan[s].lastSent)
    <3>1. fan'[s].lastSent = fan[s].lastSent
      BY <1>0, <1>6, <2>1, <2>2 DEF FanCatchUp, FanState
    <3> QED
      BY <1>4, <2>1, <3>1
  <2>3. CASE SinceOK(ring, fan[s].lastSent)
    <3>1. Send(s, LineMsgs(b)) /\ fan'[s].lastSent = IF b = <<>> THEN fan[s].lastSent ELSE LastSeq(b)
      BY <1>0, <1>6, <2>1, <2>3 DEF FanCatchUp, FanState
    <3>2. b \in Seq(Entry) /\ (\A j \in 1 .. Len(b) : Known(b[j])) /\ LineMsgs(b) \in Seq(SentFrame)
      BY SinceRing, BacklogFrames DEF Base, SInv, KeeperLinesKnown
    <3>3. wire'[s] = wire[s] \o LineMsgs(b)
      BY <1>0, <2>1, <3>1 DEF Send, Running
    <3>4. b # <<>> => Cov(A \cup First(b, Len(b)), LastSeq(b))
      BY <1>6, <2>3, BacklogCov DEF Careful, A
    <3> HIDE DEF b
    <3>5. CASE b = <<>>
      BY <1>4, <2>1, <3>1, <3>5
    <3>6. CASE b # <<>>
      <4>1. Len(b) \in 1 .. Len(b) /\ Len(b) \in 0 .. Len(b) /\ b[Len(b)] \in Entry /\ LastSeq(b) = b[Len(b)].seq
        BY <3>2, <3>6 DEF LastSeq
      <4>2. LastSeq(b) \in Int /\ LastSeq(b) <= seqCounter
        BY <3>2, <4>1 DEF Known, Entry, Seqs
      <4>3. AllOf(wire[s], "line") \cup First(b, Len(b)) \subseteq Of(wire'[s], "line", Len(wire[s]) + Len(b))
        BY <1>0, <3>2, <3>3, <4>1, OfBacklog
      <4>4. Len(wire'[s]) = Len(wire[s]) + Len(b)
        <5>1. Len(LineMsgs(b)) = Len(b)
          BY <3>2 DEF LineMsgs
        <5> QED
          BY <1>0, <3>2, <3>3, <5>1, JoinLength
      <4>5. A \cup First(b, Len(b)) \subseteq B
        BY <1>0, <4>3, <4>4 DEF A, B, AllOf
      <4> QED
        BY <1>3, <3>1, <3>4, <3>6, <4>2, <4>5
    <3> QED
      BY <3>5, <3>6
  <2> QED
    BY <2>2, <2>3
<1>7. ASSUME FanLine(s) \/ FanDrain(s) PROVE G
  <2> DEFINE y == Head(lineSub[Sub(s)].q)
  <2>1. fan[s].pc \in {"loop", "drain"} /\ Live(s) /\ FanTake(s) /\ fan[s] \in FanState
    BY <1>0, <1>7 DEF FanLine, FanDrain, FanAt
  <2>2. y \in Entry /\ Known(y) /\ Cov(A, y.seq - 1)
    BY <1>7, TakenCov DEF Careful, A
  <2>3. CASE y.seq <= fan[s].lastSent
    <3>1. fan' = fan
      BY <2>1, <2>3 DEF FanTake
    <3> QED
      BY <1>4, <2>1, <3>1
  <2>4. CASE ~(y.seq <= fan[s].lastSent)
    <3>1. fan'[s].lastSent = y.seq /\ Send(s, <<LineMsg(y)>>)
      BY <1>0, <2>1, <2>4 DEF FanTake, FanState
    <3> HIDE DEF y
    <3>2. LineMsg(y) \in SentFrame /\ LineMsg(y).t = "line" /\ Item(LineMsg(y)) = y
      BY <2>2, FrameKinds DEF LineMsg, Item, Entry, Base, SInv
    <3>3. wire'[s] = Append(wire[s], LineMsg(y))
      <4>1. wire'[s] = wire[s] \o <<LineMsg(y)>>
        BY <1>0, <2>1, <3>1 DEF Send, Running
      <4> QED
        BY <1>0, <3>2, <4>1, JoinOne
    <3>4. y \in AllOf(wire'[s], "line")
      <4>1. Item(LineMsg(y)) \in AllOf(Append(wire[s], LineMsg(y)), "line")
        BY <1>0, <3>2, OfAppend
      <4> QED
        BY <3>2, <3>3, <4>1
    <3>5. A \cup {y} \subseteq B
      BY <1>0, <3>4 DEF B
    <3>6. Cov(A \cup {y}, y.seq)
      BY <2>2, CovNext
    <3>7. y.seq \in Int /\ y.seq <= seqCounter
      BY <2>2 DEF Known, Entry, Seqs
    <3> QED
      BY <1>3, <3>1, <3>5, <3>6, <3>7
  <2> QED
    BY <2>3, <2>4
<1>8. ASSUME FanStep(s), ~FanCatchUp(s), ~FanLine(s), ~FanDrain(s) PROVE G
  <2>1. fan[s].pc # "off" /\ (fan'[s].lastSent = fan[s].lastSent \/ fan'[s] = NoFan)
    <3>1. fan[s] \in FanState
      BY <1>0
    <3> QED
      BY <1>0, <1>8, <3>1 DEF FanStep, FanSubscribe, FanSubscribeLines, FanOverflow, FanSwap, FanEvent,
         FanForward, FanEnd, FanAt, FanState
  <2> QED
    BY <1>4, <2>1 DEF NoFan
<1> HIDE DEF G
<1>9. CASE FanStep(s)
  <2>1. G
    BY <1>6, <1>7, <1>8, <1>9
  <2> QED
    BY <2>1 DEF G, FanCov, Cov, B
<1> QED
  BY <1>5, <1>9

\* An attach is alive from its HelloAck on.
LEMMA PhaseWho ==
  ASSUME SessTypes, [SNext]_vars, NEW s \in Sessions, sess'[s].pc \in {"acked", "live"}
  PROVE  AttachAck(s) \/ sess[s].pc \in {"acked", "live"}
<1>0. sess \in [Sessions -> SessState]
  BY DEF SessTypes
<1>1. ASSUME NEW r \in Sessions, UpOwn(r), ~AttachAck(s)
      PROVE  sess[s].pc \in {"acked", "live"}
  <2>1. CASE r = s
    BY <1>0, <1>1, <2>1 DEF UpOwn, AttachHello, LiveReady, Teardown, HandleBlobPush, HandleSeqAck,
                      HandleDial, HandleClose, BrainHandle, BrainAck, BrainDial, BrainReconnect, SessState
  <2>2. CASE r # s
    <3>1. sess'[s] = sess[s]
      BY <1>0, <1>1, <2>2 DEF UpOwn, AttachHello, AttachAck, LiveReady, Teardown, HandleBlobPush, HandleSeqAck,
                      HandleDial, HandleClose, BrainHandle, BrainAck, BrainDial, BrainReconnect
    <3> QED
      BY <3>1
  <2> QED
    BY <2>1, <2>2
<1> QED
  BY <1>1, UpWho

\* What is on its way to the blob gets there, in its order.
LEMMA OnItsWayStep ==
  ASSUME Base, [SNext]_vars, Steady, NEW s \in Sessions, Running(s), OnItsWay(s),
         \A r \in Sessions : ~AttachAck(r), ~BrainCrash
  PROVE  OnItsWay(s)'
<1> SUFFICES ASSUME sess'[s].pc \in {"acked", "live"},
                    NEW x \in know', x.epoch = conn', x.seq \in StateLines
             PROVE  x \in blob' \cup AllOf(up'[s], "push")
  BY DEF OnItsWay
<1> DEFINE q == up[s]
           R == blob' \cup AllOf(up'[s], "push")
<1>0. /\ q \in Seq(AskFrame) /\ Len(q) \in Nat /\ blob \subseteq blob' /\ SInv
      /\ sess[s].pc \in {"acked", "live"}
  BY UpFacts, BlobKept, PhaseWho DEF Base
<1>1. AllOf(q, "push") \subseteq R
  <2>1. CASE up'[s] = q
    BY <2>1
  <2>2. ASSUME NEW m \in AskFrame, up'[s] = Append(q, m) PROVE AllOf(q, "push") \subseteq R
    BY <1>0, <2>2, OfAppend
  <2>3. ASSUME q # <<>>, up'[s] = Tail(q), q[1].t # "push" \/ HandleBlobPush(s)
        PROVE  AllOf(q, "push") \subseteq R
    <3>1. Len(q) - 1 \in 0 .. Len(q) - 1 /\ (Len(q) - 1) + 1 = Len(q) /\ Len(up'[s]) = Len(q) - 1
      BY <1>0, <2>3, HeadTail
    <3>2. CASE q[1].t # "push"
      <4>1. Of(q, "push", (Len(q) - 1) + 1) = Of(Tail(q), "push", Len(q) - 1)
        BY <1>0, <2>3, <3>1, <3>2, OfTail
      <4> QED
        BY <2>3, <3>1, <4>1 DEF AllOf
    <3>3. CASE HandleBlobPush(s) /\ q[1].t = "push"
      <4> HIDE DEF q, R
      <4>1. Of(q, "push", (Len(q) - 1) + 1) = {Item(q[1])} \cup Of(Tail(q), "push", Len(q) - 1)
        BY <1>0, <2>3, <3>1, <3>3, OfTail, ZenonT(40)
      <4>2. Item(q[1]) \in blob'
        BY <2>3, <3>3, UpFacts DEF HandleBlobPush, PushBlob, Item, q
      <4> QED
        BY <2>3, <3>1, <4>1, <4>2 DEF AllOf, R
    <3> QED
      BY <2>3, <3>2, <3>3
  <2>4. ASSUME BrainHandle(s), lines[1].seq \in StateLines,
               up'[s] = Append(q, [t |-> "push", seq |-> lines[1].seq, epoch |-> lines[1].epoch])
        PROVE  AllOf(q, "push") \subseteq R
    <3> DEFINE m == [t |-> "push", seq |-> lines[1].seq, epoch |-> lines[1].epoch]
    <3>1. m \in AskFrame /\ up'[s] = Append(q, m)
      BY <1>0, <2>4, BrainAsks
    <3> HIDE DEF m
    <3> QED
      BY <2>2, <3>1
  <2>5. ASSUME BrainAck(s), up'[s] = Append(q, [t |-> "ack", seq |-> cur.seq])
        PROVE  AllOf(q, "push") \subseteq R
    <3> DEFINE m == [t |-> "ack", seq |-> cur.seq]
    <3>1. m \in AskFrame /\ up'[s] = Append(q, m)
      BY <1>0, <2>5, BrainAsks
    <3> HIDE DEF m
    <3> QED
      BY <2>2, <3>1
  <2>6. ASSUME NEW m \in AskFrame, m.t \in {"dial", "close"}, up'[s] = Append(q, m)
        PROVE  AllOf(q, "push") \subseteq R
    BY <2>2, <2>6
  <2>7. ~AttachAck(s) /\ sess'[s].pc # "closing"
    OBVIOUS
  <2>8. /\ q[1].t \notin {"push", "ack"} => q[1].t # "push"
        /\ q[1].t = "ack" => q[1].t # "push"
    OBVIOUS
  <2> HIDE DEF q, R
  <2> QED
    BY <2>1, <2>3, <2>4, <2>5, <2>6, <2>7, <2>8, UpChange DEF Base, q
<1>2. CASE x \in know
  BY <1>0, <1>1, <1>2 DEF OnItsWay, Steady
<1>3. CASE x \notin know
  <2>1. PICK r \in Sessions : BrainHandle(r) /\ lines # <<>> /\ x = lines[1] /\ x \in Entry
    BY <1>0, <1>3, KnowChange
  <2>2. r = s
    BY <2>1 DEF BrainHandle, Running
  <2> DEFINE m == [t |-> "push", seq |-> x.seq, epoch |-> x.epoch]
  <2>3. m \in AskFrame /\ Ask(s, <<m>>)
    BY <1>0, <2>1, <2>2, BrainAsks
  <2>4. m.t = "push" /\ Item(m) = x
    BY <2>1 DEF Item, Entry
  <2> HIDE DEF m
  <2>5. up'[s] = Append(q, m)
    BY <1>0, <2>3, AskOne DEF SInv, FrameTypes
  <2> QED
    BY <1>0, <2>3, <2>4, <2>5, OfAppend
<1> QED
  BY <1>2, <1>3

\* The pipe of the attach that the brain runs on.
LEMMA PipeCovStep ==
  ASSUME Base, [SNext]_vars, Steady, KnowCov, PipeCov, \A s \in Sessions : Careful(s)
  PROVE  PipeCov'
<1> SUFFICES ASSUME NEW s \in Sessions, Running(s)'
             PROVE  LinesCov' /\ WireCov(s)' /\ FanCov(s)' /\ OnItsWay(s)'
  BY DEF PipeCov
<1>0. /\ sess \in [Sessions -> SessState] /\ brain \in BrainState /\ up \in [Sessions -> Seq(AskFrame)]
  BY DEF Base, SessTypes, SInv, FrameTypes
<1>1. CASE AttachAck(s)
  <2>1. /\ brain.pc = "hello" /\ sess[s].pc = "hello" /\ lines' = lines /\ wire' = wire /\ fan' = fan
        /\ know' \subseteq blob /\ blob' = blob
    BY <1>1 DEF AttachAck, keeperVars
  <2>2. lines = <<>> /\ wire[s] = <<>> /\ fan[s].pc = "off"
    BY <2>1 DEF Base, Shape
  <2>3. LinesCov' /\ WireCov(s)'
    BY <2>1, <2>2 DEF LinesCov, WireCov
  <2>4. FanCov(s)'
    BY <2>1, <2>2 DEF FanCov
  <2>5. OnItsWay(s)'
    BY <2>1 DEF OnItsWay
  <2> QED
    BY <2>3, <2>4, <2>5
<1>2. CASE ~AttachAck(s)
  <2>1. Running(s)
    BY <1>2, RunWho
  <2>2. \A r \in Sessions : ~AttachAck(r)
    BY <2>1 DEF AttachAck, Running
  <2>3. ~BrainCrash
    BY DEF BrainCrash, Running, Down
  <2>4. LinesCov /\ WireCov(s) /\ FanCov(s) /\ OnItsWay(s) /\ Careful(s)
    BY <2>1 DEF PipeCov
  <2> QED
    BY <2>1, <2>2, <2>3, <2>4, LinesCovStep, WireCovStep, FanCovStep, OnItsWayStep
<1> QED
  BY <1>1, <1>2

-----------------------------------------------------------------------------
(* What a brain is resumed with.                                           *)

\* The blob, the frames on their way to it, what the brain knows and the lines on
\* their way there, one after the other, leave out no line of the live connection
\* that changes the state.  None of them is inductive without the others.
ResumeInv ==
  Base /\ LossesOver /\ BlobCov /\ UpCov /\ StartCov /\ KnowCov /\ PipeCov

\* The first state: there is no connection and nothing is known.
LEMMA ResumeInvInit == SInit => ResumeInv
<1> SUFFICES ASSUME SInit PROVE ResumeInv
  OBVIOUS
<1> USE KeeperAssumption, LiveSessionAssumption
<1>1. SInv /\ LossInv
  BY SInitInv, LossInvInit
<1>2. SessTypes
  <2>1. NoSess \in SessState
    BY DEF NoSess, SessState
  <2>2. Down \in BrainState
    BY DEF Down, BrainState
  <2> QED
    BY <2>1, <2>2 DEF SInit, SessTypes
<1>3. Shape
  <2>1. \A s \in Sessions : sess[s] = NoSess /\ up[s] = <<>> /\ wire[s] = <<>> /\ fan[s] = NoFan
    BY DEF SInit
  <2>2. lines = <<>> /\ cur = NoLine
    BY DEF SInit
  <2> QED
    BY <2>1, <2>2 DEF Shape, NoSess, NoFan, NoEvent, NoLine
<1>4. LinesRead
  BY DEF SInit, Init, LinesRead
<1>5. Clears
  BY DEF SInit, Init, Clears, IdleCloser, IdleDialer, NewReader
<1>6. KnownFrames
  <2>1. \A s \in Sessions : up[s] = <<>> /\ wire[s] = <<>> /\ fan[s].lastSent = 0
    BY DEF SInit, NoFan
  <2>2. lines = <<>> /\ cur.pc = "idle" /\ know = {} /\ blob = {} /\ deliveredSeq = 0 /\ seqCounter = 0
    BY DEF SInit, Init, NoLine
  <2> QED
    BY <2>1, <2>2 DEF KnownFrames
<1>7. conn = 0 /\ brain.pc = "down"
  BY DEF SInit, Init, Down
<1>8. \A R, w : Cov(R, w)
  BY <1>7 DEF Cov, Covered
<1>9. BlobCov /\ UpCov /\ StartCov /\ KnowCov
  BY <1>8 DEF BlobCov, UpCov, StartCov, KnowCov, AcksCov
<1>10. PipeCov
  BY <1>7 DEF PipeCov, Running
<1>11. OneAtATime
  BY DEF SInit, Init, OneAtATime, Calling, Reading, IdleDialer, NewReader
<1> QED
  BY <1>1, <1>2, <1>3, <1>4, <1>5, <1>6, <1>9, <1>10, <1>11 DEF ResumeInv, Base, LossInv

\* Whatever the connection, frames and lines stay what they are.
LEMMA BaseStep ==
  ASSUME SerialCallers, Base, LossesOver, [SNext]_vars
  PROVE  Base' /\ LossesOver'
<1>1. OneAtATime /\ SInv /\ SessTypes /\ Shape /\ KeeperLinesKnown /\ LinesRead /\ Clears /\ KnownFrames
      /\ told \in [Sessions -> SUBSET Epochs]
  BY DEF Base, LossesOver
<1>2. OneAtATime' /\ LinesApart'
  <2>1. OneAtATime'
    BY <1>1, KeeperMoves, OneAtATimeStep DEF SInv
  <2> QED
    BY <2>1 DEF OneAtATime, LinesApart, Reading
<1>3. SInv' /\ SessTypes' /\ Shape'
  BY <1>1, <1>2, SInvStep, SessTypesStep, ShapeStep
<1>4. KeeperLinesKnown' /\ LinesRead' /\ Clears' /\ KnownFrames' /\ LossesOver'
  BY <1>1, KnownStep, LinesReadStep, ClearsStep, KnownFramesStep, LossesOverStep
<1> QED
  BY <1>2, <1>3, <1>4 DEF Base

LEMMA ResumeInvStep ==
  ASSUME SerialCallers, ResumeInv, [SNext]_vars, \A s \in Sessions : Careful(s)
  PROVE  ResumeInv'
<1>1. Base' /\ LossesOver'
  BY BaseStep DEF ResumeInv
<1>2. CASE Steady
  BY <1>1, <1>2, BlobCovStep, UpCovStep, StartCovStep, KnowCovStep, PipeCovStep DEF ResumeInv
<1>3. CASE ~Steady
  <2>1. /\ \A R, w : Covered(conn', lineEpoch', R, w)
        /\ \A x \in Entry : Known(x)' => x.epoch # conn'
    BY <1>3, AllNew DEF ResumeInv
  <2>2. BlobCov' /\ UpCov' /\ StartCov' /\ KnowCov'
    BY <2>1 DEF BlobCov, UpCov, StartCov, KnowCov, AcksCov, Cov
  <2>3. ASSUME NEW x \in know' PROVE x.epoch # conn'
    <3>1. x \in Entry /\ Known(x)'
      BY <1>1 DEF Base, SessTypes, KnownFrames, Known
    <3> QED
      BY <2>1, <3>1
  <2>4. \A s \in Sessions : LinesCov' /\ WireCov(s)' /\ FanCov(s)' /\ OnItsWay(s)'
    BY <2>1, <2>3 DEF LinesCov, WireCov, FanCov, OnItsWay, Cov
  <2>5. PipeCov'
    BY <2>4 DEF PipeCov
  <2> QED
    BY <1>1, <2>2, <2>5 DEF ResumeInv
<1> QED
  BY <1>2, <1>3

\* A step that changes nothing loses nothing.
LEMMA NothingCareful ==
  ASSUME SInv, UNCHANGED vars, NEW s \in Sessions
  PROVE  Careful(s)
<1>0. wire \in [Sessions -> Seq(SentFrame)] /\ fan \in [Sessions -> FanState]
      /\ wire' = wire /\ fan' = fan /\ feed' = feed
  BY DEF SInv, FrameTypes, FanTypes, vars, sessVars, histVars
<1>1. HeedsOverflow(s)
  BY <1>0 DEF HeedsOverflow
<1>2. KeepsUp(s)
  <2>1. ASSUME BrainRecv(s) PROVE FALSE
    <3>1. wire[s] # <<>> /\ wire'[s] = Tail(wire[s]) /\ wire[s] \in Seq(SentFrame)
      BY <1>0, <2>1 DEF BrainRecv
    <3>2. Len(wire'[s]) = Len(wire[s]) - 1 /\ Len(wire[s]) \in Nat
      BY <3>1, HeadTail
    <3> QED
      BY <1>0, <3>2
  <2> QED
    BY <2>1 DEF KeepsUp
<1>3. StartsWhole(s)
  <2>1. ASSUME FanCatchUp(s) PROVE FALSE
    <3>1. fan[s].pc = "catchUp" /\ fan[s] \in FanState
      BY <1>0, <2>1 DEF FanCatchUp, FanAt
    <3>2. fan'[s].pc # "catchUp"
      <4>1. CASE SinceOK(ring, fan[s].lastSent)
        <5>1. fan'[s].pc = "loop"
          BY <1>0, <2>1, <3>1, <4>1 DEF FanCatchUp, FanState
        <5> QED
          BY <5>1
      <4>2. CASE ~SinceOK(ring, fan[s].lastSent)
        <5>1. fan'[s].pc = "end"
          BY <1>0, <2>1, <3>1, <4>2 DEF FanCatchUp, FanState
        <5> QED
          BY <5>1
      <4> QED
        BY <4>1, <4>2
    <3> QED
      BY <1>0, <3>1, <3>2
  <2> QED
    BY <2>1 DEF StartsWhole
<1> QED
  BY <1>1, <1>2, <1>3 DEF Careful

LEMMA ResumeInvMeans ==
  ASSUME ResumeInv
  PROVE  AckedIsDurable /\ ResumeComplete
<1>1. AckedIsDurable
  BY DEF ResumeInv, BlobCov, Cov, Covered, AckedIsDurable
<1>2. ASSUME NEW x \in know, x.epoch = conn, NEW n \in StateLines, n < x.seq, lineEpoch[n] = conn
      PROVE  [seq |-> n, epoch |-> conn] \in know
  <2>1. x \in Entry
    BY DEF ResumeInv, Base, SessTypes
  <2>2. x.seq \in Nat /\ n \in Nat /\ conn # 0
    BY <1>2, <2>1, LiveSessionAssumption DEF Entry, Seqs, Epochs
  <2>3. Cov(know, x.seq - 1) /\ n <= x.seq - 1
    BY <1>2, <2>2 DEF ResumeInv, KnowCov
  <2> QED
    BY <1>2, <2>2, <2>3 DEF Cov, Covered
<1> QED
  BY <1>1, <1>2 DEF ResumeComplete

\* No line is lost between the ring and the demux, in any of the three ways in which
\* the code loses one.  Crashes, teardowns, killed attaches, losses of the
\* connection and requests that go nowhere are not excluded.
NothingLost == [][\A s \in Sessions : Careful(s)]_vars

\* However often the brain dies, wherever, and whoever is attached, the lines of the
\* live connection are in the blob or follow on it on their way there, through ring,
\* feed, wire, Driver.lines, HandleLine and pushes.  The callers are serial, as
\* Driver.Reconnect waits for the CloseResult, and no line is lost on the way.
THEOREM ResumeInvariant ==
  SerialCallers => (SSpec /\ NothingLost => []ResumeInv)
<1> SUFFICES ASSUME SerialCallers PROVE SSpec /\ NothingLost => []ResumeInv
  OBVIOUS
<1>1. SInit => ResumeInv
  BY ResumeInvInit
<1>2. ResumeInv /\ [SNext]_vars /\ [\A s \in Sessions : Careful(s)]_vars => ResumeInv'
  <2> SUFFICES ASSUME ResumeInv, [SNext]_vars, [\A s \in Sessions : Careful(s)]_vars PROVE ResumeInv'
    OBVIOUS
  <2>1. CASE \A s \in Sessions : Careful(s)
    BY <2>1, ResumeInvStep
  <2>2. CASE UNCHANGED vars
    <3>1. \A s \in Sessions : Careful(s)
      BY <2>2, NothingCareful DEF ResumeInv, Base
    <3> QED
      BY <3>1, ResumeInvStep
  <2> QED
    BY <2>1, <2>2
<1> QED
  BY <1>1, <1>2, PTL DEF SSpec, NothingLost

\* What is acknowledged is in the blob: dispatchLine acknowledges after HandleLine has
\* pushed, readLoop applies both in their order, and no acknowledgement passes over a
\* line the brain has not handled.
THEOREM AcksAreDurable == SerialCallers => (SSpec /\ NothingLost => []AckedIsDurable)
<1>1. ResumeInv => AckedIsDurable
  BY ResumeInvMeans
<1> QED
  BY <1>1, ResumeInvariant, PTL

\* A brain that resumes from the blob and the watermark knows every line of the live
\* connection that comes before any it knows, whichever brains died before it.
THEOREM ResumeIsComplete == SerialCallers => (SSpec /\ NothingLost => []ResumeComplete)
<1>1. ResumeInv => ResumeComplete
  BY ResumeInvMeans
<1> QED
  BY <1>1, ResumeInvariant, PTL
=============================================================================
