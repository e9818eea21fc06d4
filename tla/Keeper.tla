------------------------------- MODULE Keeper -------------------------------
(***************************************************************************)
(* One network's Keeper (internal/keeper/keeper.go): at most one uplink    *)
(* connection, the loop that reads it, the ring the lines go to, the blob  *)
(* of derived state, the resume watermark, and the subscriptions of the    *)
(* live sessions.                                                          *)
(*                                                                         *)
(* Dial, Close and QuitClose run on goroutines of their own (listener.go   *)
(* starts one per request), one readLoop per connection, so each is a      *)
(* process here, split where it releases a lock or blocks.  A connection   *)
(* is named by its epoch, which Dial takes fresh for every connection.     *)
(***************************************************************************)
EXTENDS Ring, FiniteSets

CONSTANTS
  RingCap,       \* ring capacity
  SubBuf,        \* lineSubBuffer: depth of one subscriber's live feed
  EventBuf,      \* depth of one subscriber's event channel
  Dialers,       \* goroutines that may be inside Dial
  Closers,       \* goroutines that may be inside Close or QuitClose
  Subs,          \* subscription slots
  SerialCallers, \* TRUE: callers never overlap Dial with another Dial or Close
  MaxEpoch,      \* bound: connections ever made
  MaxSeq         \* bound: lines ever read

ASSUME KeeperAssumption ==
  /\ RingCap \in Nat \ {0}
  /\ SubBuf \in Nat \ {0}
  /\ EventBuf \in Nat \ {0}
  /\ SerialCallers \in BOOLEAN
  /\ MaxEpoch \in Nat
  /\ MaxSeq \in Nat

VARIABLES
  conn,         \* Keeper.conn: epoch of the current connection, 0 for nil
  epoch,        \* Keeper.epoch
  alive,        \* connections whose socket neither side has closed
  seqCounter,   \* Keeper.seqCounter
  ring,         \* Keeper.ring, oldest entry first
  blob,         \* Keeper.blob: the lines whose effect it records
  deliveredSeq, \* Keeper.deliveredSeq, the resume watermark
  evSub,        \* Keeper.subs
  lineSub,      \* Keeper.lineSubs
  dialer,       \* each Dial call
  closer,       \* each Close or QuitClose call
  reader,       \* the readLoop of each connection
  evlog         \* history: every event published, subscribers or not

connVars   == <<conn, epoch, alive>>
streamVars == <<seqCounter, ring, deliveredSeq>>
procVars   == <<dialer, closer, reader>>
keeperVars == <<conn, epoch, alive, seqCounter, ring, blob, deliveredSeq,
                evSub, lineSub, dialer, closer, reader, evlog>>

Epochs == 1 .. MaxEpoch
Seqs   == 1 .. MaxSeq
Entry  == [seq : Seqs, epoch : Epochs]
Event  == [kind : {"connected", "disconnected"}, epoch : Epochs]

EvState   == [on : BOOLEAN, q : Seq(Event)]
LineState == [on : BOOLEAN, q : Seq(Entry), over : BOOLEAN]

NoEvSub   == [on |-> FALSE, q |-> <<>>]
NoLineSub == [on |-> FALSE, q |-> <<>>, over |-> FALSE]

ReaderPC == {"none", "read", "push", "publish", "check", "cleanup",
             "clear", "event", "done"}
DialerPC == {"idle", "dialing", "publish"}
CloserPC == {"idle", "quit", "clear", "shut", "wait"}

ReaderState == [pc : ReaderPC, seq : 0 .. MaxSeq, evicted : BOOLEAN, overflow : BOOLEAN]
DialerState == [pc : DialerPC, epoch : 0 .. MaxEpoch]
CloserState == [pc : CloserPC, epoch : 0 .. MaxEpoch]

IdleDialer == [pc |-> "idle", epoch |-> 0]
IdleCloser == [pc |-> "idle", epoch |-> 0]
NewReader  == [pc |-> "none", seq |-> 0, evicted |-> FALSE, overflow |-> FALSE]

\* State(): conn and state are always assigned together, under the same lock.
State == IF conn = 0 THEN "NotConnected" ELSE "Connected"

Init ==
  /\ conn = 0
  /\ epoch = 0
  /\ alive = {}
  /\ seqCounter = 0
  /\ ring = <<>>
  /\ blob = {}
  /\ deliveredSeq = 0
  /\ evSub = [s \in Subs |-> NoEvSub]
  /\ lineSub = [s \in Subs |-> NoLineSub]
  /\ dialer = [d \in Dialers |-> IdleDialer]
  /\ closer = [c \in Closers |-> IdleCloser]
  /\ reader = [e \in Epochs |-> NewReader]
  /\ evlog = <<>>

-----------------------------------------------------------------------------
(* Publication: never blocks the publisher.                                *)

\* publish: an event that finds a subscriber's channel full is dropped.
Publish(ev) ==
  /\ evSub' = [s \in Subs |->
       IF evSub[s].on /\ Len(evSub[s].q) < EventBuf
       THEN [evSub[s] EXCEPT !.q = Append(@, ev)]
       ELSE evSub[s]]
  /\ evlog' = Append(evlog, ev)

\* One subscriber's share of publishLine: a full feed loses the line and has
\* its Overflow channel closed, once and for good.
FeedLine(ls, e) ==
  IF ~ls.on THEN ls
  ELSE IF Len(ls.q) < SubBuf THEN [ls EXCEPT !.q = Append(@, e)]
  ELSE [ls EXCEPT !.over = TRUE]

PublishLine(e) == lineSub' = [s \in Subs |-> FeedLine(lineSub[s], e)]

HasLineSubscribers == \E s \in Subs : lineSub[s].on

Subscribe(s) ==
  /\ ~evSub[s].on
  /\ evSub' = [evSub EXCEPT ![s] = [on |-> TRUE, q |-> <<>>]]
  /\ UNCHANGED <<connVars, streamVars, procVars, blob, lineSub, evlog>>

SubscribeLines(s) ==
  /\ ~lineSub[s].on
  /\ lineSub' = [lineSub EXCEPT ![s] = [on |-> TRUE, q |-> <<>>, over |-> FALSE]]
  /\ UNCHANGED <<connVars, streamVars, procVars, blob, evSub, evlog>>

\* The cancel functions of both subscriptions.
Unsubscribe(s) ==
  /\ evSub[s].on
  /\ evSub' = [evSub EXCEPT ![s] = NoEvSub]
  /\ UNCHANGED <<connVars, streamVars, procVars, blob, lineSub, evlog>>

UnsubscribeLines(s) ==
  /\ lineSub[s].on
  /\ lineSub' = [lineSub EXCEPT ![s] = NoLineSub]
  /\ UNCHANGED <<connVars, streamVars, procVars, blob, evSub, evlog>>

-----------------------------------------------------------------------------
(* Dial.                                                                   *)

\* What a caller that waits for each result before its next request (as
\* Driver.Reconnect waits for the CloseResult) guarantees: nothing of an
\* earlier connection is still running when it dials.
Quiet ==
  /\ \A d \in Dialers : dialer[d].pc = "idle"
  /\ \A c \in Closers : closer[c].pc = "idle"
  /\ \A e \in Epochs : reader[e].pc \in {"none", "done"}

\* First check; with a live connection Dial returns ErrAlreadyConnected and
\* changes nothing.
DialStart(d) ==
  /\ dialer[d].pc = "idle"
  /\ SerialCallers => Quiet
  /\ conn = 0
  /\ dialer' = [dialer EXCEPT ![d].pc = "dialing"]
  /\ UNCHANGED <<connVars, streamVars, blob, evSub, lineSub, closer, reader, evlog>>

\* dialRaw failed, or the re-check under the lock lost the race with another
\* Dial (the newcomer's socket is closed at once).
DialReject(d) ==
  /\ dialer[d].pc = "dialing"
  /\ dialer' = [dialer EXCEPT ![d] = IdleDialer]
  /\ UNCHANGED <<connVars, streamVars, blob, evSub, lineSub, closer, reader, evlog>>

\* Mutant: seqs start again with every connection.
DialInstallResetsSeq(d) ==
  /\ dialer[d].pc = "dialing"
  /\ conn = 0
  /\ epoch < MaxEpoch
  /\ epoch' = epoch + 1
  /\ conn' = epoch + 1
  /\ alive' = alive \union {epoch + 1}
  /\ seqCounter' = 0
  /\ dialer' = [dialer EXCEPT ![d] = [pc |-> "publish", epoch |-> epoch + 1]]
  /\ UNCHANGED <<ring, deliveredSeq, blob, evSub, lineSub, closer, reader, evlog>>

\* The socket is open: take it under the lock, with a fresh epoch.
DialInstall(d) ==
  /\ dialer[d].pc = "dialing"
  /\ conn = 0
  /\ epoch < MaxEpoch
  /\ epoch' = epoch + 1
  /\ conn' = epoch + 1
  /\ alive' = alive \union {epoch + 1}
  /\ dialer' = [dialer EXCEPT ![d] = [pc |-> "publish", epoch |-> epoch + 1]]
  /\ UNCHANGED <<streamVars, blob, evSub, lineSub, closer, reader, evlog>>

\* Announce the connection, start its readLoop and return.
DialPublish(d) ==
  LET e == dialer[d].epoch IN
  /\ dialer[d].pc = "publish"
  /\ Publish([kind |-> "connected", epoch |-> e])
  /\ reader' = [reader EXCEPT ![e].pc = "read"]
  /\ dialer' = [dialer EXCEPT ![d] = IdleDialer]
  /\ UNCHANGED <<connVars, streamVars, blob, lineSub, closer>>

-----------------------------------------------------------------------------
(* Close and QuitClose.                                                    *)

\* Take the connection away under the lock; with none, Close returns.
TakeConn(c) ==
  /\ conn # 0
  /\ conn' = 0
  /\ closer' = [closer EXCEPT ![c] = [pc |-> "clear", epoch |-> conn]]
  /\ UNCHANGED <<epoch, alive, streamVars, blob, evSub, lineSub, dialer, reader, evlog>>

CloseStart(c) ==
  /\ closer[c].pc = "idle"
  /\ TakeConn(c)

\* QuitClose writes its last line first, for up to its deadline ...
QuitStart(c) ==
  /\ closer[c].pc = "idle"
  /\ conn # 0
  /\ closer' = [closer EXCEPT ![c] = [pc |-> "quit", epoch |-> conn]]
  /\ UNCHANGED <<connVars, streamVars, blob, evSub, lineSub, dialer, reader, evlog>>

\* ... then closes whatever connection is current by then, if any.
QuitClose(c) ==
  /\ closer[c].pc = "quit"
  /\ \/ TakeConn(c)
     \/ /\ conn = 0
        /\ closer' = [closer EXCEPT ![c] = IdleCloser]
        /\ UNCHANGED <<connVars, streamVars, blob, evSub, lineSub, dialer, reader, evlog>>

CloseClear(c) ==
  /\ closer[c].pc = "clear"
  /\ blob' = {}
  /\ closer' = [closer EXCEPT ![c].pc = "shut"]
  /\ UNCHANGED <<connVars, streamVars, evSub, lineSub, dialer, reader, evlog>>

\* Mutant: only the context is canceled, the socket stays open.
CloseCancelsOnly(c) ==
  /\ closer[c].pc = "shut"
  /\ closer' = [closer EXCEPT ![c].pc = "wait"]
  /\ UNCHANGED <<connVars, streamVars, blob, evSub, lineSub, dialer, reader, evlog>>

\* Cancel the loop's context and close its socket.  The canceled context only
\* makes readLoop's exit "deliberate", which matters to it only while it is
\* still current, and that TakeConn has already ended.
CloseShut(c) ==
  /\ closer[c].pc = "shut"
  /\ alive' = alive \ {closer[c].epoch}
  /\ closer' = [closer EXCEPT ![c].pc = "wait"]
  /\ UNCHANGED <<conn, epoch, streamVars, blob, evSub, lineSub, dialer, reader, evlog>>

\* Return once readLoop has closed done.
CloseReturn(c) ==
  /\ closer[c].pc = "wait"
  /\ reader[closer[c].epoch].pc = "done"
  /\ closer' = [closer EXCEPT ![c] = IdleCloser]
  /\ UNCHANGED <<connVars, streamVars, blob, evSub, lineSub, dialer, reader, evlog>>

-----------------------------------------------------------------------------
(* readLoop.                                                               *)

\* A line arrives and takes its seq.  A line already buffered can still be
\* read after the socket was closed.
ReadLine(e) ==
  /\ reader[e].pc = "read"
  /\ seqCounter < MaxSeq
  /\ seqCounter' = seqCounter + 1
  /\ reader' = [reader EXCEPT ![e].pc = "push", ![e].seq = seqCounter + 1]
  /\ UNCHANGED <<connVars, ring, deliveredSeq, blob, evSub, lineSub, dialer, closer, evlog>>

PushLine(e) ==
  /\ reader[e].pc = "push"
  /\ ring' = Push(ring, RingCap, [seq |-> reader[e].seq, epoch |-> e])
  /\ reader' = [reader EXCEPT ![e].pc = "publish",
                              ![e].evicted = PushEvicts(ring, RingCap)]
  /\ UNCHANGED <<connVars, seqCounter, deliveredSeq, blob, evSub, lineSub, dialer, closer, evlog>>

PublishRead(e) ==
  /\ reader[e].pc = "publish"
  /\ PublishLine([seq |-> reader[e].seq, epoch |-> e])
  /\ reader' = [reader EXCEPT ![e].pc = "check"]
  /\ UNCHANGED <<connVars, streamVars, blob, evSub, dialer, closer, evlog>>

MustSelfClose(e) == reader[e].evicted /\ ~HasLineSubscribers

\* The push evicted a line and nobody is subscribed: close the uplink.
OverflowClose(e) ==
  /\ reader[e].pc = "check"
  /\ MustSelfClose(e)
  /\ alive' = alive \ {e}
  /\ reader' = [reader EXCEPT ![e].pc = "cleanup", ![e].overflow = TRUE]
  /\ UNCHANGED <<conn, epoch, streamVars, blob, evSub, lineSub, dialer, closer, evlog>>

\* Otherwise answer a server PING and read on; a failed PONG ends the loop.
AfterLine(e) ==
  /\ reader[e].pc = "check"
  /\ ~MustSelfClose(e)
  /\ \/ /\ reader' = [reader EXCEPT ![e].pc = "read"]
        /\ UNCHANGED alive
     \/ /\ reader' = [reader EXCEPT ![e].pc = "cleanup"]
        /\ alive' = alive \ {e}
  /\ UNCHANGED <<conn, epoch, streamVars, blob, evSub, lineSub, dialer, closer, evlog>>

\* ReadLine failed: the socket is dead (closed by either side), or it is
\* still up and the read idled out or the line was too long.
ReadError(e) ==
  /\ reader[e].pc = "read"
  /\ reader' = [reader EXCEPT ![e].pc = "cleanup"]
  /\ alive' \in {alive, alive \ {e}}
  /\ UNCHANGED <<conn, epoch, streamVars, blob, evSub, lineSub, dialer, closer, evlog>>

\* Mutant: every loop that ends announces a loss, current or not.
CleanupAlways(e) ==
  /\ reader[e].pc = "cleanup"
  /\ conn' = IF conn = e THEN 0 ELSE conn
  /\ reader' = [reader EXCEPT ![e].pc = "clear"]
  /\ UNCHANGED <<epoch, alive, streamVars, blob, evSub, lineSub, dialer, closer, evlog>>

\* Mutant: the loop that ends leaves its connection in place.
CleanupKeepsConn(e) ==
  /\ reader[e].pc = "cleanup"
  /\ reader' = [reader EXCEPT ![e].pc = IF conn = e THEN "clear" ELSE "done"]
  /\ UNCHANGED <<connVars, streamVars, blob, evSub, lineSub, dialer, closer, evlog>>

\* Cleanup under the lock: only a loop that is still current touches the state.
Cleanup(e) ==
  /\ reader[e].pc = "cleanup"
  /\ IF conn = e
     THEN /\ conn' = 0
          /\ deliveredSeq' = IF reader[e].overflow THEN 0 ELSE deliveredSeq
          /\ reader' = [reader EXCEPT ![e].pc = "clear"]
     ELSE /\ reader' = [reader EXCEPT ![e].pc = "done"]
          /\ UNCHANGED <<conn, deliveredSeq>>
  /\ UNCHANGED <<epoch, alive, seqCounter, ring, blob, evSub, lineSub, dialer, closer, evlog>>

CleanupClear(e) ==
  /\ reader[e].pc = "clear"
  /\ blob' = {}
  /\ reader' = [reader EXCEPT ![e].pc = "event"]
  /\ UNCHANGED <<connVars, streamVars, evSub, lineSub, dialer, closer, evlog>>

CleanupEvent(e) ==
  /\ reader[e].pc = "event"
  /\ Publish([kind |-> "disconnected", epoch |-> e])
  /\ reader' = [reader EXCEPT ![e].pc = "done"]
  /\ UNCHANGED <<connVars, streamVars, blob, lineSub, dialer, closer>>

\* External: the Go runtime's finalizer closes a socket nothing refers to.
Finalize(e) ==
  /\ reader[e].pc = "done"
  /\ e \in alive
  /\ alive' = alive \ {e}
  /\ UNCHANGED <<conn, epoch, streamVars, procVars, blob, evSub, lineSub, evlog>>

-----------------------------------------------------------------------------
(* Requests of the attached brain.                                         *)

\* PushBlob: record the effect of line x.
PushBlob(x) ==
  /\ blob' = blob \union {x}
  /\ UNCHANGED <<connVars, streamVars, procVars, evSub, lineSub, evlog>>

AckSeq(n) ==
  /\ deliveredSeq' = IF n > deliveredSeq THEN n ELSE deliveredSeq
  /\ UNCHANGED <<connVars, seqCounter, ring, procVars, blob, evSub, lineSub, evlog>>

-----------------------------------------------------------------------------
DialStep(d) ==
  DialStart(d) \/ DialReject(d) \/ DialInstall(d) \/ DialPublish(d)

CloseStep(c) ==
  \/ CloseStart(c) \/ QuitStart(c) \/ QuitClose(c)
  \/ CloseClear(c) \/ CloseShut(c) \/ CloseReturn(c)

ReadStep(e) ==
  \/ ReadLine(e) \/ PushLine(e) \/ PublishRead(e) \/ OverflowClose(e)
  \/ AfterLine(e) \/ ReadError(e) \/ Cleanup(e) \/ CleanupClear(e)
  \/ CleanupEvent(e)

(* Any client: it subscribes, consumes, pushes blob entries for lines it was *)
(* sent and acknowledges them, in any order and at any time.  Module         *)
(* LiveSession replaces it by the listener's sessions and the brain.         *)

RecvLine(s) ==
  /\ lineSub[s].q # <<>>
  /\ lineSub' = [lineSub EXCEPT ![s].q = Tail(@)]
  /\ UNCHANGED <<connVars, streamVars, procVars, blob, evSub, evlog>>

RecvEvent(s) ==
  /\ evSub[s].q # <<>>
  /\ evSub' = [evSub EXCEPT ![s].q = Tail(@)]
  /\ UNCHANGED <<connVars, streamVars, procVars, blob, lineSub, evlog>>

ClientStep ==
  \/ \E s \in Subs : \/ Subscribe(s) \/ Unsubscribe(s) \/ RecvEvent(s)
                     \/ SubscribeLines(s) \/ UnsubscribeLines(s) \/ RecvLine(s)
  \/ \E i \in DOMAIN ring : PushBlob(ring[i]) \/ AckSeq(ring[i].seq)

Next ==
  \/ \E d \in Dialers : DialStep(d)
  \/ \E c \in Closers : CloseStep(c)
  \/ \E e \in Epochs : ReadStep(e) \/ Finalize(e)
  \/ ClientStep

Spec == Init /\ [][Next]_keeperVars

-----------------------------------------------------------------------------
(* Properties.                                                             *)

\* Every variable has its type; the ring and the feeds stay within capacity.
TypeOK ==
  /\ conn \in 0 .. MaxEpoch
  /\ epoch \in 0 .. MaxEpoch
  /\ alive \subseteq Epochs
  /\ seqCounter \in 0 .. MaxSeq
  /\ ring \in Seq(Entry) /\ Len(ring) <= RingCap
  /\ blob \subseteq Entry
  /\ deliveredSeq \in 0 .. MaxSeq
  /\ evSub \in [Subs -> EvState]
  /\ lineSub \in [Subs -> LineState]
  /\ dialer \in [Dialers -> DialerState]
  /\ closer \in [Closers -> CloserState]
  /\ reader \in [Epochs -> ReaderState]
  /\ evlog \in Seq(Event)

\* The keeper never reports Connected with nobody reading the socket: the
\* current connection's readLoop runs and has not reached its cleanup's end,
\* or the Dial that made the connection is about to start it
\* (Dial, Close and readLoop's cleanup all race for k.conn).
ConnectedHasReader ==
  conn # 0 =>
    \/ reader[conn].pc \in {"read", "push", "publish", "check", "cleanup"}
    \/ \E d \in Dialers : dialer[d] = [pc |-> "publish", epoch |-> conn]

\* Each connection is announced at most once, its loss is announced at most
\* once, and never before the announcement of the connection itself (publish
\* in Dial precedes the start of readLoop, which publishes the loss).
EventsPaired ==
  \A i, j \in DOMAIN evlog :
    /\ i # j => evlog[i] # evlog[j]
    /\ (evlog[i].epoch = evlog[j].epoch /\ evlog[i].kind = "disconnected"
          /\ evlog[j].kind = "connected") => j < i

\* No two lines ever carry the same seq, whatever connections they came from:
\* neither in the ring nor between the ring and a loop about to push.
SeqsDistinct ==
  /\ \A i, j \in DOMAIN ring : i # j => ring[i].seq # ring[j].seq
  /\ \A e \in Epochs : reader[e].pc = "push" =>
       /\ \A i \in DOMAIN ring : ring[i].seq # reader[e].seq
       /\ \A f \in Epochs \ {e} : reader[f].pc = "push" => reader[f].seq # reader[e].seq

\* A deliberate close is silent and a lost connection is not: a disconnect is
\* only announced for a connection that no Close has taken (readLoop publishes
\* only when it was still current).
CloseIsSilent ==
  \A c \in Closers : closer[c].pc \in {"clear", "shut", "wait"} =>
    \A i \in DOMAIN evlog :
      evlog[i] # [kind |-> "disconnected", epoch |-> closer[c].epoch]

\* What subscribers are told of a connection is true, in order and said once.
EventsTruthful == EventsPaired /\ CloseIsSilent

\* The ring holds consecutive seqs, oldest first, which is what since's gap
\* test (afterSeq+1 < oldest) relies on.
RingContiguous ==
  \A i \in 1 .. Len(ring) - 1 : ring[i + 1].seq = ring[i].seq + 1

\* Close never waits in vain: the socket of the connection it waits for is
\* closed, so that a read of it fails, and the loop that will close done runs,
\* has ended, or is about to be started by the Dial that made the connection
\* (a Close that comes between Dial's unlock and its go readLoop).
CloseWillReturn ==
  \A c \in Closers : closer[c].pc = "wait" =>
    /\ closer[c].epoch \notin alive
    /\ \/ reader[closer[c].epoch].pc # "none"
       \/ \E d \in Dialers : dialer[d] = [pc |-> "publish", epoch |-> closer[c].epoch]

\* keeper.go:168-169 says of the watermark reset that it happens "where the
\* ring has evicted entries this watermark still points at": a self-close
\* means that a line after the watermark is gone.
SelfCloseOnlyOnGap ==
  [][\A e \in Epochs :
       ~reader[e].overflow /\ reader'[e].overflow => deliveredSeq + 1 < ring[1].seq
    ]_keeperVars

\* keeper.go:130 says "Keeper holds at most one live uplink connection at a
\* time": no two sockets to the network are up at once.
AtMostOneLiveSocket == Cardinality(alive) <= 1
=============================================================================
