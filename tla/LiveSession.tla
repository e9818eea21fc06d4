---------------------------- MODULE LiveSession ----------------------------
(***************************************************************************)
(* The path of an uplink line for one network, from the keeper's ring to a *)
(* brain's session state, and of the acknowledgement back:                 *)
(*                                                                         *)
(*   Keeper ring / live feed -> fanInNetwork -> unix socket -> Driver.Run  *)
(*     -> Driver.lines -> runDemux -> Session.HandleLine                   *)
(*   blob push and SeqAck  <-  runDemux                                    *)
(*                                                                         *)
(* with the brain crashing and a new one attaching at any point.  The      *)
(* keeper's own steps are module Keeper's.  The listener's side is         *)
(* listener.go, the brain's side brain/driver.go and server/demux.go, and  *)
(* server.go for what a brain does when it boots.                          *)
(*                                                                         *)
(* s.out, the socket and the client's reads are one FIFO per direction,    *)
(* without a bound: an endpoint blocked on a full one behaves as one that  *)
(* is not scheduled.  Which of several attaches holds the live slot is     *)
(* module Listener's subject; here a new brain attaches once the old       *)
(* session has freed the slot.                                             *)
(***************************************************************************)
EXTENDS Keeper

CONSTANTS
  MaxSession, \* bound: attaches ever made
  MaxReconnect, \* bound: Reconnects the operator asks for
  MaxChanges,   \* bound: attaches, connections (a Reconnect is two), kills and overflows together
  MaxKills,     \* bound: attaches killed for another network's sake
  LinesBuf,   \* capacity of Driver.lines
  StateLines  \* the lines whose processing pushes a blob entry

Sessions == 1 .. MaxSession

ASSUME LiveSessionAssumption ==
  /\ MaxSession \in Nat
  /\ MaxReconnect \in Nat
  /\ MaxChanges \in Nat
  /\ MaxKills \in Nat
  /\ LinesBuf \in Nat \ {0}
  /\ StateLines \subseteq Seqs
  /\ Subs = Sessions \X {0, 1}

VARIABLES
  known,     \* the Manager holds a Keeper for this network
  sess,      \* listener side of each attach: phase, and whether it was killed
  fan,       \* its fanInNetwork goroutine
  wire,      \* frames on their way to the brain, per attach
  up,        \* frames on their way to the keeper, per attach
  owner,     \* the attach whose request each dialer and closer serves
  brain,     \* the brain process
  lines,     \* Driver.lines
  cur,       \* the line runDemux is processing
  know,      \* lines whose effect is in the brain's session state
  lineEpoch, \* history: the connection each line came from
  reconnects, \* history: Reconnects so far
  feed,      \* history: seqs sent on each attach, after its start watermark
  told       \* history: losses of connections forwarded on each attach

brainVars == <<brain, lines, cur, know>>
histVars  == <<lineEpoch, reconnects, feed, told>>
sessVars  == <<known, sess, fan, wire, up, owner>>
vars      == <<keeperVars, sessVars, brainVars, histVars>>

NoSess == [pc |-> "none", has |-> FALSE, killed |-> FALSE]
NoEvent == [t |-> "none"]
NoFan  == [pc |-> "off", lastSent |-> 0, slot |-> 0, ev |-> NoEvent]
Down   == [pc |-> "down", sess |-> 0, connected |-> FALSE, epoch |-> 0,
           wantDial |-> FALSE, closing |-> FALSE]
NoLine == [pc |-> "idle", seq |-> 0, epoch |-> 0]

LineMsg(e)     == [t |-> "line", seq |-> e.seq, epoch |-> e.epoch]
EventMsg(ev)   == [t |-> ev.kind, epoch |-> ev.epoch]
DialResult(ok) == [t |-> "dialres", ok |-> ok, epoch |-> epoch]

LineMsgs(q) == [i \in DOMAIN q |-> LineMsg(q[i])]
SeqsOf(q)   == [i \in DOMAIN q |-> q[i].seq]

SInit ==
  /\ Init
  /\ known = FALSE
  /\ sess = [s \in Sessions |-> NoSess]
  /\ fan = [s \in Sessions |-> NoFan]
  /\ wire = [s \in Sessions |-> <<>>]
  /\ up = [s \in Sessions |-> <<>>]
  /\ owner = [p \in Dialers \union Closers |-> 0]
  /\ brain = Down
  /\ lines = <<>>
  /\ cur = NoLine
  /\ know = {}
  /\ lineEpoch = [n \in Seqs |-> 0]
  /\ reconnects = 0
  /\ feed = [s \in Sessions |-> <<>>]
  /\ told = [s \in Sessions |-> {}]

Live(s) == sess[s].pc = "live"

\* Queue frames on attach s; once it is torn down (trySend) or its peer is
\* gone they go nowhere.
Send(s, msgs) ==
  wire' = [wire EXCEPT ![s] =
             IF Live(s) /\ brain.sess = s /\ brain.pc # "down" THEN @ \o msgs ELSE @]

\* A request of the brain on attach s; once the listener has closed its end
\* of the socket it goes nowhere.
Ask(s, msgs) ==
  up' = [up EXCEPT ![s] = IF sess[s].pc \in {"acked", "live"} THEN @ \o msgs ELSE @]

-----------------------------------------------------------------------------
(* The keeper's own goroutines.                                            *)

\* The changes so far that MaxChanges bounds: attaches, connections and dials
\* that may yet make one, killed attaches and overflowed feeds.
Asked ==
  IF brain.sess = 0 THEN 0 ELSE
  Cardinality({i \in DOMAIN up[brain.sess] : up[brain.sess][i].t = "dial"})
  + Cardinality({d \in Dialers : dialer[d].pc = "dialing"})

Upset(s) == sess[s].killed \/ fan[s].slot = 1 \/ lineSub[<<s, 0>>].over

Changes == brain.sess + epoch + Asked + Cardinality({s \in Sessions : Upset(s)})

KeeperRead(e) ==
  /\ ReadStep(e)
  /\ (\E x \in Subs : lineSub'[x].over /\ ~lineSub[x].over) => Changes + 2 * reconnects < MaxChanges
  /\ lineEpoch' = IF seqCounter' > seqCounter
                  THEN [lineEpoch EXCEPT ![seqCounter'] = e] ELSE lineEpoch
  /\ UNCHANGED <<sessVars, brainVars, reconnects, feed, told>>

KeeperClose(c) ==
  /\ CloseClear(c) \/ CloseShut(c)
  /\ UNCHANGED <<sessVars, brainVars, histVars>>

-----------------------------------------------------------------------------
(* Attach and teardown.                                                    *)

\* Hello: the slot is free, the listener claims it and starts the HelloAck
\* with the networks it holds and their connection state ...
AttachHello(s) ==
  /\ brain.pc = "down"
  /\ s = brain.sess + 1
  /\ \A r \in Sessions : sess[r].pc \notin {"hello", "acked", "live"}
  /\ sess' = [sess EXCEPT ![s] = [pc |-> "hello", has |-> known, killed |-> FALSE]]
  /\ brain' = [brain EXCEPT !.pc = "hello", !.sess = s, !.connected = (conn # 0)]
  /\ UNCHANGED <<keeperVars, known, fan, wire, up, owner, lines, cur, know, histVars>>

\* ... and reads the blob after that (statusOf).  The brain resumes a network
\* reported connected, seeding its state from the blob; it will dial any other.
AttachAck(s) ==
  /\ sess[s].pc = "hello"
  /\ brain.sess = s /\ brain.pc = "hello"
  /\ sess' = [sess EXCEPT ![s].pc = "acked"]
  /\ know' = IF brain.connected THEN blob ELSE {}
  /\ brain' = [brain EXCEPT !.pc = "run", !.wantDial = ~brain.connected]
  /\ up' = [up EXCEPT ![s] = <<[t |-> "ready"]>>]
  /\ UNCHANGED <<keeperVars, known, fan, wire, owner, lines, cur, histVars>>

\* startFanIn: nothing if the network is already streaming on this attach.
StartFanIn(s, wanted) ==
  IF wanted /\ fan[s].pc = "off"
  THEN /\ fan' = [fan EXCEPT ![s] = [NoFan EXCEPT !.pc = "subEvents",
                                                  !.lastSent = deliveredSeq]]
       /\ feed' = [feed EXCEPT ![s] = IF deliveredSeq = 0 THEN <<>> ELSE <<deliveredSeq>>]
  ELSE UNCHANGED <<fan, feed>>

\* LiveReady: every network held at Hello starts streaming from its watermark.
LiveReady(s) ==
  /\ sess[s].pc = "acked"
  /\ up[s] # <<>>
  /\ up' = [up EXCEPT ![s] = Tail(@)]
  /\ sess' = [sess EXCEPT ![s].pc = "live"]
  /\ StartFanIn(s, sess[s].has)
  /\ UNCHANGED <<keeperVars, known, wire, owner, brainVars, lineEpoch, reconnects, told>>

\* serveLive and handleConn end: peer gone, or killed.  Of the frames still
\* unread, at most the one readLoop already holds is processed.
Teardown(s) ==
  /\ sess[s].pc \in {"hello", "acked", "live"}
  /\ sess[s].killed \/ brain.sess # s \/ brain.pc = "down"
  /\ \/ up' = [up EXCEPT ![s] = <<>>]
     \/ /\ Live(s) /\ up[s] # <<>>
        /\ up' = [up EXCEPT ![s] = <<Head(@)>>]
  /\ sess' = [sess EXCEPT ![s].pc = "closing"]
  /\ UNCHANGED <<keeperVars, known, fan, wire, owner, brainVars, histVars>>

-----------------------------------------------------------------------------
(* liveSession.readLoop: one request frame at a time.                      *)

Request(s, t) ==
  /\ sess[s].pc \in {"live", "closing"}
  /\ up[s] # <<>>
  /\ Head(up[s]).t = t
  /\ up' = [up EXCEPT ![s] = Tail(@)]

HandleBlobPush(s) ==
  /\ Request(s, "push")
  /\ PushBlob([seq |-> Head(up[s]).seq, epoch |-> Head(up[s]).epoch])
  /\ Send(s, <<[t |-> "pushres"]>>)
  /\ UNCHANGED <<known, sess, fan, owner, brainVars, histVars>>

HandleSeqAck(s) ==
  /\ Request(s, "ack")
  /\ AckSeq(Head(up[s]).seq)
  /\ UNCHANGED <<known, sess, fan, wire, owner, brainVars, histVars>>

\* handleDial on a goroutine of its own: first check ...
HandleDial(s) ==
  /\ Live(s)
  /\ Request(s, "dial")
  /\ known' = TRUE
  /\ \/ \E d \in Dialers : DialStart(d) /\ owner' = [owner EXCEPT ![d] = s]
                           /\ UNCHANGED wire
     \/ /\ conn # 0
        /\ Send(s, <<DialResult(FALSE)>>)
        /\ UNCHANGED <<keeperVars, owner>>
  /\ UNCHANGED <<sess, fan, brainVars, histVars>>

\* ... the socket connects ...
HandleDialInstall(d) ==
  /\ DialInstall(d)
  /\ UNCHANGED <<sessVars, brainVars, histVars>>

\* ... the result is reported, and a success starts the fan-in if need be.
HandleDialResult(d) ==
  LET s == owner[d] IN
  /\ \/ /\ DialReject(d)
        /\ Send(s, <<DialResult(FALSE)>>)
        /\ UNCHANGED <<fan, feed>>
     \/ /\ DialPublish(d)
        /\ Send(s, <<DialResult(TRUE)>>)
        /\ StartFanIn(s, Live(s))
  /\ owner' = [owner EXCEPT ![d] = 0]
  /\ UNCHANGED <<known, sess, up, brainVars, lineEpoch, reconnects, told>>

HandleClose(s) ==
  /\ Request(s, "close")
  /\ \/ \E c \in Closers : CloseStart(c) /\ owner' = [owner EXCEPT ![c] = s]
                           /\ UNCHANGED wire
     \/ /\ conn = 0
        /\ Send(s, <<[t |-> "closeres"]>>)
        /\ UNCHANGED <<keeperVars, owner>>
  /\ UNCHANGED <<known, sess, fan, brainVars, histVars>>

HandleCloseResult(c) ==
  /\ CloseReturn(c)
  /\ Send(owner[c], <<[t |-> "closeres"]>>)
  /\ owner' = [owner EXCEPT ![c] = 0]
  /\ UNCHANGED <<known, sess, fan, up, brainVars, histVars>>

-----------------------------------------------------------------------------
(* fanInNetwork.                                                           *)

Sub(s) == <<s, fan[s].slot>>

FanAt(s, pc) == Live(s) /\ fan[s].pc = pc

FanSubscribe(s) ==
  /\ FanAt(s, "subEvents")
  /\ Subscribe(<<s, 0>>)
  /\ fan' = [fan EXCEPT ![s].pc = "subLines"]
  /\ UNCHANGED <<known, sess, wire, up, owner, brainVars, histVars>>

FanSubscribeLines(s) ==
  /\ FanAt(s, "subLines")
  /\ SubscribeLines(Sub(s))
  /\ fan' = [fan EXCEPT ![s].pc = "catchUp"]
  /\ UNCHANGED <<known, sess, wire, up, owner, brainVars, histVars>>

\* catchUpFromRing: everything after lastSent, or kill the attach.
FanCatchUp(s) ==
  LET backlog == Since(ring, fan[s].lastSent) IN
  /\ FanAt(s, "catchUp")
  /\ IF SinceOK(ring, fan[s].lastSent)
     THEN /\ Send(s, LineMsgs(backlog))
          /\ fan' = [fan EXCEPT ![s].pc = "loop",
                                ![s].lastSent = IF backlog = <<>> THEN @ ELSE LastSeq(backlog)]
          /\ feed' = [feed EXCEPT ![s] = @ \o SeqsOf(backlog)]
          /\ UNCHANGED sess
     ELSE /\ sess' = [sess EXCEPT ![s].killed = TRUE]
          /\ fan' = [fan EXCEPT ![s].pc = "end"]
          /\ UNCHANGED <<wire, feed>>
  /\ UNCHANGED <<keeperVars, known, up, owner, brainVars, lineEpoch, reconnects, told>>

\* Mutant: the line after the last one sent is taken for a duplicate.
FanTakeSkips(s) ==
  LET e == Head(lineSub[Sub(s)].q) IN
  /\ RecvLine(Sub(s))
  /\ IF e.seq <= fan[s].lastSent + 1
     THEN UNCHANGED <<wire, fan, feed>>
     ELSE /\ Send(s, <<LineMsg(e)>>)
          /\ fan' = [fan EXCEPT ![s].lastSent = e.seq]
          /\ feed' = [feed EXCEPT ![s] = Append(@, e.seq)]
  /\ UNCHANGED <<known, sess, up, owner, brainVars, lineEpoch, reconnects, told>>

\* Mutant: lines that the backlog covered are sent again.
FanTakeRepeats(s) ==
  LET e == Head(lineSub[Sub(s)].q) IN
  /\ RecvLine(Sub(s))
  /\ Send(s, <<LineMsg(e)>>)
  /\ fan' = [fan EXCEPT ![s].lastSent = e.seq]
  /\ feed' = [feed EXCEPT ![s] = Append(@, e.seq)]
  /\ UNCHANGED <<known, sess, up, owner, brainVars, lineEpoch, reconnects, told>>

\* Take the next line of the live feed; a line the backlog covered is skipped.
FanTake(s) ==
  LET e == Head(lineSub[Sub(s)].q) IN
  /\ RecvLine(Sub(s))
  /\ IF e.seq <= fan[s].lastSent
     THEN UNCHANGED <<wire, fan, feed>>
     ELSE /\ Send(s, <<LineMsg(e)>>)
          /\ fan' = [fan EXCEPT ![s].lastSent = e.seq]
          /\ feed' = [feed EXCEPT ![s] = Append(@, e.seq)]
  /\ UNCHANGED <<known, sess, up, owner, brainVars, lineEpoch, reconnects, told>>

FanLine(s) == FanAt(s, "loop") /\ FanTake(s)

\* Overflow: subscribe a replacement, drop the old feed, catch up again.
FanOverflow(s) ==
  /\ FanAt(s, "loop")
  /\ lineSub[Sub(s)].over
  /\ SubscribeLines(<<s, 1 - fan[s].slot>>)
  /\ fan' = [fan EXCEPT ![s].pc = "swap"]
  /\ UNCHANGED <<known, sess, wire, up, owner, brainVars, histVars>>

FanSwap(s) ==
  /\ FanAt(s, "swap")
  /\ UnsubscribeLines(Sub(s))
  /\ fan' = [fan EXCEPT ![s].pc = "catchUp", ![s].slot = 1 - @]
  /\ UNCHANGED <<known, sess, wire, up, owner, brainVars, histVars>>

\* An event first lets the lines already in the feed go ahead of it.
FanEvent(s) ==
  LET ev == Head(evSub[<<s, 0>>].q) IN
  /\ FanAt(s, "loop")
  /\ RecvEvent(<<s, 0>>)
  /\ fan' = [fan EXCEPT ![s].pc = "drain", ![s].ev = EventMsg(ev)]
  /\ UNCHANGED <<known, sess, wire, up, owner, brainVars, histVars>>

FanDrain(s) == FanAt(s, "drain") /\ FanTake(s)

\* Mutant: the event is forwarded with lines still in the feed.
FanForwardAtOnce(s) ==
  /\ FanAt(s, "drain")
  /\ Send(s, <<fan[s].ev>>)
  /\ fan' = [fan EXCEPT ![s].pc = "loop", ![s].ev = NoEvent]
  /\ told' = IF fan[s].ev.t = "disconnected"
             THEN [told EXCEPT ![s] = @ \union {fan[s].ev.epoch}] ELSE told
  /\ UNCHANGED <<keeperVars, known, sess, up, owner, brainVars, lineEpoch, reconnects, feed>>

FanForward(s) ==
  /\ FanAt(s, "drain")
  /\ lineSub[Sub(s)].q = <<>>
  /\ Send(s, <<fan[s].ev>>)
  /\ fan' = [fan EXCEPT ![s].pc = "loop", ![s].ev = NoEvent]
  /\ told' = IF fan[s].ev.t = "disconnected"
             THEN [told EXCEPT ![s] = @ \union {fan[s].ev.epoch}] ELSE told
  /\ UNCHANGED <<keeperVars, known, sess, up, owner, brainVars, lineEpoch, reconnects, feed>>

\* Another network of this attach has lost its place in its ring: that kills
\* the attach of all of them.
OtherNetworkGap(s) ==
  /\ Live(s) /\ ~sess[s].killed
  /\ Cardinality({r \in Sessions : sess[r].killed}) < MaxKills
  /\ Changes + 2 * reconnects < MaxChanges
  /\ sess' = [sess EXCEPT ![s].killed = TRUE]
  /\ UNCHANGED <<keeperVars, known, fan, wire, up, owner, brainVars, histVars>>

\* The goroutine ends (killed, or its session's context is done) and its
\* deferred calls drop its subscriptions.
FanEnd(s) ==
  /\ fan[s].pc = "end" \/ (fan[s].pc # "off" /\ sess[s].pc = "closing")
  /\ evSub' = [evSub EXCEPT ![<<s, 0>>] = NoEvSub]
  /\ lineSub' = [x \in Subs |-> IF x[1] = s THEN NoLineSub ELSE lineSub[x]]
  /\ fan' = [fan EXCEPT ![s] = NoFan]
  /\ UNCHANGED <<connVars, streamVars, procVars, blob, evlog,
                 known, sess, wire, up, owner, brainVars, histVars>>

-----------------------------------------------------------------------------
(* The brain.                                                              *)

Running(s) == brain.pc = "run" /\ brain.sess = s

\* Driver.Run takes the next frame.
BrainRecv(s) ==
  LET m == Head(wire[s]) IN
  /\ Running(s)
  /\ wire[s] # <<>>
  /\ wire' = [wire EXCEPT ![s] = Tail(@)]
  /\ \/ /\ m.t = "line"     \* handleLine forwards it, unless the demux is behind
        /\ lines' = IF Len(lines) < LinesBuf
                    THEN Append(lines, [seq |-> m.seq, epoch |-> m.epoch]) ELSE lines
        /\ UNCHANGED <<brain, cur>>
     \/ /\ m.t = "pushres"  \* notifyBlobPushWaiter
        /\ cur' = IF cur.pc = "await" THEN [cur EXCEPT !.pc = "ack"] ELSE cur
        /\ UNCHANGED <<brain, lines>>
     \/ /\ m.t = "dialres"  \* a failure arms a redial
        /\ brain' = IF m.ok THEN [brain EXCEPT !.epoch = IF m.epoch > @ THEN m.epoch ELSE @]
                            ELSE [brain EXCEPT !.wantDial = TRUE]
        /\ UNCHANGED <<lines, cur>>
     \/ /\ m.t = "connected"
        /\ brain' = [brain EXCEPT !.epoch = IF m.epoch > @ THEN m.epoch ELSE @]
        /\ UNCHANGED <<lines, cur>>
     \/ /\ m.t = "disconnected"  \* of a superseded connection: ignored
        /\ brain' = [brain EXCEPT !.wantDial = @ \/ m.epoch >= brain.epoch]
        /\ UNCHANGED <<lines, cur>>
     \/ /\ m.t = "closeres"      \* Reconnect goes on to dial
        /\ brain' = [brain EXCEPT !.closing = FALSE, !.wantDial = @ \/ brain.closing]
        /\ UNCHANGED <<lines, cur>>
  /\ UNCHANGED <<keeperVars, known, sess, fan, up, owner, know, histVars>>

\* The socket to the keeper is gone: Driver.Run returns and the demux with it;
\* the process stays, attached to nothing.
BrainDetached(s) ==
  /\ Running(s)
  /\ sess[s].pc = "closing"
  /\ wire[s] = <<>>
  /\ brain' = [brain EXCEPT !.pc = "detached"]
  /\ UNCHANGED <<keeperVars, sessVars, lines, cur, know, histVars>>

\* Mutant: the line is acknowledged before its derived entry is pushed.
BrainHandleAcksFirst(s) ==
  LET e == Head(lines) IN
  /\ Running(s)
  /\ cur.pc = "idle"
  /\ lines # <<>>
  /\ lines' = Tail(lines)
  /\ know' = know \union {e}
  /\ Ask(s, <<[t |-> "ack", seq |-> e.seq], [t |-> "push", seq |-> e.seq, epoch |-> e.epoch]>>)
  /\ UNCHANGED <<keeperVars, known, sess, fan, wire, owner, brain, cur, histVars>>

\* runDemux: dispatchLine hands the next line to Session.HandleLine, which
\* updates its state and, for some lines, pushes what it derived.
BrainHandle(s) ==
  LET e == Head(lines) IN
  /\ Running(s)
  /\ cur.pc = "idle"
  /\ lines # <<>>
  /\ lines' = Tail(lines)
  /\ know' = know \union {e}
  /\ IF e.seq \in StateLines
     THEN /\ Ask(s, <<[t |-> "push", seq |-> e.seq, epoch |-> e.epoch]>>)
          /\ cur' = [pc |-> "await", seq |-> e.seq, epoch |-> e.epoch]
     ELSE /\ cur' = [pc |-> "ack", seq |-> e.seq, epoch |-> e.epoch]
          /\ UNCHANGED up
  /\ UNCHANGED <<keeperVars, known, sess, fan, wire, owner, brain, histVars>>

\* PushBlob gives up waiting for the result after blobPushConfirmTimeout.
BrainPushTimeout(s) ==
  /\ Running(s)
  /\ cur.pc = "await"
  /\ cur' = [cur EXCEPT !.pc = "ack"]
  /\ UNCHANGED <<keeperVars, sessVars, brain, lines, know, histVars>>

\* dispatchLine acknowledges once HandleLine has returned.
BrainAck(s) ==
  /\ Running(s)
  /\ cur.pc = "ack"
  /\ Ask(s, <<[t |-> "ack", seq |-> cur.seq]>>)
  /\ cur' = NoLine
  /\ UNCHANGED <<keeperVars, known, sess, fan, wire, owner, brain, lines, know, histVars>>

BrainDial(s) ==
  /\ Running(s)
  /\ brain.wantDial /\ ~brain.closing
  /\ Changes - Asked < MaxChanges
  /\ brain' = [brain EXCEPT !.wantDial = FALSE]
  /\ Ask(s, <<[t |-> "dial"]>>)
  /\ UNCHANGED <<keeperVars, known, sess, fan, wire, owner, lines, cur, know, histVars>>

\* An operator's Reconnect: close, wait for the result, dial.
BrainReconnect(s) ==
  /\ Running(s)
  /\ known
  /\ reconnects < MaxReconnect
  /\ Changes < MaxChanges
  /\ ~brain.closing /\ ~brain.wantDial
  /\ reconnects' = reconnects + 1
  /\ brain' = [brain EXCEPT !.closing = TRUE]
  /\ Ask(s, <<[t |-> "close"]>>)
  /\ UNCHANGED <<keeperVars, known, sess, fan, wire, owner, lines, cur, know, lineEpoch, feed, told>>

\* The brain process dies or is restarted, anywhere.
BrainCrash ==
  /\ brain.pc # "down"
  /\ brain.sess < MaxSession
  /\ Changes + 2 * reconnects < MaxChanges
  /\ brain' = [Down EXCEPT !.sess = brain.sess]
  /\ lines' = <<>>
  /\ cur' = NoLine
  /\ know' = {}
  /\ wire' = [wire EXCEPT ![brain.sess] = <<>>]
  /\ UNCHANGED <<keeperVars, known, sess, fan, up, owner, histVars>>

-----------------------------------------------------------------------------
SessionStep(s) ==
  \/ LiveReady(s) \/ Teardown(s)
  \/ HandleBlobPush(s) \/ HandleSeqAck(s) \/ HandleDial(s) \/ HandleClose(s)

FanStep(s) ==
  \/ FanSubscribe(s) \/ FanSubscribeLines(s) \/ FanCatchUp(s) \/ FanLine(s)
  \/ FanOverflow(s) \/ FanSwap(s) \/ FanEvent(s) \/ FanDrain(s)
  \/ FanForward(s) \/ FanEnd(s)

BrainStep(s) ==
  \/ AttachHello(s) \/ AttachAck(s) \/ BrainRecv(s) \/ BrainDetached(s)
  \/ BrainHandle(s) \/ BrainPushTimeout(s) \/ BrainAck(s)
  \/ BrainDial(s)

SNext ==
  \/ \E e \in Epochs : KeeperRead(e)
  \/ \E c \in Closers : KeeperClose(c) \/ HandleCloseResult(c)
  \/ \E d \in Dialers : HandleDialInstall(d) \/ HandleDialResult(d)
  \/ \E s \in Sessions : SessionStep(s) \/ FanStep(s) \/ BrainStep(s)
  \/ \E s \in Sessions : OtherNetworkGap(s) \/ BrainReconnect(s)
  \/ BrainCrash

SSpec == SInit /\ [][SNext]_vars

\* Goroutines that can run do, a brain that went down is started again, and a
\* Dial ends.  Nothing is assumed of the network, the operator or the crashes:
\* no line has to arrive and no connection has to be made or lost.  PushBlob's
\* timeout is not assumed to expire either.
SFairness ==
  /\ \A e \in Epochs :
       WF_vars(reader[e].pc # "read" /\ KeeperRead(e))
  /\ \A d \in Dialers : WF_vars(HandleDialInstall(d) \/ HandleDialResult(d))
  /\ \A c \in Closers : WF_vars(KeeperClose(c) \/ HandleCloseResult(c))
  /\ \A s \in Sessions :
       /\ WF_vars(SessionStep(s))
       /\ WF_vars(FanStep(s))
       /\ WF_vars(AttachHello(s) \/ AttachAck(s))
       /\ WF_vars(BrainRecv(s) \/ BrainDetached(s))
       /\ WF_vars(BrainHandle(s) \/ BrainAck(s))
       /\ WF_vars(BrainDial(s))

FairSSpec == SSpec /\ SFairness

-----------------------------------------------------------------------------
(* Properties.                                                             *)

\* The brain's state is complete for the live connection: once it has taken
\* in a line, it has taken in every earlier line of that connection that
\* changed the state, directly or through the blob it was seeded with, no
\* matter how often the brain was restarted in between and where.
ResumeComplete ==
  \A x \in know : x.epoch = conn =>
    \A n \in StateLines :
      n < x.seq /\ lineEpoch[n] = conn => [seq |-> n, epoch |-> conn] \in know

\* The watermark never runs ahead of the blob: the effect of every
\* acknowledged line of the live connection is in the blob a new brain would
\* be seeded with (push the derived entry before the acknowledgement).
AckedIsDurable ==
  \A n \in StateLines :
    conn # 0 /\ n <= deliveredSeq /\ lineEpoch[n] = conn
      => [seq |-> n, epoch |-> conn] \in blob

\* Every attach is sent consecutive lines from its start watermark on: no
\* gap, no repetition, no reordering between the ring's backlog, the live feed
\* and the feed that replaces it after an overflow.
FeedContiguous ==
  \A s \in Sessions : \A i \in 1 .. Len(feed[s]) - 1 : feed[s][i + 1] = feed[s][i] + 1

\* The fan-in may still read a feed whose overflow was signalled, as the select
\* in fanInNetwork picks any channel that is ready.
MayReadOverflowed(s) == fan[s].pc \in {"loop", "drain"} /\ lineSub[Sub(s)].over

\* FeedContiguous but for such reads: whatever else happens, each line sent is
\* the one after the last.
FeedInOrder ==
  [][\A s \in Sessions : \A i \in Len(feed[s]) + 1 .. Len(feed'[s]) :
       i > 1 /\ ~MayReadOverflowed(s) => feed'[s][i] = feed'[s][i - 1] + 1]_vars

\* No two loops have a line in hand, its seq taken and not yet published.  Two may
\* when a Dial installs the next connection while a Close still waits for the loop
\* of the last one (CloseShut, CloseReturn): then its line follows those of the
\* next connection in the ring.
LinesApart ==
  \A e, f \in Epochs :
    reader[e].pc \in {"push", "publish"} /\ reader[f].pc \in {"push", "publish"} => e = f

\* Neither the ring nor what is sent from it has a gap, whichever connection a line
\* came from: what since's gap test and the resume watermark take for granted.  It
\* is so as long as LinesApart is, which serial callers ensure.
StreamWhole == []RingContiguous /\ FeedInOrder

\* The brain hears of the loss of a connection only after every line of that
\* connection that comes out of a feed (fanInNetwork drains the feed before it
\* forwards an event).  Lines that a feed has lost come out of the ring, later.
LossAfterLines ==
  [][\A s \in Sessions : \A i \in Len(feed[s]) + 1 .. Len(feed'[s]) :
       fan[s].pc \in {"loop", "drain"} => lineEpoch[feed'[s][i]] \notin told[s]]_vars

\* As LossAfterLines, of the lines from the ring too.
LossAfterAllLines ==
  [][\A s \in Sessions : \A i \in Len(feed[s]) + 1 .. Len(feed'[s]) :
       fan[s].pc # "off" => lineEpoch[feed'[s][i]] \notin told[s]]_vars

\* Every line read from the network is in the end acknowledged, whichever
\* brain does it and wherever the earlier ones died: no line is stranded
\* between the ring, the fan-in, the demux and the watermark.
LinesAcked == \A n \in Seqs : seqCounter >= n ~> deliveredSeq >= n

\* blob.go:89-91 says of Clear that "a fresh Dial always starts a blank
\* transcript": what the blob records is of the live connection, never of an
\* earlier one.
BlobIsFresh == conn # 0 => \A x \in blob : x.epoch = conn
=============================================================================
