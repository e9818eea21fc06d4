------------------------------- MODULE Driver -------------------------------
(***************************************************************************)
(* The brain's Driver (internal/brain/driver.go, reconnect.go,             *)
(* keepalive.go) for one network: what keeps it dialed and registered.     *)
(* The goroutines that touch this state are Run, which takes the keeper's  *)
(* frames one by one; the demux, which starts a registration for every     *)
(* successful dial; the callbacks of the redial and the deadline timer;    *)
(* the keepalive loop; and the operator's commands.                        *)
(*                                                                         *)
(* The keeper is reduced to what it shows the Driver: requests are served  *)
(* by goroutines of their own, in any order; a deliberate close is silent; *)
(* a lost connection is announced once the fan-in is subscribed.           *)
(*                                                                         *)
(* Time is left out: a timer may fire whenever it is armed.  With Prompt,   *)
(* a redial's backoff (one second or more) and the keepalive (minutes) are *)
(* taken to outlast the work that is under way inside the two processes,   *)
(* though not a Dial, which takes as long as the network makes it take.    *)
(***************************************************************************)
EXTENDS Integers, Sequences

CONSTANTS
  MaxEpoch,  \* bound: connections ever made
  MaxOps,    \* bound: operator commands
  MaxMoves,  \* bound: the two together
  Commands,  \* the commands the operator may give
  Prompt     \* TRUE: backoff and keepalive outlast local work

ASSUME DriverAssumption ==
  /\ MaxEpoch \in Nat \ {0}
  /\ MaxOps \in Nat /\ MaxMoves \in Nat
  /\ Commands \subseteq {"stop", "reconnect"}
  /\ Prompt \in BOOLEAN

VARIABLES
  conn, epoch, \* the Keeper's connection (0 for none) and its epoch counter
  dials,       \* DialRequests the keeper has not finished
  made,        \* connections whose DialResult has not been sent yet
  closes,      \* CloseRequests the keeper has not served
  fanIn,       \* the listener's fan-in of this network is subscribed
  toBrain,     \* frames on their way to Run
  phase,       \* states[id].Phase
  epochs,      \* epochs[id]
  stopped,     \* stopped[id]
  redial,      \* reconnectTimers[id] is armed
  redialing,   \* its callback has passed the check for a stop
  deadline,    \* deadlines[id] is armed
  keepalive,   \* keepStops[id] is set: the idle-PING loop runs
  waiter,      \* closeWaiters[id] is set: a Reconnect waits for a CloseResult
  confirmed,   \* Reconnects that have had theirs and are about to dial
  line,        \* the line handleLine is processing
  starts,      \* DialResults the demux has not handled
  opening,     \* the demux inside StartRegistration
  want,        \* history: what the operator last asked for
  cleanStop,   \* history: nothing was in flight at the last StopNetwork
  sent,        \* history: registration openings written to each connection
  done,        \* history: connections whose registration completed
  superseded,  \* history: newest connection a Reconnect replaced
  forgone,     \* history: redials the Driver let go since the last command:
               \* a "reconnect" that timed out, a "loss" taken for a stale one
  ops          \* history: operator commands so far

keeperVars == <<conn, epoch, dials, made, closes, fanIn>>
timerVars  == <<stopped, redial, redialing, deadline>>
waiting    == <<waiter, confirmed>>
demuxVars  == <<starts, opening>>
histVars   == <<want, cleanStop, sent, done, superseded, forgone, ops>>
vars == <<keeperVars, toBrain, phase, epochs, timerVars, keepalive,
          waiting, line, demuxVars, histVars>>

Epochs == 1 .. MaxEpoch

NoLine == [pc |-> "off", kind |-> "none", epoch |-> 0, phase |-> "none"]

\* A brain starts with the network to be dialed, or resumes one the keeper
\* holds (RegisterResumedNetwork, UpdateDialConfig).
Init ==
  /\ \/ /\ conn = 0 /\ epoch = 0 /\ dials = 1 /\ fanIn = FALSE
        /\ phase = "registering" /\ keepalive = FALSE /\ done = {}
     \/ /\ conn = 1 /\ epoch = 1 /\ dials = 0 /\ fanIn = TRUE
        /\ phase = "complete" /\ keepalive = TRUE /\ done = {1}
  /\ made = {}
  /\ closes = 0
  /\ toBrain = <<>>
  /\ epochs = 0
  /\ stopped = FALSE
  /\ redial = FALSE
  /\ redialing = FALSE
  /\ deadline = FALSE
  /\ waiter = FALSE /\ confirmed = 0
  /\ line = NoLine
  /\ starts = 0
  /\ opening = FALSE
  /\ want = "up"
  /\ cleanStop = FALSE
  /\ sent = [e \in Epochs |-> IF e = conn THEN 1 ELSE 0]
  /\ superseded = 0
  /\ forgone = {}
  /\ ops = 0

-----------------------------------------------------------------------------
(* The keeper, as the Driver sees it.                                      *)

Frame(t, e) == [t |-> t, epoch |-> e]

Announce(frames) == toBrain' = toBrain \o frames

KeeperOnly ==
  UNCHANGED <<phase, epochs, timerVars, keepalive, waiting, line, demuxVars,
              want, cleanStop, done, superseded, forgone, ops>>

DialOK ==
  /\ dials > 0
  /\ conn = 0
  /\ epoch < MaxEpoch /\ epoch + ops < MaxMoves
  /\ dials' = dials - 1
  /\ conn' = epoch + 1
  /\ epoch' = epoch + 1
  /\ made' = made \union {epoch + 1}
  /\ Announce(IF fanIn THEN <<Frame("connected", epoch + 1)>> ELSE <<>>)
  /\ UNCHANGED <<closes, fanIn, sent>>
  /\ KeeperOnly

\* The network is unreachable, or ErrAlreadyConnected.
DialFailed ==
  /\ dials > 0
  /\ dials' = dials - 1
  /\ Announce(<<Frame("dialfail", 0)>>)
  /\ UNCHANGED <<conn, epoch, made, closes, fanIn, sent>>
  /\ KeeperOnly

\* The result of a successful Dial, after which the network is streamed.
DialResult(e) ==
  /\ e \in made
  /\ made' = made \ {e}
  /\ Announce(<<Frame("dialok", e)>>)
  /\ fanIn' = TRUE
  /\ UNCHANGED <<conn, epoch, dials, closes, sent>>
  /\ KeeperOnly

ServeClose ==
  /\ closes > 0
  /\ closes' = closes - 1
  /\ conn' = 0
  /\ Announce(<<Frame("closeres", 0)>>)
  /\ UNCHANGED <<epoch, dials, made, fanIn, sent>>
  /\ KeeperOnly

\* The connection is lost.  Before the first fan-in nobody is told.
Lose ==
  /\ conn # 0
  /\ conn' = 0
  /\ Announce(IF fanIn THEN <<Frame("disconnected", conn)>> ELSE <<>>)
  /\ UNCHANGED <<epoch, dials, made, closes, fanIn, sent>>
  /\ KeeperOnly

\* The ircd answers an opening: welcome, or a refusal (nick, SASL, ERROR).
Answer(kind) ==
  /\ conn # 0 /\ fanIn
  /\ sent[conn] > 0 /\ conn \notin done
  /\ ~\E i \in DOMAIN toBrain : toBrain[i].t \in {"welcome", "refused"}
  /\ line.pc = "off"
  /\ Announce(<<Frame(kind, conn)>>)
  /\ UNCHANGED <<keeperVars, sent>>
  /\ KeeperOnly

KeeperStep ==
  \/ DialOK \/ DialFailed \/ (\E e \in Epochs : DialResult(e)) \/ ServeClose \/ Lose
  \/ \E kind \in {"welcome", "refused"} : Answer(kind)

-----------------------------------------------------------------------------
(* What the Driver's own operations have in common.                        *)

\* armReconnect: nothing on a stopped network; otherwise (re)start the timer.
armReconnect == redial' = (redial \/ ~stopped)

\* resetStateLocked.
ResetState ==
  /\ phase' = "registering"
  /\ deadline' = FALSE
  /\ keepalive' = FALSE

\* failRegistration, after n CloseRequests of the caller's own: only a
\* registration in progress can fail, and it closes the connection.
failRegistration(n) ==
  IF phase = "registering"
  THEN /\ phase' = "failed"
       /\ deadline' = FALSE
       /\ closes' = closes + n + 1
  ELSE /\ closes' = closes + n
       /\ UNCHANGED <<phase, deadline>>

\* handleNetworkEvent for a disconnect, the keeper's or the keepalive loop's:
\* one of a superseded connection is ignored.
Disconnected(e, n) ==
  IF e < epochs
  THEN UNCHANGED <<phase, deadline, closes, keepalive, redial>>
  ELSE /\ keepalive' = FALSE
       /\ failRegistration(n)
       /\ armReconnect

recordEpoch(e) == epochs' = IF e > epochs THEN e ELSE epochs

-----------------------------------------------------------------------------
(* Run: one frame at a time.                                               *)

Take(t) ==
  /\ line.pc = "off"
  /\ toBrain # <<>>
  /\ Head(toBrain).t = t
  /\ toBrain' = Tail(toBrain)

RecvDialOK ==
  /\ Take("dialok")
  /\ recordEpoch(Head(toBrain).epoch)
  /\ stopped' = FALSE           \* resetBackoff
  /\ redial' = FALSE
  /\ keepalive' = TRUE
  /\ starts' = starts + 1
  /\ UNCHANGED <<keeperVars, phase, redialing, deadline, waiting, line, opening, histVars>>

\* Mutant: a failed dial is only logged.
RecvDialFailedQuiet ==
  /\ Take("dialfail")
  /\ UNCHANGED <<keeperVars, phase, epochs, timerVars, keepalive, waiting, line, demuxVars, histVars>>

RecvDialFailed ==
  /\ Take("dialfail")
  /\ armReconnect
  /\ UNCHANGED <<keeperVars, phase, epochs, stopped, redialing, deadline, keepalive, waiting, line, demuxVars, histVars>>

\* notifyCloseWaiter: any CloseResult wakes the Reconnect that waits.
RecvCloseResult ==
  /\ Take("closeres")
  /\ waiter' = FALSE
  /\ confirmed' = IF waiter THEN confirmed + 1 ELSE confirmed
  /\ UNCHANGED <<keeperVars, phase, epochs, timerVars, keepalive, line,
                 demuxVars, histVars>>

RecvConnected ==
  /\ Take("connected")
  /\ recordEpoch(Head(toBrain).epoch)
  /\ keepalive' = TRUE
  /\ UNCHANGED <<keeperVars, phase, timerVars, waiting, line, demuxVars, histVars>>

RecvDisconnected ==
  /\ Take("disconnected")
  /\ Disconnected(Head(toBrain).epoch, 0)
  /\ forgone' = IF Head(toBrain).epoch = epoch /\ superseded < epoch /\ epoch < epochs
                THEN forgone \union {"loss"} ELSE forgone
  /\ UNCHANGED <<conn, epoch, dials, made, fanIn, epochs, stopped, redialing, waiting, line, demuxVars,
                 want, cleanStop, sent, done, superseded, ops>>

\* handleLine reads the state under the lock ...
RecvLine(kind) ==
  /\ Take(kind)
  /\ line' = [pc |-> "step", kind |-> kind, epoch |-> Head(toBrain).epoch, phase |-> phase]
  /\ UNCHANGED <<keeperVars, phase, epochs, timerVars, keepalive, waiting,
                 demuxVars, histVars>>

\* ... and writes the state that follows from what it read, acting on it.
StepLine ==
  /\ line.pc = "step"
  /\ line' = NoLine
  /\ \/ /\ line.phase # "registering"
        /\ phase' = line.phase
        /\ UNCHANGED <<deadline, closes, redial, done>>
     \/ /\ line.phase = "registering" /\ line.kind = "welcome"
        /\ phase' = "complete"
        /\ deadline' = FALSE
        /\ done' = done \union {line.epoch}
        /\ UNCHANGED <<closes, redial>>
     \/ /\ line.phase = "registering" /\ line.kind = "refused"
        /\ phase' = "failed"
        /\ deadline' = FALSE
        /\ closes' = closes + 1
        /\ armReconnect
        /\ UNCHANGED done
  /\ UNCHANGED <<conn, epoch, dials, made, fanIn, toBrain, epochs, stopped,
                 redialing, keepalive, waiting, demuxVars, want, cleanStop, sent, superseded, forgone, ops>>

RunStep ==
  \/ RecvDialOK \/ RecvDialFailed \/ RecvCloseResult \/ RecvConnected
  \/ RecvDisconnected \/ (\E kind \in {"welcome", "refused"} : RecvLine(kind)) \/ StepLine

-----------------------------------------------------------------------------
(* The demux: StartRegistration for every successful DialResult.           *)

\* The opening goes to whatever connection is up by then, if any ...
StartSend ==
  /\ starts > 0 /\ ~opening
  /\ starts' = starts - 1
  /\ opening' = TRUE
  /\ sent' = IF conn = 0 THEN sent ELSE [sent EXCEPT ![conn] = @ + 1]
  /\ UNCHANGED <<keeperVars, toBrain, phase, epochs, timerVars, keepalive,
                 waiting, line, want, cleanStop, done, superseded, forgone, ops>>

\* Mutant: the deadline is not armed.
armNothing ==
  /\ opening
  /\ opening' = FALSE
  /\ UNCHANGED <<keeperVars, toBrain, phase, epochs, timerVars, keepalive, waiting, line, starts, histVars>>

\* ... and the deadline is armed after it.
armDeadline ==
  /\ opening
  /\ opening' = FALSE
  /\ deadline' = TRUE
  /\ UNCHANGED <<keeperVars, toBrain, phase, epochs, stopped, redial, redialing, keepalive, waiting, line, starts, histVars>>

-----------------------------------------------------------------------------
(* Timers and loops.  Stopping a timer does not stop a callback that runs.  *)

\* The deadline's callback: fail the registration if there is one, and arm a
\* redial either way.
DeadlineFire ==
  /\ deadline
  /\ Prompt => ~redialing
  /\ deadline' = FALSE
  /\ IF phase = "registering"
     THEN phase' = "failed" /\ closes' = closes + 1
     ELSE UNCHANGED <<phase, closes>>
  /\ armReconnect
  /\ UNCHANGED <<conn, epoch, dials, made, fanIn, toBrain, epochs, stopped,
                 redialing, keepalive, waiting, line, demuxVars, histVars>>

\* Nothing is under way but Dials.
Settled ==
  /\ closes = 0 /\ made = {} /\ toBrain = <<>> /\ line.pc = "off"
  /\ starts = 0 /\ ~opening /\ ~redialing /\ ~waiter /\ confirmed = 0

\* The redial's callback: check for a stop ...
RedialFire ==
  /\ redial /\ ~redialing
  /\ Prompt => Settled
  /\ redial' = FALSE
  /\ redialing' = ~stopped
  /\ UNCHANGED <<keeperVars, toBrain, phase, epochs, stopped, deadline,
                 keepalive, waiting, line, demuxVars, histVars>>

\* ... start from a fresh state and dial.
RedialSend ==
  /\ redialing
  /\ redialing' = FALSE
  /\ ResetState
  /\ dials' = dials + 1
  /\ UNCHANGED <<conn, epoch, made, closes, fanIn, toBrain, epochs, stopped, redial, waiting, line, demuxVars, histVars>>

\* The uplink stayed silent through idle and grace: close it, and handle the
\* disconnect the keeper will not announce.
KeepaliveTimeout ==
  /\ keepalive
  /\ Prompt => Settled
  /\ Disconnected(epochs, 1)
  /\ UNCHANGED <<conn, epoch, dials, made, fanIn, toBrain, epochs, stopped,
                 redialing, waiting, line, demuxVars, histVars>>

-----------------------------------------------------------------------------
(* The operator.                                                           *)

Operator(c) ==
  /\ c \in Commands
  /\ ops < MaxOps /\ epoch + ops < MaxMoves
  /\ ops' = ops + 1

\* StartNetworkByName on a stopped network: RegisterNetwork and Dial.
Start ==
  /\ want = "down"
  /\ want' = "up"
  /\ ResetState
  /\ stopped' = FALSE
  /\ redial' = FALSE
  /\ dials' = dials + 1
  /\ forgone' = {}
  /\ UNCHANGED <<conn, epoch, made, closes, fanIn, toBrain, epochs, redialing, waiting, line, demuxVars, cleanStop, sent, done, superseded, ops>>

\* A dial, a close or a result of one is under way somewhere.
InFlight ==
  \/ dials > 0 \/ made # {} \/ closes > 0 \/ waiter \/ confirmed > 0 \/ redialing
  \/ \E i \in DOMAIN toBrain : toBrain[i].t = "dialok"

\* Mutant: the network is closed but not marked as stopped.
StopNetworkForgets ==
  /\ want = "up"
  /\ Operator("stop")
  /\ want' = "down"
  /\ cleanStop' = ~InFlight
  /\ UNCHANGED stopped
  /\ redial' = FALSE
  /\ keepalive' = FALSE
  /\ closes' = closes + 1
  /\ UNCHANGED <<conn, epoch, dials, made, fanIn, toBrain, phase, epochs, redialing,
                 deadline, waiting, line, demuxVars, sent, done, superseded, forgone>>

\* StopNetwork: no more redials, the keepalive off, the connection closed.
StopNetwork ==
  /\ want = "up"
  /\ Operator("stop")
  /\ want' = "down"
  /\ cleanStop' = ~InFlight
  /\ stopped' = TRUE
  /\ redial' = FALSE
  /\ keepalive' = FALSE
  /\ closes' = closes + 1
  /\ UNCHANGED <<conn, epoch, dials, made, fanIn, toBrain, phase, epochs, redialing,
                 deadline, waiting, line, demuxVars, sent, done, superseded, forgone>>

\* Reconnect: fresh state, epochs moved past the old connection, close ...
Reconnect ==
  /\ want = "up"
  /\ Operator("reconnect")
  /\ ResetState
  /\ epochs' = epochs + 1
  /\ stopped' = FALSE
  /\ redial' = FALSE
  /\ closes' = closes + 1
  /\ waiter' = TRUE
  /\ superseded' = epoch
  /\ forgone' = {}
  /\ UNCHANGED <<conn, epoch, dials, made, fanIn, toBrain, redialing, confirmed, line,
                 demuxVars, want, cleanStop, sent, done>>

\* ... and, once a CloseResult has come, dial ...
ReconnectDial ==
  /\ confirmed > 0
  /\ confirmed' = confirmed - 1
  /\ dials' = dials + 1
  /\ UNCHANGED waiter
  /\ UNCHANGED <<conn, epoch, made, closes, fanIn, toBrain, phase, epochs, timerVars,
                 keepalive, line, demuxVars, histVars>>

\* ... or, with none in time, return an error and leave the network as it is;
\* of two results that are both there a select takes either.
ReconnectTimeout ==
  /\ \/ waiter /\ waiter' = FALSE /\ UNCHANGED confirmed
     \/ confirmed > 0 /\ confirmed' = confirmed - 1 /\ UNCHANGED waiter
  /\ forgone' = forgone \union {"reconnect"}
  /\ UNCHANGED <<keeperVars, toBrain, phase, epochs, timerVars, keepalive, line, demuxVars,
                 want, cleanStop, sent, done, superseded, ops>>

-----------------------------------------------------------------------------
Next ==
  \/ KeeperStep \/ RunStep
  \/ StartSend \/ armDeadline
  \/ DeadlineFire \/ RedialFire \/ RedialSend \/ KeepaliveTimeout
  \/ Start \/ StopNetwork \/ Reconnect \/ ReconnectDial \/ ReconnectTimeout

Spec == Init /\ [][Next]_vars

\* Requests are served, frames are read, timers expire, callbacks run to their
\* end.  The keepalive loop notices a connection that is down.  Nothing is
\* assumed of the ircd, of the network or of the operator.
Fairness ==
  /\ WF_vars(DialOK \/ DialFailed)
  /\ \A e \in Epochs : WF_vars(DialResult(e))
  /\ WF_vars(ServeClose)
  /\ WF_vars(RunStep)
  /\ WF_vars(StartSend \/ armDeadline)
  /\ WF_vars(DeadlineFire)
  /\ WF_vars(RedialFire \/ RedialSend)
  /\ WF_vars(conn = 0 /\ KeepaliveTimeout)
  /\ WF_vars(ReconnectDial \/ ReconnectTimeout)

FairSpec == Spec /\ Fairness

-----------------------------------------------------------------------------
(* Properties.                                                             *)

Phases == {"registering", "complete", "failed"}

\* Every variable has its type.
TypeOK ==
  /\ conn \in 0 .. MaxEpoch /\ epoch \in 0 .. MaxEpoch
  /\ dials \in Nat /\ closes \in Nat /\ starts \in Nat
  /\ made \subseteq Epochs
  /\ toBrain \in Seq([t : {"dialok", "dialfail", "closeres", "connected", "disconnected",
                           "welcome", "refused"}, epoch : 0 .. MaxEpoch])
  /\ phase \in Phases
  /\ epochs \in Nat /\ superseded \in 0 .. MaxEpoch
  /\ {fanIn, stopped, redial, redialing, deadline, keepalive, opening, cleanStop} \subseteq BOOLEAN
  /\ waiter \in BOOLEAN /\ confirmed \in Nat /\ forgone \subseteq {"reconnect", "loss"}
  /\ want \in {"up", "down"}
  /\ sent \in [Epochs -> Nat] /\ done \subseteq Epochs
  /\ ops \in 0 .. MaxOps

\* Wanted and down, with no dial on its way.
LeftDown == conn = 0 /\ want = "up" /\ dials = 0

\* A network that is wanted and down is dialed again, whatever the order in
\* which losses, dial results, close results, timers and commands come, as long
\* as no Reconnect gave up waiting for its CloseResult and no loss was taken for
\* that of the connection a Reconnect replaced (armReconnect, Reconnect).
Redials == []<>~(LeftDown /\ forgone = {})

\* driver.go:578-581 calls the wait for a CloseResult "generous headroom, not an
\* expected wait": a network whose close is served later than that stays down,
\* and so does one whose own loss is taken for the replaced connection's.
AlwaysRedials == []<>~LeftDown

\* A connection that was sent its registration opening is never left alone
\* unregistered: it completes, is given up, or a redial is armed, whatever
\* becomes of the deadline in between.
NeverStalls == []<>~(conn # 0 /\ sent[conn] > 0 /\ conn \notin done /\ ~redial)

\* A network stopped while nothing is in flight stays down: neither a pending
\* redial, a late disconnect nor the registration deadline brings it back.
StaysDown == <>[](want = "down" /\ cleanStop) => <>[](conn = 0)

\* reconnect.go:28-32 says the same of every StopNetwork.
StopIsFinal == <>[](want = "down") => <>[](conn = 0)

\* driver.go:38-41 says of the registration deadline that "a genuinely stalled
\* one fails in well under two minutes instead of not failing at all".
RegistrationResolves ==
  \A e \in Epochs : conn = e /\ sent[e] > 0 ~> e \in done \/ conn # e

\* driver.go:738-739 says of failRegistration's callers that "whichever gets
\* d.mu first wins, and the other becomes a no-op": on a connection that stays
\* up and has registered, the redials cease.
ConnectedSettles == <>[](conn # 0 /\ conn \in done) => <>[]~redial

\* driver.go:510-518 says that Reconnect's bump of epochs has a disconnect of
\* the connection being replaced "recognized as leftover noise from the old
\* one": it changes nothing of the new attempt.
StaleLossIgnored ==
  [][toBrain # <<>> /\ toBrain' = Tail(toBrain) /\ Head(toBrain).t = "disconnected"
       /\ Head(toBrain).epoch <= superseded
     => phase' = phase /\ redial' = redial]_vars

\* driver.go:519-523 says of the same bump that "there is no legitimate future
\* event this bump could wrongly suppress": the loss of the newest connection,
\* made after the last Reconnect, arms a redial.
LossNotIgnored ==
  [][toBrain # <<>> /\ toBrain' = Tail(toBrain) /\ Head(toBrain).t = "disconnected"
       /\ Head(toBrain).epoch = epoch /\ epoch > superseded
     => redial' \/ stopped]_vars

\* driver.go:680 says of StartRegistration that "every call here is necessarily
\* a fresh connection": no connection is sent the opening twice.
OpeningOnce == \A e \in Epochs : sent[e] <= 1
=============================================================================
