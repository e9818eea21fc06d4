------------------------------ MODULE Listener ------------------------------
(***************************************************************************)
(* The keeper's unix-socket Listener (internal/keeper/listener.go): every  *)
(* accepted connection is handled by its own goroutine, which checks the   *)
(* Hello, claims the one live slot, serves, and tears down.  Tearing down  *)
(* overlaps with whatever connects next: serveLive frees the slot as soon  *)
(* as the socket is closed, waits up to two seconds for the goroutines it  *)
(* started, and handleConn frees the slot once more when it returns.       *)
(*                                                                         *)
(* What a live session delivers is module LiveSession's subject.           *)
(***************************************************************************)
EXTENDS Integers

CONSTANTS
  Conns,             \* connections ever accepted
  Hellos,            \* the Hello frames they may send
  KeeperMin,         \* keeperMinVersion
  KeeperMax,         \* keeperMaxVersion
  KeeperGeneration,  \* version.KeeperVersion
  MaxWork            \* bound: goroutines of one session

HelloType == [mode : {"live", "validate", "other"}, client : Nat, min : Nat, minKeeper : Nat]

ASSUME ListenerAssumption ==
  /\ Hellos \subseteq HelloType
  /\ KeeperMin \in Nat \ {0} /\ KeeperMax \in Nat /\ KeeperMin <= KeeperMax
  /\ KeeperGeneration \in Nat
  /\ MaxWork \in Nat \ {0}

VARIABLES
  liveAttached, \* Listener.liveAttached
  h,            \* handleConn of each connection: where it stands
  hello,        \* the Hello it received
  answer,       \* what it answered: "ack" and the version, or why it refused
  reader,       \* liveSession.readLoop of the connection
  work,         \* liveSession.wg: its counter
  stopped       \* liveSession.stopped

sessVars == <<reader, work, stopped>>
vars     == <<liveAttached, h, hello, answer, sessVars>>

NoHello  == [mode |-> "none"]
NoAnswer == [why |-> "none", version |-> 0]

HandlerPC == {"new", "check", "ack", "validate", "waitReady", "live",
              "closed", "freed", "wait", "return", "abort", "gone"}
ReaderPC  == {"off", "reading", "got", "done"}
Refusals  == {"version", "keeper too old", "busy", "mode"}

Init ==
  /\ liveAttached = FALSE
  /\ h = [c \in Conns |-> "new"]
  /\ hello = [c \in Conns |-> NoHello]
  /\ answer = [c \in Conns |-> NoAnswer]
  /\ reader = [c \in Conns |-> "off"]
  /\ work = [c \in Conns |-> 0]
  /\ stopped = [c \in Conns |-> FALSE]

-----------------------------------------------------------------------------
(* handleConn.                                                             *)

\* The Hello arrives.  A connection that authorizePeer refuses or whose Hello
\* cannot be read is closed.
ReadHello(c) ==
  /\ h[c] = "new"
  /\ \/ \E m \in Hellos :
          /\ hello' = [hello EXCEPT ![c] = m]
          /\ h' = [h EXCEPT ![c] = "check"]
     \/ /\ h' = [h EXCEPT ![c] = "gone"]
        /\ UNCHANGED hello
  /\ UNCHANGED <<liveAttached, answer, sessVars>>

\* The protocol version to speak, or 0 for "no compatible version".
negotiateVersion(clientVersion, clientMin) ==
  LET min == IF clientMin <= 0 THEN 1 ELSE clientMin
      negotiated == IF clientVersion > KeeperMax THEN KeeperMax ELSE clientVersion
  IN IF negotiated < KeeperMin \/ negotiated < min THEN 0 ELSE negotiated

\* The first check a Hello fails, in the order of the code.
Refusal(m) ==
  IF negotiateVersion(m.client, m.min) = 0 THEN "version"
  ELSE IF m.minKeeper > KeeperGeneration THEN "keeper too old"
  ELSE IF m.mode = "live" /\ liveAttached THEN "busy"
  ELSE IF m.mode = "other" THEN "mode"
  ELSE "none"

Refuse(c) ==
  /\ h[c] = "check"
  /\ Refusal(hello[c]) # "none"
  /\ answer' = [answer EXCEPT ![c].why = Refusal(hello[c])]
  /\ h' = [h EXCEPT ![c] = "gone"]
  /\ UNCHANGED <<liveAttached, hello, sessVars>>

\* A live attach claims the slot; a validate attach claims nothing.
Admit(c) ==
  /\ h[c] = "check"
  /\ Refusal(hello[c]) = "none"
  /\ liveAttached' = (liveAttached \/ hello[c].mode = "live")
  /\ h' = [h EXCEPT ![c] = "ack"]
  /\ UNCHANGED <<hello, answer, sessVars>>

\* Mutant: a HelloAck that cannot be written returns past the release.
HelloAckLeaks(c) ==
  /\ h[c] = "ack"
  /\ \/ /\ answer' = [answer EXCEPT ![c] = [why |-> "ack", version |-> negotiateVersion(hello[c].client, hello[c].min)]]
        /\ h' = [h EXCEPT ![c] = IF hello[c].mode = "live" THEN "waitReady" ELSE "validate"]
     \/ /\ h' = [h EXCEPT ![c] = "gone"]
        /\ UNCHANGED answer
  /\ UNCHANGED <<liveAttached, hello, sessVars>>

\* Write the HelloAck.  A live connection on which that fails has the deferred
\* release of the slot to go through.
HelloAck(c) ==
  /\ h[c] = "ack"
  /\ \/ /\ answer' = [answer EXCEPT ![c] = [why |-> "ack", version |-> negotiateVersion(hello[c].client, hello[c].min)]]
        /\ h' = [h EXCEPT ![c] = IF hello[c].mode = "live" THEN "waitReady" ELSE "validate"]
     \/ /\ h' = [h EXCEPT ![c] = IF hello[c].mode = "live" THEN "abort" ELSE "gone"]
        /\ UNCHANGED answer
  /\ UNCHANGED <<liveAttached, hello, sessVars>>

\* serveValidate: ValidateReady changes nothing; anything else ends it.
serveValidate(c) ==
  /\ h[c] = "validate"
  /\ h' = [h EXCEPT ![c] = "gone"]
  /\ UNCHANGED <<liveAttached, hello, answer, sessVars>>

\* serveLive: LiveReady starts the session, with a fan-in for each network
\* held; anything else ends the connection.
LiveReady(c) ==
  /\ h[c] = "waitReady"
  /\ \/ /\ h' = [h EXCEPT ![c] = "live"]
        /\ reader' = [reader EXCEPT ![c] = "reading"]
        /\ \E n \in 0 .. MaxWork : work' = [work EXCEPT ![c] = n]
     \/ /\ h' = [h EXCEPT ![c] = "abort"]
        /\ UNCHANGED <<reader, work>>
  /\ UNCHANGED <<liveAttached, hello, answer, stopped>>

\* The peer is gone, a write failed, a fan-in killed the session or the
\* listener shuts down: cancel the context, close the socket ...
EndLive(c) ==
  /\ h[c] = "live"
  /\ h' = [h EXCEPT ![c] = "closed"]
  /\ UNCHANGED <<liveAttached, hello, answer, sessVars>>

\* ... free the slot ...
FreeSlot(c) ==
  /\ h[c] = "closed"
  /\ liveAttached' = FALSE
  /\ h' = [h EXCEPT ![c] = "freed"]
  /\ UNCHANGED <<hello, answer, sessVars>>

\* ... let no goroutine be added any more ...
SetStopped(c) ==
  /\ h[c] = "freed"
  /\ stopped' = [stopped EXCEPT ![c] = TRUE]
  /\ h' = [h EXCEPT ![c] = "wait"]
  /\ UNCHANGED <<liveAttached, hello, answer, reader, work>>

\* Mutant: the wait has no timeout.
WaitForAll(c) ==
  /\ h[c] = "wait"
  /\ work[c] = 0
  /\ h' = [h EXCEPT ![c] = "return"]
  /\ UNCHANGED <<liveAttached, hello, answer, sessVars>>

\* ... and wait for the ones there are, for two seconds at most.
WaitDone(c) ==
  /\ h[c] = "wait"
  /\ h' = [h EXCEPT ![c] = "return"]
  /\ UNCHANGED <<liveAttached, hello, answer, sessVars>>

\* handleConn returns: its own deferred release of the slot.
HandlerReturn(c) ==
  /\ h[c] \in {"return", "abort"}
  /\ liveAttached' = FALSE
  /\ h' = [h EXCEPT ![c] = "gone"]
  /\ UNCHANGED <<hello, answer, sessVars>>

-----------------------------------------------------------------------------
(* The goroutines of a live session.                                       *)

\* readLoop has a request in hand and has seen the context not yet canceled.
ReaderFrame(c) ==
  /\ reader[c] = "reading"
  /\ h[c] = "live"
  /\ reader' = [reader EXCEPT ![c] = "got"]
  /\ UNCHANGED <<liveAttached, h, hello, answer, work, stopped>>

\* WriteRequest, BlobPush and SeqAck are handled on the spot.
HandleInline(c) ==
  /\ reader[c] = "got"
  /\ reader' = [reader EXCEPT ![c] = "reading"]
  /\ UNCHANGED <<liveAttached, h, hello, answer, work, stopped>>

\* beginWork, for a Dial, a Close or a QuitClose: a goroutine of its own,
\* unless the teardown has begun.
beginWork(c) ==
  /\ reader[c] = "got"
  /\ IF stopped[c]
     THEN /\ reader' = [reader EXCEPT ![c] = "done"]
          /\ UNCHANGED work
     ELSE /\ work[c] < MaxWork
          /\ reader' = [reader EXCEPT ![c] = "reading"]
          /\ work' = [work EXCEPT ![c] = @ + 1]
  /\ UNCHANGED <<liveAttached, h, hello, answer, stopped>>

\* The read fails or a frame is malformed.
ReaderEnd(c) ==
  /\ reader[c] \in {"reading", "got"}
  /\ reader' = [reader EXCEPT ![c] = "done"]
  /\ UNCHANGED <<liveAttached, h, hello, answer, work, stopped>>

\* Mutant: a fan-in is started without beginWork.
startFanInUnchecked(c) ==
  /\ work[c] \in 1 .. MaxWork - 1
  /\ work' = [work EXCEPT ![c] = @ + 1]
  /\ UNCHANGED <<liveAttached, h, hello, answer, reader, stopped>>

\* A successful Dial starts the network's fan-in.
startFanIn(c) ==
  /\ work[c] \in 1 .. MaxWork - 1
  /\ ~stopped[c]
  /\ work' = [work EXCEPT ![c] = @ + 1]
  /\ UNCHANGED <<liveAttached, h, hello, answer, reader, stopped>>

WorkDone(c) ==
  /\ work[c] > 0
  /\ work' = [work EXCEPT ![c] = @ - 1]
  /\ UNCHANGED <<liveAttached, h, hello, answer, reader, stopped>>

-----------------------------------------------------------------------------
HandlerStep(c) ==
  \/ ReadHello(c) \/ Refuse(c) \/ Admit(c) \/ HelloAck(c) \/ serveValidate(c)
  \/ LiveReady(c) \/ EndLive(c) \/ FreeSlot(c) \/ SetStopped(c) \/ WaitDone(c)
  \/ HandlerReturn(c)

WorkStep(c) ==
  \/ ReaderFrame(c) \/ HandleInline(c) \/ beginWork(c) \/ ReaderEnd(c)
  \/ startFanIn(c) \/ WorkDone(c)

Next == \E c \in Conns : HandlerStep(c) \/ WorkStep(c)

Spec == Init /\ [][Next]_vars

\* A handler that is not waiting for its peer runs on; its wait for the
\* goroutines has a timeout.  No goroutine has to end and no peer has to speak.
Fairness ==
  \A c \in Conns :
    WF_vars(Refuse(c) \/ Admit(c) \/ HelloAck(c) \/ FreeSlot(c) \/ SetStopped(c)
              \/ WaitDone(c) \/ HandlerReturn(c))

FairSpec == Spec /\ Fairness

-----------------------------------------------------------------------------
(* Properties.                                                             *)

\* Every variable has its type.
TypeOK ==
  /\ liveAttached \in BOOLEAN
  /\ h \in [Conns -> HandlerPC]
  /\ hello \in [Conns -> Hellos \union {NoHello}]
  /\ answer \in [Conns -> [why : Refusals \union {"none", "ack"}, version : 0 .. KeeperMax]]
  /\ reader \in [Conns -> ReaderPC]
  /\ work \in [Conns -> 0 .. MaxWork]
  /\ stopped \in [Conns -> BOOLEAN]

Holding == {"ack", "waitReady", "live", "closed", "abort"}

\* The live slot is never leaked: while it is taken, some connection that
\* claimed it has not yet come to its release, whichever of the error paths of
\* handleConn and serveLive it takes.  A session that only winds down does not
\* keep a reloaded brain out ("a live attach is already active").
SlotHeld == liveAttached => \E c \in Conns : hello[c].mode = "live" /\ h[c] \in Holding

\* Every Hello gets the right answer: the highest version both sides speak, a
\* refusal for versions only when they have none in common, and "busy" only for
\* a brain this keeper could have served (the versions are checked before the
\* slot, so that an incompatible brain learns so while the old one is attached).
AnswerSound ==
  \A c \in Conns : answer[c].why # "none" =>
    LET m      == hello[c]
        common == {v \in KeeperMin .. KeeperMax : v <= m.client /\ v >= m.min}
    IN /\ answer[c].why = "version" <=> common = {}
       /\ answer[c].why = "ack" =>
            /\ answer[c].version \in common
            /\ \A v \in common : v <= answer[c].version
       /\ answer[c].why = "busy" => m.minKeeper <= KeeperGeneration

\* serveLive never waits for goroutines while more can be added: once it waits
\* the counter only falls, although readLoop may still hold a request and a
\* Dial may still succeed (WaitGroup forbids an Add that races Wait).
NoAddAfterWait ==
  [][\A c \in Conns : h[c] \in {"wait", "return"} => work'[c] <= work[c]]_vars

\* A torn-down session is over in bounded time, even if one of its goroutines
\* hangs in a Dial and never ends.
TeardownEnds == \A c \in Conns : h[c] \in {"closed", "abort"} ~> h[c] = "gone"

\* listener.go:20-23 says that "at most one live-mode connection is attached
\* across the whole process at a time".
AtMostOneLive == \A c, d \in Conns : h[c] = "live" /\ h[d] = "live" => c = d
=============================================================================
