--------------------------- MODULE DownlinkProofs ---------------------------
(***************************************************************************)
(* Proofs about Downlink, for any number of clients, sessions and events.  *)
(***************************************************************************)
EXTENDS Downlink, FiniteSetTheorems, TLAPS

HandlerPC == {"off", "shake", "auth", "attach", "burst", "run", "leaving", "refused", "gone"}
Message ==
    [t : {"ls", "new", "del", "error", "line", "ack", "ping"}, names : SUBSET Caps, n : Nat]
Job == [to : {"idle", "ls", "req", "sync"}, names : SUBSET Caps]
Knowledge == [view : SUBSET Caps, error : BOOLEAN, last : Nat, hole : BOOLEAN]
Work ==
    [to : {"idle", "new", "del"}, names : SUBSET Caps] \cup [to : {"lost"}, names : SUBSET Clients]

\* The variables the proofs speak of have their types.
TypeOK ==
    /\ pc \in [Clients -> HandlerPC]
    /\ prov \in [Clients -> Sessions \cup {NONE}]
    /\ at \in [Clients -> Sessions \cup {NONE}]
    /\ job \in [Clients -> Job]
    /\ out \in [Clients -> Seq(Message)]
    /\ closed \in [Clients -> {"no", "closed", "overflow"}]
    /\ tcp \in [Clients -> {"up", "ended", "left"}]
    /\ got \in [Clients -> Knowledge]
    /\ cur \in Sessions \cup {NONE}
    /\ offer \in [Sessions -> SUBSET Caps]
    /\ downs \in [Sessions -> SUBSET Clients]
    /\ awaiting \in [Sessions -> SUBSET Clients]
    /\ lines \in [Sessions -> Nat]
    /\ dm \in Work

-----------------------------------------------------------------------------
(* Types.                                                                    *)

\* A message put into clients' queues keeps the types of the queues.
LEMMA SendType ==
  ASSUME out \in [Clients -> Seq(Message)],
         closed \in [Clients -> {"no", "closed", "overflow"}],
         NEW S, NEW m \in Message
  PROVE  /\ SendTo(S, m) => /\ out' \in [Clients -> Seq(Message)]
                            /\ closed' \in [Clients -> {"no", "closed", "overflow"}]
         /\ SendLast(S, m) => /\ out' \in [Clients -> Seq(Message)]
                              /\ closed' \in [Clients -> {"no", "closed", "overflow"}]
<1>1. ASSUME NEW c \in Clients
      PROVE  Sent(c, m).q \in Seq(Message) /\ Sent(c, m).end \in {"no", "closed", "overflow"}
  <2>1. out[c] \in Seq(Message) /\ Append(out[c], m) \in Seq(Message)
        /\ closed[c] \in {"no", "closed", "overflow"}
    OBVIOUS
  <2> QED
    BY <2>1 DEF Sent
<1> QED
  BY <1>1 DEF SendTo, SendLast

\* What a client makes of a message keeps the type of what it knows.
LEMMA ToldType ==
  ASSUME NEW g \in Knowledge, NEW m \in Message
  PROVE  Told(g, m) \in Knowledge
  BY DEF Told, Knowledge, Message

\* The messages there are.
LEMMA MsgType ==
  ASSUME NEW t \in {"ls", "new", "del", "error", "line", "ack", "ping"},
         NEW names \in SUBSET Caps, NEW n \in Nat
  PROVE  Msg(t, names) \in Message /\ Line(n) \in Message
  BY DEF Msg, Line, Message

\* Which handlers have a session.
AtKnown ==
    \A c \in Clients : pc[c] \in {"attach", "burst", "run", "leaving"} => at[c] # NONE

\* Every step keeps the types.
LEMMA TypeStep ==
  ASSUME TypeOK, AtKnown, [Next]_vars
  PROVE  TypeOK'
<1> USE DownlinkAssumption DEF TypeOK, listener, handler, capable, wire, world, session, Set
<1>1. ASSUME NEW c \in Clients, Accept(c)  PROVE TypeOK'
  <2>1. pc' \in [Clients -> HandlerPC] /\ tcp' \in [Clients -> {"up", "ended", "left"}]
    <3>1. CASE pc' = Set(pc, c, "shake") /\ UNCHANGED tcp
      BY <3>1 DEF HandlerPC
    <3>2. CASE pc' = Set(pc, c, "gone") /\ tcp' = Set(tcp, c, "ended")
      BY <3>2 DEF HandlerPC
    <3> QED
      BY <1>1, <3>1, <3>2 DEF Accept
  <2> QED
    BY <1>1, <2>1 DEF Accept
<1>2. ASSUME NEW c \in Clients, Handshake(c)  PROVE TypeOK'
  <2>1. pc' \in [Clients -> HandlerPC] /\ tcp' \in [Clients -> {"up", "ended", "left"}]
    <3>1. CASE pc' = Set(pc, c, "auth") /\ UNCHANGED tcp
      BY <3>1 DEF HandlerPC
    <3>2. CASE pc' = Set(pc, c, "gone") /\ tcp' = Set(tcp, c, "ended")
      BY <3>2 DEF HandlerPC
    <3> QED
      BY <1>2, <3>1, <3>2 DEF Handshake
  <2> QED
    BY <1>2, <2>1 DEF Handshake
<1>3. ASSUME NEW c \in Clients, CapLS(c)  PROVE TypeOK'
  <2>1. offeredCaps(c) \in SUBSET Caps
    BY DEF offeredCaps, Knows
  <2>2. [to |-> "ls", names |-> offeredCaps(c)] \in Job
    BY <2>1 DEF Job
  <2>3. job' \in [Clients -> Job]
    BY <1>3, <2>2 DEF CapLS, Look
  <2> QED
    BY <1>3, <2>3 DEF CapLS
<1>4. ASSUME NEW c \in Clients, CapREQ(c)  PROVE TypeOK'
  <2>1. offeredCaps(c) \in SUBSET Caps
    BY DEF offeredCaps, Knows
  <2> PICK x : Look(c, "req", {x} \cap offeredCaps(c))
    BY <1>4 DEF CapREQ
  <2>2. [to |-> "req", names |-> {x} \cap offeredCaps(c)] \in Job
    BY <2>1 DEF Job
  <2>3. job' \in [Clients -> Job]
    BY <2>2 DEF Look
  <2> QED
    BY <1>4, <2>3 DEF CapREQ
<1>5. ASSUME NEW c \in Clients, CapEND(c)  PROVE TypeOK'
  BY <1>5 DEF CapEND, Reads, Registering
<1>6. ASSUME NEW c \in Clients, NickUser(c)  PROVE TypeOK'
  BY <1>6 DEF NickUser, Reads, Registering
<1>7. ASSUME NEW c \in Clients, Pass(c)  PROVE TypeOK'
  <2> PICK p : LET net == IF p = "unknown" THEN NONE ELSE cur
               IN  /\ prov' = Set(prov, c, net)
                   /\ IF reg[c].pend THEN Look(c, "ls", IF net = NONE THEN {} ELSE offer[net])
                      ELSE UNCHANGED job
    BY <1>7 DEF Pass
  <2>1. prov' \in [Clients -> Sessions \cup {NONE}]
    OBVIOUS
  <2>2. ASSUME NEW net \in Sessions \cup {NONE}
        PROVE  [to |-> "ls", names |-> IF net = NONE THEN {} ELSE offer[net]] \in Job
    BY DEF Job
  <2>3. job' \in [Clients -> Job]
    BY <2>2 DEF Look
  <2> QED
    BY <1>7, <2>1, <2>3 DEF Pass
<1>8. ASSUME NEW c \in Clients, Reply(c)  PROVE TypeOK'
  <2>1. job[c].names \in SUBSET Caps /\ job[c].names \ seen[c] \in SUBSET Caps
    BY DEF Job
  <2>2. /\ Msg("ls", job[c].names) \in Message /\ Msg("ack", job[c].names) \in Message
        /\ Msg("new", job[c].names \ seen[c]) \in Message
    BY <2>1, MsgType
  <2>3. out' \in [Clients -> Seq(Message)] /\ closed' \in [Clients -> {"no", "closed", "overflow"}]
    BY <1>8, <2>2, SendType DEF Reply
  <2>4. job' \in [Clients -> Job]
    BY <1>8 DEF Reply, Job, Idle
  <2> QED
    BY <1>8, <2>3, <2>4 DEF Reply
<1>9. ASSUME NEW c \in Clients, authenticate(c)  PROVE TypeOK'
  <2>1. Msg("error", {}) \in Message
    BY MsgType
  <2>2. out' \in [Clients -> Seq(Message)] /\ closed' \in [Clients -> {"no", "closed", "overflow"}]
    BY <1>9, <2>1, SendType DEF authenticate, Refused
  <2>3. pc' \in [Clients -> HandlerPC] /\ at' \in [Clients -> Sessions \cup {NONE}]
    <3>1. CASE pc' = Set(pc, c, "refused") /\ UNCHANGED at
      BY <3>1 DEF HandlerPC
    <3>2. CASE pc' = Set(pc, c, "attach") /\ at' = Set(at, c, cur)
      BY <3>2 DEF HandlerPC
    <3> QED
      BY <1>9, <3>1, <3>2 DEF authenticate, Refused
  <2> QED
    BY <1>9, <2>2, <2>3 DEF authenticate
<1>10. ASSUME NEW c \in Clients, Attach(c)  PROVE TypeOK'
  <2>1. at[c] \in Sessions
    BY <1>10 DEF AtKnown, Attach
  <2>2. [got[c] EXCEPT !.last = lines[at[c]]] \in Knowledge
    <3>1. ASSUME NEW g \in Knowledge, NEW n \in Nat  PROVE [g EXCEPT !.last = n] \in Knowledge
      BY DEF Knowledge
    <3> QED
      BY <2>1, <3>1
  <2>3. got' \in [Clients -> Knowledge]
    BY <1>10, <2>2 DEF Attach
  <2>4. pc' \in [Clients -> HandlerPC] /\ awaiting' \in [Sessions -> SUBSET Clients]
    <3>1. CASE pc' = Set(pc, c, "burst") /\ UNCHANGED awaiting
      BY <3>1 DEF HandlerPC
    <3>2. CASE pc' = Set(pc, c, "run") /\ awaiting' = Set(awaiting, at[c], awaiting[at[c]] \cup {c})
      BY <2>1, <3>2 DEF HandlerPC
    <3> QED
      BY <1>10, <3>1, <3>2 DEF Attach
  <2>5. downs' \in [Sessions -> SUBSET Clients]
    BY <1>10, <2>1 DEF Attach
  <2> QED
    BY <1>10, <2>3, <2>4, <2>5 DEF Attach
<1>11. ASSUME NEW c \in Clients, AttachSync(c)  PROVE TypeOK'
  <2>1. at[c] \in Sessions
    BY <1>11 DEF AtKnown, AttachSync
  <2> QED
    BY <1>11, <2>1 DEF AttachSync, Look, Job, HandlerPC
<1>12. ASSUME NEW c \in Clients, ReadFails(c)  PROVE TypeOK'
  BY <1>12 DEF ReadFails, HandlerPC
<1>13. ASSUME NEW c \in Clients, keepaliveLoop(c)  PROVE TypeOK'
  <2>1. Msg("ping", {}) \in Message
    BY MsgType
  <2>2. out' \in [Clients -> Seq(Message)] /\ closed' \in [Clients -> {"no", "closed", "overflow"}]
    BY <1>13, <2>1, SendType, ZenonT(60) DEF keepaliveLoop
  <2> QED
    BY <1>13, <2>2 DEF keepaliveLoop
<1>14. ASSUME NEW c \in Clients, Detach(c)  PROVE TypeOK'
  <2>1. at[c] \in Sessions
    BY <1>14 DEF AtKnown, Detach
  <2> QED
    BY <1>14, <2>1 DEF Detach, Closed, HandlerPC
<1>15. ASSUME NEW c \in Clients, Release(c)  PROVE TypeOK'
  BY <1>15 DEF Release, HandlerPC, Closed
<1>16. ASSUME NEW c \in Clients, Leave(c)  PROVE TypeOK'
  BY <1>16 DEF Leave
<1>17. ASSUME NEW c \in Clients, Hang(c)  PROVE TypeOK'
  BY <1>17 DEF Hang
<1>18. ASSUME NEW c \in Clients, writeLoop(c)  PROVE TypeOK'
  <2>1. out' \in [Clients -> Seq(Message)] /\ got' \in [Clients -> Knowledge]
    <3>1. CASE UNCHANGED <<out, got>>
      BY <3>1
    <3>2. CASE out[c] # <<>> /\ out' = Set(out, c, Tail(out[c]))
               /\ got' = Set(got, c, Told(got[c], Head(out[c])))
      <4>1. Head(out[c]) \in Message /\ Tail(out[c]) \in Seq(Message)
        BY <3>2
      <4>2. Told(got[c], Head(out[c])) \in Knowledge
        BY <4>1, ToldType
      <4> QED
        BY <3>2, <4>1, <4>2
    <3> QED
      BY <1>18, <3>1, <3>2 DEF writeLoop
  <2> QED
    BY <1>18, <2>1 DEF writeLoop, Over
<1>19. CASE AcceptFails
  BY <1>19 DEF AcceptFails, Turn
<1>20. CASE ReplaceListener
  BY <1>20 DEF ReplaceListener
<1>21. CASE CloseOld
  BY <1>21 DEF CloseOld
<1>22. CASE OnCapACK
  BY <1>22 DEF OnCapACK, Quiet, Work, Idle
<1>23. CASE OnCapDEL
  BY <1>23 DEF OnCapDEL, Quiet, Work
<1>24. CASE completeRegistration
  BY <1>24 DEF completeRegistration, Quiet, Work
<1>25. CASE broadcastCapNotify
  <2>1. dm.names \in SUBSET Caps /\ dm.to \in {"new", "del"}
    BY <1>25 DEF broadcastCapNotify, Work
  <2>2. Msg(dm.to, dm.names) \in Message
    BY <2>1, MsgType
  <2>3. out' \in [Clients -> Seq(Message)] /\ closed' \in [Clients -> {"no", "closed", "overflow"}]
    BY <1>25, <2>2, SendType DEF broadcastCapNotify
  <2> QED
    BY <1>25, <2>3 DEF broadcastCapNotify, Work, Idle
<1>26. CASE HandleDisconnect
  <2>1. cur \in Sessions
    BY <1>26 DEF HandleDisconnect, Quiet
  <2>2. downs' \in [Sessions -> SUBSET Clients] /\ awaiting' \in [Sessions -> SUBSET Clients]
    BY <1>26, <2>1 DEF HandleDisconnect
  <2>3. [to |-> "lost", names |-> downs[cur]] \in Work
    BY <2>1 DEF Work
  <2>4. dm' \in Work
    BY <1>26, <2>3 DEF HandleDisconnect
  <2>5. offer' \in [Sessions -> SUBSET Caps]
    BY <1>26, <2>1 DEF HandleDisconnect
  <2> QED
    BY <1>26, <2>2, <2>4, <2>5 DEF HandleDisconnect
<1>27. CASE CloseClients
  <2>1. Msg("error", {}) \in Message
    BY MsgType
  <2>2. out' \in [Clients -> Seq(Message)] /\ closed' \in [Clients -> {"no", "closed", "overflow"}]
    BY <1>27, <2>1, SendType DEF CloseClients
  <2> QED
    BY <1>27, <2>2 DEF CloseClients, Work, Idle
<1>28. CASE Relay
  <2>1. cur \in Sessions /\ lines[cur] + 1 \in Nat
    BY <1>28 DEF Relay, Quiet
  <2>2. Line(lines[cur] + 1) \in Message
    BY <2>1, MsgType
  <2>3. out' \in [Clients -> Seq(Message)] /\ closed' \in [Clients -> {"no", "closed", "overflow"}]
    BY <1>28, <2>2, SendType DEF Relay
  <2> QED
    BY <1>28, <2>1, <2>3 DEF Relay
<1>29. CASE StopNetwork
  BY <1>29 DEF StopNetwork
<1>30. ASSUME NEW s \in Sessions, StartNetwork(s)  PROVE TypeOK'
  BY <1>30 DEF StartNetwork
<1>31. CASE UNCHANGED vars
  BY <1>31 DEF vars
<1> QED
  BY <1>1, <1>2, <1>3, <1>4, <1>5, <1>6, <1>7, <1>8, <1>9, <1>10, <1>11, <1>12, <1>13, <1>14,
         <1>15, <1>16, <1>17, <1>18, <1>19, <1>20, <1>21, <1>22, <1>23, <1>24, <1>25, <1>26,
         <1>27, <1>28, <1>29, <1>30, <1>31 DEF Next, Serve, Commands, Handle, Demux, Uplink

-----------------------------------------------------------------------------
(* The accept loop.                                                          *)

\* The loop accepts on the listener there is, unless the generation has moved
\* on since its turn; that listener is open and nobody has it to close.
ListenerInv ==
    /\ serve \in [is : {"accept"}, on : Nat, gen : Nat]
    /\ ln \in Nat /\ lnGen \in Nat
    /\ serve.gen <= lnGen
    /\ serve.gen = lnGen => serve.on = ln
    /\ ln \in lnOpen /\ ln \notin closing /\ closing \subseteq 0 .. ln

\* A handler, a writer, a client and the uplink's side leave the listener alone.
LEMMA ListenerFrame ==
  ASSUME [Next]_vars
  PROVE  \/ UNCHANGED listener
         \/ \E c \in Clients : Accept(c)
         \/ AcceptFails \/ ReplaceListener \/ CloseOld
<1>1. ASSUME NEW c \in Clients, Handshake(c) \/ writeLoop(c) \/ keepaliveLoop(c) \/ Leave(c) \/ Hang(c)
      PROVE  UNCHANGED listener
  BY <1>1 DEF Handshake, writeLoop, keepaliveLoop, Leave, Hang
<1>2. ASSUME NEW c \in Clients, Commands(c)  PROVE UNCHANGED listener
  BY <1>2 DEF Commands, CapLS, CapREQ, CapEND, NickUser, Pass
<1>3. ASSUME NEW c \in Clients, Reply(c) \/ authenticate(c) \/ Attach(c) \/ AttachSync(c)
      PROVE  UNCHANGED listener
  BY <1>3 DEF Reply, authenticate, Attach, AttachSync
<1>4. ASSUME NEW c \in Clients, ReadFails(c) \/ Detach(c) \/ Release(c)
      PROVE  UNCHANGED listener
  BY <1>4 DEF ReadFails, Detach, Release
<1>5. ASSUME Demux \/ Uplink  PROVE UNCHANGED listener
  BY <1>5 DEF Demux, Uplink, broadcastCapNotify, CloseClients, OnCapACK, OnCapDEL,
              completeRegistration, HandleDisconnect, Relay
<1>6. ASSUME StopNetwork \/ \E s \in Sessions : StartNetwork(s)  PROVE UNCHANGED listener
  BY <1>6 DEF StopNetwork, StartNetwork
<1>7. UNCHANGED vars => UNCHANGED listener
  BY DEF vars
<1> QED
  BY <1>1, <1>2, <1>3, <1>4, <1>5, <1>6, <1>7 DEF Next, Handle, Serve

LEMMA ListenerStep ==
  ASSUME ListenerInv, [Next]_vars
  PROVE  ListenerInv'
<1> USE DEF ListenerInv
<1>1. CASE UNCHANGED listener
  BY <1>1 DEF listener
<1>2. ASSUME NEW c \in Clients, Accept(c)  PROVE ListenerInv'
  BY <1>2 DEF Accept, Turn
<1>3. CASE AcceptFails
  <2>1. lnGen # serve.gen
    BY <1>3 DEF AcceptFails
  <2> QED
    BY <1>3, <2>1 DEF AcceptFails, Turn
<1>4. CASE ReplaceListener
  BY <1>4 DEF ReplaceListener
<1>5. CASE CloseOld
  BY <1>5 DEF CloseOld
<1> QED
  BY <1>1, <1>2, <1>3, <1>4, <1>5, ListenerFrame

\* However rehashes fall between the loop's turns and its Accept: an Accept that
\* fails finds the generation moved on, and the loop goes round again.
THEOREM ServeGoesOn == Spec => []ServeSurvives
<1>1. Init => ListenerInv
  BY DEF Init, ListenerInv
<1>2. ListenerInv /\ [Next]_vars => ListenerInv'
  BY ListenerStep
<1>3. ListenerInv => ServeSurvives
  BY DEF ListenerInv, ServeSurvives
<1> QED
  BY <1>1, <1>2, <1>3, PTL DEF Spec

-----------------------------------------------------------------------------
(* Sessions and the clients they have.                                       *)

\* A session has only clients of its own whose handlers are there to leave it.
AttachedHere ==
    \A c \in Clients, s \in Sessions :
        c \in downs[s] \cup awaiting[s] => at[c] = s /\ pc[c] \in {"burst", "run", "leaving"}

\* The clients a session lets go are clients it had.
LostWereAttached ==
    \A c \in Clients :
        dm.to = "lost" /\ c \in dm.names => at[c] # NONE /\ pc[c] \notin {"off", "shake"}

\* The demux goroutine has work for the network's session only.
WorkHasSession == dm.to # "idle" => cur # NONE

\* A look at the offer is a served client's.
JobsServed == \A c \in Clients : job[c] # Idle => pc[c] \in {"auth", "run"}

SessionInv ==
    TypeOK /\ AtKnown /\ AttachedHere /\ LostWereAttached /\ WorkHasSession /\ JobsServed

LEMMA WorkStep ==
  ASSUME SessionInv, [Next]_vars
  PROVE  WorkHasSession' /\ JobsServed'
<1> USE DEF SessionInv, TypeOK, WorkHasSession, JobsServed, listener, handler, capable, wire, world,
            session, Set
<1>1. ASSUME UNCHANGED <<dm, cur, job, pc>>  PROVE WorkHasSession' /\ JobsServed'
  BY <1>1
<1>2. ASSUME NEW c \in Clients, Accept(c) \/ Handshake(c)  PROVE WorkHasSession' /\ JobsServed'
  <2>1. UNCHANGED <<dm, cur, job>> /\ pc[c] \in {"off", "shake"} /\ \E p : pc' = Set(pc, c, p)
    BY <1>2 DEF Accept, Handshake
  <2> QED
    BY <2>1
<1>3. ASSUME NEW c \in Clients, Commands(c)  PROVE WorkHasSession' /\ JobsServed'
  <2>1. UNCHANGED <<dm, cur, pc>> /\ pc[c] \in {"auth", "run"}
    BY <1>3 DEF Commands, CapLS, CapREQ, CapEND, NickUser, Pass, Reads
  <2>2. UNCHANGED job \/ \E j : job' = Set(job, c, j)
    BY <1>3 DEF Commands, CapLS, CapREQ, CapEND, NickUser, Pass, Look
  <2> QED
    BY <2>1, <2>2
<1>4. ASSUME NEW c \in Clients, Reply(c)  PROVE WorkHasSession' /\ JobsServed'
  <2>1. UNCHANGED <<dm, cur, pc>> /\ job' = Set(job, c, Idle)
    BY <1>4 DEF Reply
  <2> QED
    BY <2>1
<1>5. ASSUME NEW c \in Clients, authenticate(c) \/ ReadFails(c)  PROVE WorkHasSession' /\ JobsServed'
  <2>1. UNCHANGED <<dm, cur, job>> /\ job[c] = Idle /\ \E p : pc' = Set(pc, c, p)
    BY <1>5 DEF authenticate, ReadFails, Refused
  <2> QED
    BY <2>1
<1>6. ASSUME NEW c \in Clients, Attach(c) \/ Detach(c) \/ Release(c)  PROVE WorkHasSession' /\ JobsServed'
  <2>1. UNCHANGED <<dm, cur, job>> /\ pc[c] \in {"attach", "leaving", "refused"} /\ \E p : pc' = Set(pc, c, p)
    BY <1>6 DEF Attach, Detach, Release
  <2> QED
    BY <2>1
<1>7. ASSUME NEW c \in Clients, AttachSync(c)  PROVE WorkHasSession' /\ JobsServed'
  <2>1. UNCHANGED <<dm, cur>> /\ pc' = Set(pc, c, "run") /\ \E j : job' = Set(job, c, j)
    BY <1>7 DEF AttachSync, Look
  <2> QED
    BY <2>1
<1>8. ASSUME NEW c \in Clients, writeLoop(c) \/ keepaliveLoop(c) \/ Leave(c) \/ Hang(c)
      PROVE  UNCHANGED <<dm, cur, job, pc>>
  BY <1>8 DEF writeLoop, keepaliveLoop, Leave, Hang
<1>9. ASSUME Serve \/ ReplaceListener  PROVE UNCHANGED <<dm, cur, job, pc>>
  BY <1>9 DEF Serve, AcceptFails, CloseOld, ReplaceListener
<1>10. ASSUME Demux  PROVE UNCHANGED <<cur, job, pc>> /\ dm' = Idle
  BY <1>10 DEF Demux, broadcastCapNotify, CloseClients
<1>11. ASSUME Uplink  PROVE UNCHANGED <<cur, job, pc>> /\ cur # NONE
  BY <1>11 DEF Uplink, OnCapACK, OnCapDEL, completeRegistration, HandleDisconnect, Relay, Quiet
<1>12. ASSUME StopNetwork \/ \E s \in Sessions : StartNetwork(s)
       PROVE  UNCHANGED <<job, pc>> /\ dm' = Idle
  BY <1>12 DEF StopNetwork, StartNetwork, Quiet
<1>13. ASSUME UNCHANGED <<job, pc>>, dm' = Idle \/ (cur' = cur /\ cur # NONE)
       PROVE  WorkHasSession' /\ JobsServed'
  BY <1>13 DEF Idle
<1>14. UNCHANGED vars => UNCHANGED <<dm, cur, job, pc>>
  BY DEF vars
<1> QED
  BY <1>1, <1>2, <1>3, <1>4, <1>5, <1>6, <1>7, <1>8, <1>9, <1>10, <1>11, <1>12, <1>13,
         <1>14 DEF Next, Handle

LEMMA AttachedStep ==
  ASSUME SessionInv, [Next]_vars
  PROVE  AtKnown' /\ AttachedHere' /\ LostWereAttached'
<1> USE DEF SessionInv, AtKnown, AttachedHere, LostWereAttached, listener, handler, capable, wire,
            world, session, Set
<1>1. ASSUME NEW c \in Clients, Accept(c)  PROVE AtKnown' /\ AttachedHere' /\ LostWereAttached'
  <2>1. at' = at /\ downs' = downs /\ awaiting' = awaiting /\ dm' = dm /\ pc[c] = "off"
    BY <1>1 DEF Accept
  <2>2. pc' = Set(pc, c, "shake") \/ pc' = Set(pc, c, "gone")
    BY <1>1 DEF Accept
  <2>3. AtKnown' /\ AttachedHere'
    BY <2>1, <2>2, ZenonT(60) DEF TypeOK
  <2>4. dm.to = "lost" => c \notin dm.names
    BY <2>1
  <2>5. LostWereAttached'
    BY <2>1, <2>2, <2>4 DEF TypeOK
  <2> QED
    BY <2>3, <2>5
<1>2. ASSUME NEW c \in Clients, Handshake(c)  PROVE AtKnown' /\ AttachedHere' /\ LostWereAttached'
  <2>1. at' = at /\ downs' = downs /\ awaiting' = awaiting /\ dm' = dm /\ pc[c] = "shake"
    BY <1>2 DEF Handshake
  <2>2. pc' = Set(pc, c, "auth") \/ pc' = Set(pc, c, "gone")
    BY <1>2 DEF Handshake
  <2>3. AtKnown' /\ AttachedHere'
    BY <2>1, <2>2, ZenonT(60) DEF TypeOK
  <2>4. LostWereAttached'
    BY <2>1, <2>2 DEF TypeOK
  <2> QED
    BY <2>3, <2>4
<1>3. ASSUME NEW c \in Clients, CapLS(c)  PROVE AtKnown' /\ AttachedHere' /\ LostWereAttached'
  BY <1>3 DEF CapLS, TypeOK
<1>4. ASSUME NEW c \in Clients, CapREQ(c)  PROVE AtKnown' /\ AttachedHere' /\ LostWereAttached'
  BY <1>4 DEF CapREQ, TypeOK
<1>5. ASSUME NEW c \in Clients, CapEND(c)  PROVE AtKnown' /\ AttachedHere' /\ LostWereAttached'
  BY <1>5 DEF CapEND, TypeOK
<1>6. ASSUME NEW c \in Clients, NickUser(c)  PROVE AtKnown' /\ AttachedHere' /\ LostWereAttached'
  BY <1>6 DEF NickUser, TypeOK
<1>7. ASSUME NEW c \in Clients, Pass(c)  PROVE AtKnown' /\ AttachedHere' /\ LostWereAttached'
  BY <1>7 DEF Pass, TypeOK
<1>8. ASSUME NEW c \in Clients, Reply(c)  PROVE AtKnown' /\ AttachedHere' /\ LostWereAttached'
  BY <1>8 DEF Reply, TypeOK
<1>9. ASSUME NEW c \in Clients, authenticate(c)  PROVE AtKnown' /\ AttachedHere' /\ LostWereAttached'
  <2>1. downs' = downs /\ awaiting' = awaiting /\ dm' = dm /\ pc[c] = "auth"
    BY <1>9 DEF authenticate
  <2>2. CASE pc' = Set(pc, c, "refused") /\ at' = at
    BY <2>1, <2>2 DEF TypeOK
  <2>3. CASE pc' = Set(pc, c, "attach") /\ at' = Set(at, c, cur) /\ cur # NONE
    BY <2>1, <2>3 DEF TypeOK
  <2> QED
    BY <1>9, <2>2, <2>3 DEF authenticate, Refused
<1>10. ASSUME NEW c \in Clients, Attach(c)  PROVE AtKnown' /\ AttachedHere' /\ LostWereAttached'
  <2>1. at' = at /\ dm' = dm /\ pc[c] = "attach" /\ at[c] \in Sessions
    BY <1>10 DEF Attach, TypeOK
  <2>2. pc' = Set(pc, c, "burst") \/ pc' = Set(pc, c, "run")
    BY <1>10 DEF Attach
  <2>3. LostWereAttached' /\ AtKnown'
    BY <2>1, <2>2 DEF TypeOK
  <2>4. \A d \in Clients, s \in Sessions : d \in downs'[s] => d \in downs[s] \/ (d = c /\ s = at[c])
    BY <1>10, <2>1 DEF Attach, TypeOK
  <2>5. \A d \in Clients, s \in Sessions :
           d \in awaiting'[s] => d \in awaiting[s] \/ (d = c /\ s = at[c])
    <3>1. UNCHANGED awaiting \/ awaiting' = Set(awaiting, at[c], awaiting[at[c]] \cup {c})
      BY <1>10 DEF Attach
    <3> QED
      BY <2>1, <3>1 DEF TypeOK
  <2>6. pc'[c] \in {"burst", "run"} /\ \A d \in Clients : d # c => pc'[d] = pc[d]
    BY <2>2 DEF TypeOK
  <2>7. AttachedHere'
    <3> SUFFICES ASSUME NEW d \in Clients, NEW s \in Sessions, d \in downs'[s] \cup awaiting'[s]
                 PROVE  at'[d] = s /\ pc'[d] \in {"burst", "run", "leaving"}
      OBVIOUS
    <3>1. CASE d \in downs[s] \cup awaiting[s]
      BY <2>1, <2>6, <3>1
    <3>2. CASE d = c /\ s = at[c]
      BY <2>1, <2>6, <3>2
    <3> QED
      BY <2>4, <2>5, <3>1, <3>2
  <2> QED
    BY <2>3, <2>7
<1>11. ASSUME NEW c \in Clients, AttachSync(c)  PROVE AtKnown' /\ AttachedHere' /\ LostWereAttached'
  BY <1>11 DEF AttachSync, TypeOK
<1>12. ASSUME NEW c \in Clients, ReadFails(c)  PROVE AtKnown' /\ AttachedHere' /\ LostWereAttached'
  BY <1>12 DEF ReadFails, TypeOK
<1>13. ASSUME NEW c \in Clients, keepaliveLoop(c)  PROVE AtKnown' /\ AttachedHere' /\ LostWereAttached'
  BY <1>13 DEF keepaliveLoop, TypeOK
<1>14. ASSUME NEW c \in Clients, Detach(c)  PROVE AtKnown' /\ AttachedHere' /\ LostWereAttached'
  BY <1>14 DEF Detach, TypeOK
<1>15. ASSUME NEW c \in Clients, Release(c)  PROVE AtKnown' /\ AttachedHere' /\ LostWereAttached'
  BY <1>15 DEF Release, TypeOK
<1>16. ASSUME NEW c \in Clients, Leave(c)  PROVE AtKnown' /\ AttachedHere' /\ LostWereAttached'
  BY <1>16 DEF Leave, TypeOK
<1>17. ASSUME NEW c \in Clients, Hang(c)  PROVE AtKnown' /\ AttachedHere' /\ LostWereAttached'
  BY <1>17 DEF Hang, TypeOK
<1>18. ASSUME NEW c \in Clients, writeLoop(c)  PROVE AtKnown' /\ AttachedHere' /\ LostWereAttached'
  BY <1>18 DEF writeLoop, TypeOK
<1>19. CASE AcceptFails
  BY <1>19 DEF AcceptFails, TypeOK, Idle
<1>20. CASE ReplaceListener
  BY <1>20 DEF ReplaceListener, TypeOK, Idle
<1>21. CASE CloseOld
  BY <1>21 DEF CloseOld, TypeOK, Idle
<1>22. CASE OnCapACK
  BY <1>22 DEF OnCapACK, TypeOK, Idle
<1>23. CASE OnCapDEL
  BY <1>23 DEF OnCapDEL, TypeOK, Idle
<1>24. CASE completeRegistration
  BY <1>24 DEF completeRegistration, TypeOK, Idle
<1>25. CASE broadcastCapNotify
  BY <1>25 DEF broadcastCapNotify, TypeOK, Idle
<1>26. CASE HandleDisconnect
  <2>1. at' = at /\ pc' = pc /\ cur \in Sessions /\ dm.to = "idle"
    BY <1>26 DEF HandleDisconnect, Quiet, Idle, TypeOK
  <2>2. CASE /\ downs' = Set(downs, cur, {}) /\ awaiting' = Set(awaiting, cur, {})
             /\ dm' = [to |-> "lost", names |-> downs[cur]]
    <3>1. \A c \in downs[cur] : c \in Clients /\ at[c] = cur /\ pc[c] \in {"burst", "run", "leaving"}
      BY <2>1 DEF TypeOK
    <3> QED
      BY <2>1, <2>2, <3>1, ZenonT(60) DEF TypeOK
  <2>3. CASE awaiting' = Set(awaiting, cur, downs[cur]) /\ UNCHANGED <<downs, dm>>
    BY <2>1, <2>3 DEF TypeOK
  <2> QED
    BY <1>26, <2>2, <2>3 DEF HandleDisconnect
<1>27. CASE CloseClients
  BY <1>27 DEF CloseClients, TypeOK, Idle
<1>28. CASE Relay
  BY <1>28 DEF Relay, TypeOK, Idle
<1>29. CASE StopNetwork
  BY <1>29 DEF StopNetwork, TypeOK, Idle
<1>30. ASSUME NEW s \in Sessions, StartNetwork(s)  PROVE AtKnown' /\ AttachedHere' /\ LostWereAttached'
  BY <1>30 DEF StartNetwork
<1>31. CASE UNCHANGED vars
  BY <1>31 DEF vars
<1> QED
  BY <1>1, <1>2, <1>3, <1>4, <1>5, <1>6, <1>7, <1>8, <1>9, <1>10, <1>11, <1>12, <1>13, <1>14,
         <1>15, <1>16, <1>17, <1>18, <1>19, <1>20, <1>21, <1>22, <1>23, <1>24, <1>25, <1>26,
         <1>27, <1>28, <1>29, <1>30, <1>31 DEF Next, Serve, Commands, Handle, Demux, Uplink

-----------------------------------------------------------------------------
(* Slots.                                                                    *)

\* The clients a handler runs for.
Held == {c \in Clients : pc[c] \notin {"off", "gone"}}

LEMMA HeldCounted ==
  /\ IsFiniteSet(Held) /\ Cardinality(Held) \in Nat
  /\ \A c \in Clients : c \notin Held => Cardinality(Held \cup {c}) = Cardinality(Held) + 1
  /\ \A c \in Clients : c \in Held => Cardinality(Held \ {c}) = Cardinality(Held) - 1
<1>1. IsFiniteSet(Held)
  BY DownlinkAssumption, FS_Subset DEF Held
<1> QED
  BY <1>1, FS_AddElement, FS_RemoveElement, FS_CardinalityType

\* A slot is taken with Accept and given back by the handler that gives up in
\* its handshake, or by the one that ends; nobody else touches the counter.
LEMMA SlotsStep ==
  ASSUME TypeOK, SlotsCounted, [Next]_vars
  PROVE  SlotsCounted'
<1> USE DEF Set
<1> SUFFICES active' = Cardinality(Held') /\ active' <= MaxClients
  BY DEF SlotsCounted, Held
<1>1. active = Cardinality(Held) /\ active <= MaxClients /\ MaxClients \in Nat
  BY DownlinkAssumption DEF SlotsCounted, Held
<1>2. ASSUME active' = active, Held' = Held
      PROVE  active' = Cardinality(Held') /\ active' <= MaxClients
  BY <1>1, <1>2
<1>3. ASSUME NEW c \in Clients, pc[c] \notin {"off", "gone"}, NEW p, p \notin {"off", "gone"},
             pc' = Set(pc, c, p), active' = active
      PROVE  active' = Cardinality(Held') /\ active' <= MaxClients
  <2>1. Held' = Held
    BY <1>3 DEF Held, TypeOK
  <2> QED
    BY <1>2, <1>3, <2>1
<1>4. ASSUME NEW c \in Clients, Accept(c)  PROVE active' = Cardinality(Held') /\ active' <= MaxClients
  <2>1. CASE active < MaxClients /\ active' = active + 1 /\ pc' = Set(pc, c, "shake")
    <3>1. c \notin Held /\ Held' = Held \cup {c}
      BY <1>4, <2>1 DEF Accept, Held, TypeOK
    <3> QED
      BY <1>1, <2>1, <3>1, HeldCounted
  <2>2. CASE pc' = Set(pc, c, "gone") /\ UNCHANGED active
    <3>1. Held' = Held
      BY <1>4, <2>2 DEF Accept, Held, TypeOK
    <3> QED
      BY <1>2, <2>2, <3>1
  <2> QED
    BY <1>4, <2>1, <2>2 DEF Accept
<1>5. ASSUME NEW c \in Clients, c \in Held, pc' = Set(pc, c, "gone"), active' = active - 1
      PROVE  active' = Cardinality(Held') /\ active' <= MaxClients
  <2>1. Held' = Held \ {c}
    BY <1>5 DEF Held, TypeOK
  <2> QED
    BY <1>1, <1>5, <2>1, HeldCounted
<1>6. ASSUME NEW c \in Clients, Handshake(c)  PROVE active' = Cardinality(Held') /\ active' <= MaxClients
  <2>1. CASE pc' = Set(pc, c, "auth") /\ active' = active
    BY <1>3, <1>6, <2>1 DEF Handshake
  <2>2. CASE pc' = Set(pc, c, "gone") /\ active' = active - 1
    <3>1. c \in Held
      BY <1>6 DEF Handshake, Held
    <3> QED
      BY <1>5, <2>2, <3>1
  <2> QED
    BY <1>6, <2>1, <2>2 DEF Handshake
<1>7. ASSUME NEW c \in Clients, Release(c)  PROVE active' = Cardinality(Held') /\ active' <= MaxClients
  <2>1. c \in Held
    BY <1>7 DEF Release, Held
  <2> QED
    BY <1>5, <1>7, <2>1 DEF Release
<1>8. ASSUME NEW c \in Clients, authenticate(c)  PROVE active' = Cardinality(Held') /\ active' <= MaxClients
  <2>1. pc' = Set(pc, c, "refused") \/ pc' = Set(pc, c, "attach")
    BY <1>8 DEF authenticate, Refused
  <2> QED
    BY <1>3, <1>8, <2>1 DEF authenticate
<1>9. ASSUME NEW c \in Clients, Attach(c)  PROVE active' = Cardinality(Held') /\ active' <= MaxClients
  <2>1. pc' = Set(pc, c, "burst") \/ pc' = Set(pc, c, "run")
    BY <1>9 DEF Attach
  <2> QED
    BY <1>3, <1>9, <2>1 DEF Attach
<1>10. ASSUME NEW c \in Clients, AttachSync(c) \/ ReadFails(c) \/ Detach(c)
       PROVE  active' = Cardinality(Held') /\ active' <= MaxClients
  <2>1. pc[c] \in {"burst", "run", "leaving"} /\ active' = active
    BY <1>10 DEF AttachSync, ReadFails, Detach
  <2>2. pc' = Set(pc, c, "run") \/ pc' = Set(pc, c, "leaving") \/ pc' = Set(pc, c, "refused")
    BY <1>10 DEF AttachSync, ReadFails, Detach
  <2> QED
    BY <1>3, <2>1, <2>2
<1>11. ASSUME UNCHANGED <<active, pc>>  PROVE active' = Cardinality(Held') /\ active' <= MaxClients
  BY <1>2, <1>11 DEF Held
<1>12. ASSUME NEW c \in Clients, Commands(c) \/ Reply(c) \/ writeLoop(c) \/ keepaliveLoop(c)
                                 \/ Leave(c) \/ Hang(c)
       PROVE  UNCHANGED <<active, pc>>
  BY <1>12 DEF Commands, CapLS, CapREQ, CapEND, NickUser, Pass, Reply, writeLoop, keepaliveLoop,
               Leave, Hang, handler
<1>13. ASSUME Serve \/ ReplaceListener \/ Demux  PROVE UNCHANGED <<active, pc>>
  BY <1>13 DEF Serve, AcceptFails, CloseOld, ReplaceListener, Demux, broadcastCapNotify,
               CloseClients, handler
<1>14. ASSUME Uplink \/ StopNetwork \/ \E s \in Sessions : StartNetwork(s)
       PROVE  UNCHANGED <<active, pc>>
  BY <1>14 DEF Uplink, OnCapACK, OnCapDEL, completeRegistration, HandleDisconnect, Relay,
               StopNetwork, StartNetwork, handler
<1>15. UNCHANGED vars => UNCHANGED <<active, pc>>
  BY DEF vars, handler
<1> QED
  BY <1>4, <1>6, <1>7, <1>8, <1>9, <1>10, <1>11, <1>12, <1>13, <1>14, <1>15 DEF Next, Handle

LEMMA SessionInvariant == Spec => [](SessionInv /\ SlotsCounted)
<1>1. ASSUME Init  PROVE SessionInv
  <2>1. Idle \in Job /\ Idle \in Work /\ Nothing \in Knowledge /\ 1 \in Sessions
    BY DownlinkAssumption DEF Job, Idle, Knowledge, Nothing, Work, Sessions
  <2>2. /\ pc \in [Clients -> HandlerPC] /\ tcp \in [Clients -> {"up", "ended", "left"}]
        /\ prov \in [Clients -> Sessions \cup {NONE}] /\ at \in [Clients -> Sessions \cup {NONE}]
        /\ out \in [Clients -> Seq(Message)] /\ closed \in [Clients -> {"no", "closed", "overflow"}]
    BY <1>1 DEF Init, HandlerPC
  <2>3. /\ job \in [Clients -> Job] /\ got \in [Clients -> Knowledge] /\ dm \in Work
        /\ cur \in Sessions \cup {NONE} /\ offer \in [Sessions -> SUBSET Caps]
    BY <1>1, <2>1 DEF Init
  <2>4. /\ downs \in [Sessions -> SUBSET Clients] /\ awaiting \in [Sessions -> SUBSET Clients]
        /\ lines \in [Sessions -> Nat]
    BY <1>1 DEF Init
  <2>5. AtKnown /\ AttachedHere /\ LostWereAttached /\ WorkHasSession /\ JobsServed
    BY <1>1 DEF Init, AtKnown, AttachedHere, LostWereAttached, WorkHasSession, JobsServed, Idle
  <2> QED
    BY <2>2, <2>3, <2>4, <2>5 DEF SessionInv, TypeOK
<1>2. ASSUME Init  PROVE SlotsCounted
  <2>1. Held = {} /\ active = 0
    BY <1>2 DEF Init, Held
  <2>2. active = Cardinality(Held) /\ active <= MaxClients
    BY <2>1, FS_EmptySet, DownlinkAssumption
  <2> QED
    BY <2>2 DEF SlotsCounted, Held
<1>3. SessionInv /\ SlotsCounted /\ [Next]_vars => (SessionInv /\ SlotsCounted)'
  BY TypeStep, AttachedStep, WorkStep, SlotsStep DEF SessionInv
<1> QED
  BY <1>1, <1>2, <1>3, PTL DEF Spec

\* However a client's end falls, before it has a session, in the critical section
\* of Attach, after the session has let it go or because its handler leaves: its
\* slot comes back once, and no session keeps it.
THEOREM NothingIsLeft == Spec => []NothingLeft
<1>1. SessionInv /\ SlotsCounted => NothingLeft
  BY DEF SessionInv, AttachedHere, NothingLeft, NoGhost
<1> QED
  BY <1>1, SessionInvariant, PTL

-----------------------------------------------------------------------------
(* The feed of a client.                                                     *)

\* A queue leads a client whose feed is at a to b, line by line.
Leads(q, a, b) ==
    \E f \in [0 .. Len(q) -> Nat] :
        /\ f[0] = a /\ f[Len(q)] = b
        /\ \A i \in 1 .. Len(q) :
             IF q[i].t = "line" THEN f[i] = f[i - 1] + 1 /\ q[i].n = f[i] ELSE f[i] = f[i - 1]

NoLines(q) == \A i \in 1 .. Len(q) : q[i].t # "line"

LEMMA NoLinesLead ==
  ASSUME NEW q \in Seq(Message), NoLines(q), NEW a \in Nat
  PROVE  Leads(q, a, a)
<1> DEFINE f == [i \in 0 .. Len(q) |-> a]
<1>1. f \in [0 .. Len(q) -> Nat] /\ f[0] = a /\ f[Len(q)] = a
  OBVIOUS
<1>2. \A i \in 1 .. Len(q) : i \in 0 .. Len(q) /\ i - 1 \in 0 .. Len(q)
  OBVIOUS
<1> QED
  BY <1>1, <1>2 DEF Leads, NoLines

LEMMA LeadsAppend ==
  ASSUME NEW q \in Seq(Message), NEW a \in Nat, NEW b \in Nat, Leads(q, a, b), NEW m \in Message
  PROVE  /\ m.t # "line" => Leads(Append(q, m), a, b)
         /\ m.t = "line" /\ m.n = b + 1 => Leads(Append(q, m), a, b + 1)
<1> DEFINE r == Append(q, m)
<1>1. Len(r) = Len(q) + 1 /\ Len(q) \in Nat /\ r[Len(q) + 1] = m
      /\ \A i \in 1 .. Len(q) : r[i] = q[i]
  OBVIOUS
<1>2. PICK f \in [0 .. Len(q) -> Nat] :
        /\ f[0] = a /\ f[Len(q)] = b
        /\ \A i \in 1 .. Len(q) :
             IF q[i].t = "line" THEN f[i] = f[i - 1] + 1 /\ q[i].n = f[i] ELSE f[i] = f[i - 1]
  BY DEF Leads
<1> HIDE DEF r
<1>3. ASSUME NEW e \in Nat, IF m.t = "line" THEN e = b + 1 /\ m.n = e ELSE e = b
      PROVE  Leads(r, a, e)
  <2> DEFINE g == [i \in 0 .. Len(r) |-> IF i = Len(r) THEN e ELSE f[i]]
  <2>1. g \in [0 .. Len(r) -> Nat] /\ g[0] = a /\ g[Len(r)] = e
    BY <1>1, <1>2
  <2>2. \A i \in 0 .. Len(q) : g[i] = f[i]
    BY <1>1
  <2>3. ASSUME NEW i \in 1 .. Len(r)
        PROVE  IF r[i].t = "line" THEN g[i] = g[i - 1] + 1 /\ r[i].n = g[i] ELSE g[i] = g[i - 1]
    <3>1. CASE i = Len(r)
      <4>1. r[i] = m /\ g[i] = e /\ g[i - 1] = b
        BY <1>1, <1>2, <2>1, <2>2, <3>1
      <4> QED
        BY <1>3, <4>1
    <3>2. CASE i # Len(r)
      <4>1. i \in 1 .. Len(q) /\ i \in 0 .. Len(q) /\ i - 1 \in 0 .. Len(q)
        BY <1>1, <3>2
      <4>2. r[i] = q[i] /\ g[i] = f[i] /\ g[i - 1] = f[i - 1]
        BY <1>1, <2>2, <4>1
      <4> QED
        BY <1>2, <4>1, <4>2
    <3> QED
      BY <3>1, <3>2
  <2> HIDE DEF g
  <2> QED
    BY <2>1, <2>3 DEF Leads
<1> QED
  BY <1>3 DEF r

LEMMA LeadsTail ==
  ASSUME NEW q \in Seq(Message), q # <<>>, NEW a \in Nat, NEW b \in Nat, Leads(q, a, b)
  PROVE  /\ Head(q).t # "line" => Leads(Tail(q), a, b)
         /\ Head(q).t = "line" => Head(q).n = a + 1 /\ Leads(Tail(q), a + 1, b)
<1> DEFINE r == Tail(q)
<1>1. Len(q) = Len(r) + 1 /\ Len(r) \in Nat /\ Head(q) = q[1]
      /\ \A i \in 1 .. Len(r) : r[i] = q[i + 1]
  OBVIOUS
<1>2. PICK f \in [0 .. Len(q) -> Nat] :
        /\ f[0] = a /\ f[Len(q)] = b
        /\ \A i \in 1 .. Len(q) :
             IF q[i].t = "line" THEN f[i] = f[i - 1] + 1 /\ q[i].n = f[i] ELSE f[i] = f[i - 1]
  BY DEF Leads
<1> HIDE DEF r
<1> DEFINE g == [i \in 0 .. Len(r) |-> f[i + 1]]
<1>3. 1 \in 1 .. Len(q) /\ f[1] \in Nat
  BY <1>1, <1>2
<1>4. IF Head(q).t = "line" THEN f[1] = a + 1 /\ Head(q).n = f[1] ELSE f[1] = a
  BY <1>1, <1>2, <1>3
<1>5. g \in [0 .. Len(r) -> Nat] /\ g[0] = f[1] /\ g[Len(r)] = b
  BY <1>1, <1>2
<1>6. ASSUME NEW i \in 1 .. Len(r)
      PROVE  IF r[i].t = "line" THEN g[i] = g[i - 1] + 1 /\ r[i].n = g[i] ELSE g[i] = g[i - 1]
  <2>1. i \in 0 .. Len(r) /\ i - 1 \in 0 .. Len(r) /\ i + 1 \in 1 .. Len(q) /\ (i + 1) - 1 = i
    BY <1>1
  <2>2. g[i] = f[i + 1] /\ g[i - 1] = f[i] /\ r[i] = q[i + 1]
    BY <1>1, <2>1
  <2> QED
    BY <1>2, <2>1, <2>2
<1> HIDE DEF g
<1>7. Leads(r, f[1], b)
  BY <1>5, <1>6 DEF Leads
<1> QED
  BY <1>4, <1>7 DEF r

\* What sending does to one client.
LEMMA SentOne ==
  ASSUME TypeOK, NEW S, NEW m \in Message, NEW c \in Clients, SendTo(S, m) \/ SendLast(S, m)
  PROVE  /\ out'[c] = out[c] \/ (c \in S /\ closed[c] = "no" /\ out'[c] = Append(out[c], m))
         /\ c \notin S => out'[c] = out[c] /\ closed'[c] = closed[c]
         /\ closed[c] # "no" => out'[c] = out[c] /\ closed'[c] = closed[c]
         /\ c \in S /\ closed'[c] # "overflow" /\ closed[c] = "no" => out'[c] = Append(out[c], m)
         /\ closed'[c] = "no" => closed[c] = "no"
         /\ SendTo(S, m) => closed'[c] \in {closed[c], "overflow"}
  BY DEF SendTo, SendLast, Sent, TypeOK

Early == {"off", "shake", "auth", "attach"}

\* What a client has been given has no hole, what is queued for it carries on from
\* there, and to the session's last line if nobody has closed the client; before it
\* has a session nothing of a feed is queued.
FeedInv ==
    \A c \in Clients :
        /\ ~got[c].hole
        /\ pc[c] \in Early => NoLines(out[c])
        /\ \E b \in Nat : /\ Leads(out[c], got[c].last, b)
                          /\ \A s \in Sessions : c \in downs[s] /\ closed[c] = "no" => b = lines[s]

LEMMA FeedKept ==
  ASSUME FeedInv, UNCHANGED <<out, got, lines>>,
         \A c \in Clients : closed'[c] = "no" => closed[c] = "no",
         \A s \in Sessions : downs'[s] \subseteq downs[s],
         \A c \in Clients : pc'[c] \in Early => pc[c] \in Early
  PROVE  FeedInv'
  BY DEF FeedInv

LEMMA FeedSent ==
  ASSUME TypeOK, FeedInv, NEW S, NEW m \in Message, m.t # "line",
         SendTo(S, m) \/ SendLast(S, m),
         UNCHANGED <<got, lines, downs>>,
         \A c \in Clients : pc'[c] \in Early => pc[c] \in Early
  PROVE  FeedInv'
<1> SUFFICES ASSUME NEW c \in Clients
             PROVE  /\ ~got'[c].hole
                    /\ pc'[c] \in Early => NoLines(out'[c])
                    /\ \E b \in Nat : /\ Leads(out'[c], got'[c].last, b)
                                      /\ \A s \in Sessions :
                                            c \in downs'[s] /\ closed'[c] = "no" => b = lines'[s]
  BY DEF FeedInv
<1>1. out[c] \in Seq(Message) /\ got[c].last \in Nat
  BY DEF TypeOK, Knowledge
<1>2. PICK b \in Nat : /\ Leads(out[c], got[c].last, b)
                       /\ \A s \in Sessions : c \in downs[s] /\ closed[c] = "no" => b = lines[s]
  BY DEF FeedInv
<1>3. Leads(Append(out[c], m), got[c].last, b)
  BY <1>1, <1>2, LeadsAppend
<1>4. NoLines(out[c]) => NoLines(Append(out[c], m))
  BY <1>1 DEF NoLines
<1>5. out'[c] = out[c] \/ out'[c] = Append(out[c], m)
  BY SentOne
<1>6. closed'[c] = "no" => closed[c] = "no"
  BY SentOne
<1> QED
  BY <1>2, <1>3, <1>4, <1>5, <1>6 DEF FeedInv

\* Every step keeps the feeds whole.
LEMMA FeedStep ==
  ASSUME SessionInv, FeedInv, [Next]_vars
  PROVE  FeedInv'
<1> USE DEF listener, handler, capable, wire, world, session, Set
<1>1. TypeOK /\ AtKnown /\ AttachedHere
  BY DEF SessionInv
<1>2. ASSUME UNCHANGED <<out, got, lines, closed, downs>>,
             \A c \in Clients : pc'[c] \in Early => pc[c] \in Early
      PROVE  FeedInv'
  BY <1>2, FeedKept
<1>3. ASSUME UNCHANGED <<out, got, lines, closed, downs, pc>>  PROVE FeedInv'
  BY <1>2, <1>3
<1>4. ASSUME NEW c \in Clients, Accept(c) \/ Handshake(c)  PROVE FeedInv'
  <2>1. UNCHANGED <<out, got, lines, closed, downs>> /\ pc[c] \in Early
    BY <1>4 DEF Accept, Handshake, Early
  <2>2. \E p : pc' = Set(pc, c, p)
    BY <1>4 DEF Accept, Handshake
  <2> QED
    BY <1>1, <1>2, <2>1, <2>2 DEF TypeOK
<1>5. ASSUME NEW c \in Clients, Commands(c) \/ Leave(c) \/ Hang(c)  PROVE FeedInv'
  BY <1>3, <1>5 DEF Commands, CapLS, CapREQ, CapEND, NickUser, Pass, Leave, Hang
<1>6. ASSUME NEW c \in Clients, Reply(c)  PROVE FeedInv'
  <2>1. job[c].names \in SUBSET Caps /\ job[c].names \ seen[c] \in SUBSET Caps
    BY <1>1 DEF TypeOK, Job
  <2>2. /\ Msg("ls", job[c].names) \in Message /\ Msg("ack", job[c].names) \in Message
        /\ Msg("new", job[c].names \ seen[c]) \in Message
    BY <2>1, MsgType
  <2>3. UNCHANGED <<got, lines, downs, pc>>
    BY <1>6 DEF Reply
  <2>4. \/ UNCHANGED <<out, closed>>
        \/ SendTo({c}, Msg("ls", job[c].names))
        \/ SendTo({c}, Msg("ack", job[c].names))
        \/ SendTo({c}, Msg("new", job[c].names \ seen[c]))
    BY <1>6 DEF Reply
  <2>5. ASSUME NEW m \in Message, m.t # "line", SendTo({c}, m)  PROVE FeedInv'
    BY <1>1, <2>3, <2>5, FeedSent
  <2> QED
    BY <1>3, <2>2, <2>3, <2>4, <2>5 DEF Msg
<1>7. ASSUME NEW c \in Clients, authenticate(c)  PROVE FeedInv'
  <2>1. Msg("error", {}) \in Message /\ Msg("error", {}).t # "line"
    BY MsgType DEF Msg
  <2>2. UNCHANGED <<got, lines, downs>> /\ pc[c] \in Early
    BY <1>7 DEF authenticate, Early
  <2>3. \E p : pc' = Set(pc, c, p)
    BY <1>7 DEF authenticate, Refused
  <2>4. \A d \in Clients : pc'[d] \in Early => pc[d] \in Early
    BY <1>1, <2>2, <2>3 DEF TypeOK
  <2>5. CASE SendTo({c}, Msg("error", {}))
    BY <1>1, <2>1, <2>2, <2>4, <2>5, FeedSent
  <2>6. CASE UNCHANGED <<out, closed>>
    BY <1>2, <2>2, <2>4, <2>6
  <2> QED
    BY <1>7, <2>5, <2>6 DEF authenticate, Refused
<1>8. ASSUME NEW c \in Clients, Attach(c)  PROVE FeedInv'
  <2>1. at[c] \in Sessions /\ lines[at[c]] \in Nat /\ pc[c] = "attach"
    BY <1>1, <1>8 DEF AtKnown, Attach, TypeOK
  <2>2. /\ UNCHANGED <<out, closed, lines>>
        /\ downs' = Set(downs, at[c], downs[at[c]] \cup {c})
        /\ got' = [got EXCEPT ![c].last = lines[at[c]]]
        /\ pc' = Set(pc, c, "burst") \/ pc' = Set(pc, c, "run")
    BY <1>8 DEF Attach
  <2>3. \A s \in Sessions : c \notin downs[s]
    BY <1>1, <2>1 DEF AttachedHere
  <2>4. \A s \in Sessions : c \in downs'[s] => s = at[c]
    BY <1>1, <2>1, <2>2, <2>3 DEF TypeOK
  <2>5. got[c] \in Knowledge /\ out[c] \in Seq(Message) /\ got'[c].last = lines[at[c]]
        /\ got'[c].hole = got[c].hole
    BY <1>1, <2>2 DEF TypeOK, Knowledge
  <2>6. NoLines(out[c]) /\ ~got[c].hole
    BY <2>1 DEF FeedInv, Early
  <2>7. Leads(out[c], lines[at[c]], lines[at[c]])
    BY <2>1, <2>5, <2>6, NoLinesLead
  <2>8. pc'[c] \notin Early
    BY <1>1, <2>2 DEF TypeOK, Early
  <2>9. ASSUME NEW d \in Clients, d # c
        PROVE  /\ got'[d] = got[d] /\ pc'[d] = pc[d]
               /\ \A s \in Sessions : d \in downs'[s] => d \in downs[s]
    BY <1>1, <2>1, <2>2, <2>9 DEF TypeOK
  <2> QED
    BY <2>1, <2>2, <2>4, <2>5, <2>6, <2>7, <2>8, <2>9 DEF FeedInv
<1>9. ASSUME NEW c \in Clients, AttachSync(c) \/ ReadFails(c)  PROVE FeedInv'
  <2>1. UNCHANGED <<out, got, lines, closed, downs>>
    BY <1>9 DEF AttachSync, ReadFails
  <2>2. pc' = Set(pc, c, "run") \/ pc' = Set(pc, c, "leaving")
    BY <1>9 DEF AttachSync, ReadFails
  <2> QED
    BY <1>1, <1>2, <2>1, <2>2 DEF TypeOK, Early
<1>10. ASSUME NEW c \in Clients, Detach(c) \/ Release(c)  PROVE FeedInv'
  <2>1. UNCHANGED <<out, got, lines>> /\ closed' = Set(closed, c, Closed(c))
    BY <1>10 DEF Detach, Release
  <2>2. pc' = Set(pc, c, "refused") \/ pc' = Set(pc, c, "gone")
    BY <1>10 DEF Detach, Release
  <2>3. \A d \in Clients : pc'[d] \in Early => pc[d] \in Early
    BY <1>1, <2>2 DEF TypeOK, Early
  <2>4. \A d \in Clients : closed'[d] = "no" => closed[d] = "no"
    BY <1>1, <2>1 DEF TypeOK, Closed
  <2>5. \A s \in Sessions : downs'[s] \subseteq downs[s]
    <3>1. UNCHANGED downs \/ downs' = Set(downs, at[c], downs[at[c]] \ {c})
      BY <1>10 DEF Detach, Release
    <3> QED
      BY <1>1, <3>1, ZenonT(60) DEF TypeOK
  <2> QED
    BY <2>1, <2>3, <2>4, <2>5, FeedKept
<1>11. ASSUME NEW c \in Clients, keepaliveLoop(c)  PROVE FeedInv'
  <2>1. UNCHANGED <<got, lines, downs, pc>>
    BY <1>11 DEF keepaliveLoop
  <2>2. CASE SendTo({c}, Msg("ping", {}))
    <3>1. Msg("ping", {}) \in Message /\ Msg("ping", {}).t # "line"
      BY MsgType DEF Msg
    <3> QED
      BY <1>1, <2>1, <2>2, <3>1, FeedSent
  <2>3. CASE closed' = Set(closed, c, "closed") /\ UNCHANGED out
    <3>1. \A d \in Clients : closed'[d] = "no" => closed[d] = "no"
      BY <1>1, <2>3 DEF TypeOK
    <3> QED
      BY <2>1, <2>3, <3>1, FeedKept
  <2> QED
    BY <1>11, <2>2, <2>3 DEF keepaliveLoop
<1>12. ASSUME NEW c \in Clients, writeLoop(c)  PROVE FeedInv'
  <2>1. UNCHANGED <<lines, closed, downs, pc>>
    BY <1>12 DEF writeLoop
  <2>2. CASE UNCHANGED <<out, got>>
    BY <1>3, <2>1, <2>2
  <2>3. CASE /\ out[c] # <<>> /\ out' = Set(out, c, Tail(out[c]))
             /\ got' = Set(got, c, Told(got[c], Head(out[c])))
    <3>1. /\ got[c] \in Knowledge /\ out[c] \in Seq(Message) /\ Head(out[c]) \in Message
          /\ got'[c] = Told(got[c], Head(out[c])) /\ out'[c] = Tail(out[c])
      BY <1>1, <2>3 DEF TypeOK
    <3>2. PICK b \in Nat : /\ Leads(out[c], got[c].last, b)
                           /\ \A s \in Sessions : c \in downs[s] /\ closed[c] = "no" => b = lines[s]
      BY DEF FeedInv
    <3>3. got[c].last \in Nat /\ ~got[c].hole
      BY <3>1 DEF Knowledge, FeedInv
    <3>4. /\ Head(out[c]).t # "line" => Leads(Tail(out[c]), got[c].last, b)
          /\ Head(out[c]).t = "line" => /\ Head(out[c]).n = got[c].last + 1
                                        /\ Leads(Tail(out[c]), got[c].last + 1, b)
      BY <2>3, <3>1, <3>2, <3>3, LeadsTail
    <3>5. ~got'[c].hole /\ Leads(out'[c], got'[c].last, b)
      <4>1. CASE Head(out[c]).t = "line"
        <5>1. /\ got'[c].last = Head(out[c]).n
              /\ got'[c].hole = (got[c].hole \/ Head(out[c]).n # got[c].last + 1)
          BY <3>1, <4>1 DEF Told, Knowledge
        <5> QED
          BY <3>1, <3>3, <3>4, <4>1, <5>1
      <4>2. CASE Head(out[c]).t # "line"
        <5>1. got'[c].last = got[c].last /\ got'[c].hole = got[c].hole
          BY <3>1, <4>2 DEF Told, Knowledge
        <5> QED
          BY <3>1, <3>3, <3>4, <4>2, <5>1
      <4> QED
        BY <4>1, <4>2
    <3>6. NoLines(out[c]) => NoLines(out'[c])
      BY <2>3, <3>1 DEF NoLines
    <3>7. ASSUME NEW d \in Clients, d # c  PROVE got'[d] = got[d] /\ out'[d] = out[d]
      BY <1>1, <2>3, <3>7 DEF TypeOK
    <3> QED
      BY <2>1, <3>2, <3>5, <3>6, <3>7 DEF FeedInv
  <2> QED
    BY <1>12, <2>2, <2>3 DEF writeLoop
<1>13. ASSUME Serve \/ ReplaceListener  PROVE FeedInv'
  BY <1>3, <1>13 DEF Serve, AcceptFails, CloseOld, ReplaceListener
<1>14. ASSUME broadcastCapNotify \/ CloseClients  PROVE FeedInv'
  <2>1. UNCHANGED <<got, lines, downs, pc>>
    BY <1>14 DEF broadcastCapNotify, CloseClients
  <2>2. dm.to \in {"new", "del"} => dm.names \in SUBSET Caps
    BY <1>1 DEF TypeOK, Work
  <2>3. PICK S, m : /\ m \in Message /\ m.t # "line"
                    /\ SendTo(S, m) \/ SendLast(S, m)
    <3>1. CASE broadcastCapNotify
      <4>1. Msg(dm.to, dm.names) \in Message /\ Msg(dm.to, dm.names).t # "line"
        BY <2>2, <3>1, MsgType DEF Msg, broadcastCapNotify
      <4> QED
        BY <3>1, <4>1 DEF broadcastCapNotify
    <3>2. CASE CloseClients
      <4>1. Msg("error", {}) \in Message /\ Msg("error", {}).t # "line"
        BY MsgType DEF Msg
      <4> QED
        BY <3>2, <4>1 DEF CloseClients
    <3> QED
      BY <1>14, <3>1, <3>2
  <2> QED
    BY <1>1, <2>1, <2>3, FeedSent
<1>15. CASE Relay
  <2>1. /\ cur \in Sessions /\ lines[cur] \in Nat /\ lines' = Set(lines, cur, lines[cur] + 1)
        /\ SendTo(downs[cur], Line(lines[cur] + 1)) /\ UNCHANGED <<got, downs, pc>>
    BY <1>1, <1>15 DEF Relay, Quiet, TypeOK
  <2>2. PICK m : m = Line(lines[cur] + 1)
    OBVIOUS
  <2>3. m \in Message /\ m.t = "line" /\ m.n = lines[cur] + 1 /\ SendTo(downs[cur], m)
    BY <2>1, <2>2 DEF Line, Message
  <2> SUFFICES ASSUME NEW c \in Clients
               PROVE  /\ ~got[c].hole
                      /\ pc[c] \in Early => NoLines(out'[c])
                      /\ \E b \in Nat : /\ Leads(out'[c], got[c].last, b)
                                        /\ \A s \in Sessions :
                                              c \in downs[s] /\ closed'[c] = "no" => b = lines'[s]
    BY <2>1 DEF FeedInv
  <2>4. PICK b \in Nat : /\ Leads(out[c], got[c].last, b)
                         /\ \A s \in Sessions : c \in downs[s] /\ closed[c] = "no" => b = lines[s]
    BY DEF FeedInv
  <2>5. out[c] \in Seq(Message) /\ got[c].last \in Nat /\ ~got[c].hole
    BY <1>1 DEF TypeOK, Knowledge, FeedInv
  <2>6. /\ c \notin downs[cur] => out'[c] = out[c] /\ closed'[c] = closed[c]
        /\ closed[c] # "no" => out'[c] = out[c] /\ closed'[c] = closed[c]
        /\ c \in downs[cur] /\ closed'[c] # "overflow" /\ closed[c] = "no" => out'[c] = Append(out[c], m)
        /\ out'[c] = out[c] \/ (c \in downs[cur] /\ closed[c] = "no" /\ out'[c] = Append(out[c], m))
        /\ closed'[c] = "no" => closed[c] = "no"
    BY <1>1, <2>3, SentOne
  <2>7. c \in downs[cur] => pc[c] \notin Early
    BY <1>1, <2>1 DEF AttachedHere, Early
  <2>8. pc[c] \in Early => NoLines(out'[c])
    BY <2>6, <2>7 DEF FeedInv
  <2>9. ASSUME NEW s \in Sessions, c \in downs[s], s # cur  PROVE c \notin downs[cur]
    BY <1>1, <2>1, <2>9 DEF AttachedHere
  <2>10. CASE c \in downs[cur] /\ closed[c] = "no" /\ out'[c] = Append(out[c], m)
    <3>1. b = lines[cur]
      BY <2>1, <2>4, <2>10
    <3>2. Leads(out'[c], got[c].last, b + 1)
      BY <2>3, <2>4, <2>5, <2>10, <3>1, LeadsAppend
    <3>3. \A s \in Sessions : c \in downs[s] => s = cur
      BY <2>9, <2>10
    <3>4. lines'[cur] = b + 1
      BY <1>1, <2>1, <3>1 DEF TypeOK
    <3> QED
      BY <2>5, <2>8, <3>2, <3>3, <3>4
  <2>11. CASE out'[c] = out[c] /\ ~(c \in downs[cur] /\ closed'[c] = "no")
    <3>1. \A s \in Sessions : s # cur => lines'[s] = lines[s]
      BY <1>1, <2>1 DEF TypeOK
    <3> QED
      BY <2>4, <2>5, <2>6, <2>8, <2>11, <3>1
  <2> QED
    BY <2>6, <2>10, <2>11
<1>16. CASE HandleDisconnect
  <2>1. UNCHANGED <<out, got, lines, closed, pc>>
    BY <1>16 DEF HandleDisconnect
  <2>2. \A s \in Sessions : downs'[s] \subseteq downs[s]
    BY <1>1, <1>16 DEF HandleDisconnect, TypeOK
  <2> QED
    BY <2>1, <2>2, FeedKept
<1>17. ASSUME OnCapACK \/ OnCapDEL \/ completeRegistration  PROVE FeedInv'
  BY <1>3, <1>17 DEF OnCapACK, OnCapDEL, completeRegistration
<1>18. ASSUME StopNetwork \/ \E s \in Sessions : StartNetwork(s)  PROVE FeedInv'
  BY <1>3, <1>18 DEF StopNetwork, StartNetwork
<1>19. CASE UNCHANGED vars
  BY <1>3, <1>19 DEF vars
<1> QED
  BY <1>4, <1>5, <1>6, <1>7, <1>8, <1>9, <1>10, <1>11, <1>12, <1>13, <1>14, <1>15, <1>16,
         <1>17, <1>18, <1>19
     DEF Next, Handle, Demux, Uplink

-----------------------------------------------------------------------------
(* The end of a client that has been refused.                                *)

ErrorIn(q) == \E i \in 1 .. Len(q) : q[i].t = "error"

\* The ERROR has reached the client or is in its queue.
Informed(c) == got[c].error \/ ErrorIn(out[c])

\* A client's end, from its connection's side: only its writer ends a connection that
\* has had a handler, and it does so when the queue has run empty or the client reads
\* no more; and from its handler's: a client without a session is closed by its own
\* handler alone, which has queued the ERROR.
RefusalOf(c) ==
    /\ pc[c] \in {"off", "shake"} => closed[c] = "no" /\ c \notin writing
    /\ c \in writing => tcp[c] # "ended"
    /\ pc[c] \notin {"off", "shake", "gone"} /\ c \notin writing /\ closed[c] = "no"
       => tcp[c] # "ended" \/ c \in mute
    /\ at[c] = NONE /\ pc[c] = "refused" /\ closed[c] # "overflow" => Informed(c)
    /\ at[c] = NONE /\ closed[c] = "closed" => pc[c] = "gone" /\ Informed(c)
    /\ at[c] = NONE /\ closed[c] = "closed" /\ tcp[c] = "ended" /\ c \notin writing /\ c \notin mute
       => got[c].error

RefusalInv == \A c \in Clients : RefusalOf(c)

\* An ERROR in a queue stays there until the client has it.
LEMMA ErrorStays ==
  ASSUME NEW q \in Seq(Message), NEW m \in Message
  PROVE  /\ ErrorIn(q) => ErrorIn(Append(q, m))
         /\ m.t = "error" => ErrorIn(Append(q, m))
         /\ q # <<>> /\ ErrorIn(q) => Head(q).t = "error" \/ ErrorIn(Tail(q))
         /\ ~ErrorIn(<<>>)
<1>1. /\ Len(Append(q, m)) = Len(q) + 1 /\ Len(q) \in Nat /\ Append(q, m)[Len(q) + 1] = m
      /\ \A i \in 1 .. Len(q) : Append(q, m)[i] = q[i]
  OBVIOUS
<1>2. ASSUME q # <<>>
      PROVE  /\ Len(q) = Len(Tail(q)) + 1 /\ Len(Tail(q)) \in Nat /\ Head(q) = q[1]
             /\ \A i \in 1 .. Len(Tail(q)) : Tail(q)[i] = q[i + 1]
  BY <1>2
<1>3. ErrorIn(q) => ErrorIn(Append(q, m))
  BY <1>1 DEF ErrorIn
<1>4. m.t = "error" => ErrorIn(Append(q, m))
  <2>1. Len(q) + 1 \in 1 .. Len(Append(q, m))
    BY <1>1
  <2> QED
    BY <1>1, <2>1 DEF ErrorIn
<1>5. ASSUME q # <<>>, NEW i \in 1 .. Len(q), q[i].t = "error"
      PROVE  Head(q).t = "error" \/ ErrorIn(Tail(q))
  <2>1. CASE i = 1
    BY <1>2, <1>5, <2>1
  <2>2. CASE i # 1
    <3>1. i - 1 \in 1 .. Len(Tail(q)) /\ (i - 1) + 1 = i
      BY <1>2, <1>5, <2>2
    <3>2. Tail(q)[i - 1].t = "error"
      BY <1>2, <1>5, <3>1
    <3> QED
      BY <3>1, <3>2 DEF ErrorIn
  <2> QED
    BY <2>1, <2>2
<1>6. q # <<>> /\ ErrorIn(q) => Head(q).t = "error" \/ ErrorIn(Tail(q))
  BY <1>5 DEF ErrorIn
<1>7. ~ErrorIn(<<>>)
  BY DEF ErrorIn
<1> QED
  BY <1>3, <1>4, <1>6, <1>7

\* A client of which a step changes nothing but that it falls silent.
LEMMA RefusalKept ==
  ASSUME NEW c \in Clients, RefusalOf(c), pc'[c] = pc[c], at'[c] = at[c], closed'[c] = closed[c],
         out'[c] = out[c], got'[c].error = got[c].error, c \in writing' <=> c \in writing,
         tcp'[c] = tcp[c], mute \subseteq mute'
  PROVE  RefusalOf(c)'
  BY DEF RefusalOf, Informed

\* A client that may be sent something, or be let go as too slow.
LEMMA RefusalSent ==
  ASSUME TypeOK, NEW c \in Clients, RefusalOf(c), NEW S, NEW m \in Message, SendTo(S, m),
         c \in S => pc[c] \notin {"off", "shake"},
         pc'[c] = pc[c], at'[c] = at[c], got' = got, writing' = writing, tcp' = tcp, mute' = mute
  PROVE  RefusalOf(c)'
<1>1. /\ out'[c] = out[c] \/ out'[c] = Append(out[c], m)
      /\ closed'[c] \in {closed[c], "overflow"}
      /\ closed'[c] = "no" => closed[c] = "no"
      /\ c \notin S => closed'[c] = closed[c]
  BY SentOne
<1>2. out[c] \in Seq(Message)
  BY DEF TypeOK
<1>3. ErrorIn(out[c]) => ErrorIn(out'[c])
  BY <1>1, <1>2, ErrorStays
<1>4. Informed(c) => Informed(c)'
  BY <1>3 DEF Informed
<1> QED
  BY <1>1, <1>4 DEF RefusalOf

LEMMA RefusalStep ==
  ASSUME SessionInv, RefusalInv, [Next]_vars
  PROVE  RefusalInv'
<1> USE DEF listener, handler, capable, wire, world, session, Set
<1>1. TypeOK /\ AtKnown /\ AttachedHere /\ LostWereAttached /\ WorkHasSession /\ JobsServed
  BY DEF SessionInv
<1> SUFFICES ASSUME NEW d \in Clients  PROVE RefusalOf(d)'
  BY DEF RefusalInv
<1>2. RefusalOf(d)
  BY DEF RefusalInv
<1>3. out[d] \in Seq(Message) /\ got[d] \in Knowledge /\ pc[d] \in HandlerPC
      /\ closed[d] \in {"no", "closed", "overflow"} /\ tcp[d] \in {"up", "ended", "left"}
  BY <1>1 DEF TypeOK
<1>4. ASSUME UNCHANGED <<pc, at, closed, out, got, writing, tcp>>, mute \subseteq mute'
      PROVE  RefusalOf(d)'
  BY <1>2, <1>4, RefusalKept
<1>5. ASSUME NEW c \in Clients, Accept(c) \/ Handshake(c)  PROVE RefusalOf(d)'
  <2>1. UNCHANGED <<at, closed, out, got, mute>> /\ pc[c] \in {"off", "shake"}
    BY <1>5 DEF Accept, Handshake
  <2>2. CASE d # c
    <3>1. pc'[d] = pc[d] /\ tcp'[d] = tcp[d] /\ (d \in writing' <=> d \in writing)
      BY <1>1, <1>5, <2>2 DEF Accept, Handshake, TypeOK
    <3> QED
      BY <1>2, <2>1, <3>1, RefusalKept
  <2>3. CASE d = c
    <3>1. closed[d] = "no" /\ d \notin writing
      BY <1>2, <2>1, <2>3 DEF RefusalOf
    <3>2. \/ pc'[d] = "shake" /\ tcp' = tcp /\ writing' = writing
          \/ pc'[d] = "gone" /\ writing' = writing
          \/ pc'[d] = "auth" /\ tcp' = tcp /\ tcp[d] = "up" /\ writing' = writing \cup {d}
      BY <1>1, <1>5, <2>3 DEF Accept, Handshake, TypeOK
    <3> QED
      BY <1>2, <2>1, <3>1, <3>2 DEF RefusalOf
  <2> QED
    BY <2>2, <2>3
<1>6. ASSUME NEW c \in Clients, Commands(c) \/ Hang(c)  PROVE RefusalOf(d)'
  BY <1>4, <1>6 DEF Commands, CapLS, CapREQ, CapEND, NickUser, Pass, Hang
<1>7. ASSUME NEW c \in Clients, Leave(c)  PROVE RefusalOf(d)'
  <2>1. UNCHANGED <<pc, at, closed, out, got, writing, mute>> /\ tcp' = Set(tcp, c, "left") /\ tcp[c] = "up"
    BY <1>7 DEF Leave
  <2>2. tcp'[d] = tcp[d] \/ (tcp'[d] = "left" /\ tcp[d] = "up")
    BY <1>1, <2>1 DEF TypeOK
  <2> QED
    BY <1>2, <2>1, <2>2 DEF RefusalOf, Informed
<1>8. ASSUME NEW c \in Clients, Reply(c)  PROVE RefusalOf(d)'
  <2>1. job[c].names \in SUBSET Caps /\ job[c].names \ seen[c] \in SUBSET Caps
    BY <1>1 DEF TypeOK, Job
  <2>2. /\ Msg("ls", job[c].names) \in Message /\ Msg("ack", job[c].names) \in Message
        /\ Msg("new", job[c].names \ seen[c]) \in Message
    BY <2>1, MsgType
  <2>3. UNCHANGED <<pc, at, got, writing, tcp, mute>>
    BY <1>8 DEF Reply
  <2>4. \/ UNCHANGED <<out, closed>>
        \/ SendTo({c}, Msg("ls", job[c].names))
        \/ SendTo({c}, Msg("ack", job[c].names))
        \/ SendTo({c}, Msg("new", job[c].names \ seen[c]))
    BY <1>8 DEF Reply
  <2>5. pc[c] \notin {"off", "shake"}
    BY <1>1, <1>8 DEF JobsServed, Reply
  <2>6. ASSUME NEW m \in Message, SendTo({c}, m)  PROVE RefusalOf(d)'
    BY <1>1, <1>2, <2>3, <2>5, <2>6, RefusalSent
  <2> QED
    BY <1>4, <2>2, <2>3, <2>4, <2>6
<1>9. ASSUME NEW c \in Clients, authenticate(c)  PROVE RefusalOf(d)'
  <2>1. UNCHANGED <<got, writing, tcp, mute>> /\ pc[c] = "auth"
    BY <1>9 DEF authenticate
  <2>2. CASE d # c
    <3>1. pc'[d] = pc[d] /\ at'[d] = at[d] /\ out'[d] = out[d] /\ closed'[d] = closed[d]
      <4>1. CASE pc' = Set(pc, c, "refused") /\ SendTo({c}, Msg("error", {})) /\ UNCHANGED at
        BY <1>1, <2>2, <4>1 DEF TypeOK, SendTo
      <4>2. CASE pc' = Set(pc, c, "attach") /\ at' = Set(at, c, cur) /\ UNCHANGED <<out, closed>>
        BY <1>1, <2>2, <4>2 DEF TypeOK
      <4> QED
        BY <1>9, <4>1, <4>2 DEF authenticate, Refused
    <3> QED
      BY <1>2, <2>1, <3>1, RefusalKept
  <2>3. CASE d = c /\ pc' = Set(pc, c, "attach") /\ at' = Set(at, c, cur) /\ cur # NONE
             /\ UNCHANGED <<out, closed>>
    <3>1. pc'[d] = "attach" /\ at'[d] # NONE
      BY <1>1, <2>3 DEF TypeOK
    <3> QED
      BY <1>2, <2>1, <2>3, <3>1 DEF RefusalOf
  <2>4. CASE d = c /\ pc' = Set(pc, c, "refused") /\ at' = at /\ SendTo({c}, Msg("error", {}))
    <3>1. pc'[d] = "refused"
      BY <1>1, <2>4 DEF TypeOK
    <3>2. Msg("error", {}) \in Message /\ Msg("error", {}).t = "error"
      BY MsgType DEF Msg
    <3>3. /\ closed'[d] \in {closed[d], "overflow"} /\ (closed'[d] = "no" => closed[d] = "no")
          /\ closed'[d] # "overflow" /\ closed[d] = "no" => out'[d] = Append(out[d], Msg("error", {}))
      BY <1>1, <2>4, <3>2, SentOne
    <3>4. closed'[d] # "overflow" /\ closed[d] = "no" => Informed(d)'
      BY <1>3, <3>2, <3>3, ErrorStays DEF Informed
    <3>5. at[d] = NONE => closed[d] # "closed"
      BY <1>2, <2>1, <2>4 DEF RefusalOf
    <3> QED
      BY <1>2, <1>3, <2>1, <2>4, <3>1, <3>3, <3>4, <3>5 DEF RefusalOf
  <2> QED
    BY <1>9, <2>2, <2>3, <2>4 DEF authenticate, Refused
<1>10. ASSUME NEW c \in Clients, Attach(c)  PROVE RefusalOf(d)'
  <2>1. /\ UNCHANGED <<at, out, closed, writing, tcp, mute>> /\ pc[c] = "attach"
        /\ pc' = Set(pc, c, "burst") \/ pc' = Set(pc, c, "run")
        /\ got' = [got EXCEPT ![c].last = lines[at[c]]]
    BY <1>10 DEF Attach
  <2>2. got'[d].error = got[d].error
    BY <1>1, <1>3, <2>1 DEF TypeOK, Knowledge
  <2>3. pc'[d] = pc[d] \/ (d = c /\ pc'[d] \in {"burst", "run"})
    BY <1>1, <2>1 DEF TypeOK
  <2> QED
    BY <1>2, <2>1, <2>2, <2>3 DEF RefusalOf, Informed
<1>11. ASSUME NEW c \in Clients, AttachSync(c) \/ ReadFails(c)  PROVE RefusalOf(d)'
  <2>1. /\ UNCHANGED <<at, out, closed, got, writing, tcp, mute>> /\ pc[c] \in {"burst", "run"}
        /\ pc' = Set(pc, c, "leaving") \/ pc' = Set(pc, c, "run")
    BY <1>11 DEF AttachSync, ReadFails
  <2>2. pc'[d] = pc[d] \/ (d = c /\ pc'[d] \in {"leaving", "run"})
    BY <1>1, <2>1 DEF TypeOK
  <2> QED
    BY <1>2, <2>1, <2>2 DEF RefusalOf, Informed
<1>12. ASSUME NEW c \in Clients, Detach(c)  PROVE RefusalOf(d)'
  <2>1. /\ UNCHANGED <<at, out, got, writing, tcp, mute>> /\ pc[c] = "leaving"
        /\ pc' = Set(pc, c, "refused") /\ closed' = Set(closed, c, Closed(c))
    BY <1>12 DEF Detach
  <2>2. d # c => pc'[d] = pc[d] /\ closed'[d] = closed[d]
    BY <1>1, <2>1 DEF TypeOK
  <2>3. d = c => pc'[d] = "refused" /\ closed'[d] # "no" /\ at[d] # NONE
    BY <1>1, <1>3, <2>1 DEF TypeOK, Closed, AtKnown
  <2> QED
    BY <1>2, <2>1, <2>2, <2>3 DEF RefusalOf, Informed
<1>13. ASSUME NEW c \in Clients, Release(c)  PROVE RefusalOf(d)'
  <2>1. /\ UNCHANGED <<at, out, got, writing, tcp, mute>> /\ pc[c] = "refused"
        /\ pc' = Set(pc, c, "gone") /\ closed' = Set(closed, c, Closed(c))
    BY <1>13 DEF Release
  <2>2. d # c => pc'[d] = pc[d] /\ closed'[d] = closed[d]
    BY <1>1, <2>1 DEF TypeOK
  <2>3. d = c => /\ pc[d] = "refused" /\ pc'[d] = "gone" 
                 /\ closed'[d] = (IF closed[d] = "no" THEN "closed" ELSE closed[d])
    BY <1>1, <1>3, <2>1 DEF TypeOK, Closed
  <2> QED
    BY <1>2, <1>3, <2>1, <2>2, <2>3 DEF RefusalOf, Informed
<1>14. ASSUME NEW c \in Clients, keepaliveLoop(c)  PROVE RefusalOf(d)'
  <2>1. UNCHANGED <<pc, at, got, writing, tcp, mute>> /\ pc[c] = "run" /\ c \in mute
    BY <1>14 DEF keepaliveLoop
  <2>2. CASE SendTo({c}, Msg("ping", {}))
    <3>1. Msg("ping", {}) \in Message
      BY MsgType
    <3> QED
      BY <1>1, <1>2, <2>1, <2>2, <3>1, RefusalSent
  <2>3. CASE closed' = Set(closed, c, "closed") /\ UNCHANGED out
    <3>1. d # c => closed'[d] = closed[d]
      BY <1>1, <2>3 DEF TypeOK
    <3>2. d = c => closed'[d] = "closed" /\ at[d] # NONE /\ pc[d] = "run"
      BY <1>1, <2>1, <2>3 DEF TypeOK, AtKnown
    <3> QED
      BY <1>2, <2>1, <2>3, <3>1, <3>2 DEF RefusalOf, Informed
  <2> QED
    BY <1>14, <2>2, <2>3 DEF keepaliveLoop
<1>15. ASSUME NEW c \in Clients, writeLoop(c)  PROVE RefusalOf(d)'
  <2>1. UNCHANGED <<pc, at, closed, mute>> /\ c \in writing
    BY <1>15 DEF writeLoop
  <2>2. CASE d # c
    <3>1. out'[d] = out[d] /\ got'[d] = got[d] /\ tcp'[d] = tcp[d] /\ (d \in writing' <=> d \in writing)
      BY <1>1, <1>15, <2>2 DEF writeLoop, TypeOK
    <3> QED
      BY <1>2, <2>1, <2>2, <3>1, RefusalKept
  <2>3. CASE d = c /\ out[c] # <<>> /\ out' = Set(out, c, Tail(out[c]))
             /\ got' = Set(got, c, Told(got[c], Head(out[c]))) /\ UNCHANGED <<writing, tcp>>
    <3>1. out'[d] = Tail(out[d]) /\ got'[d] = Told(got[d], Head(out[d])) /\ Head(out[d]) \in Message
      BY <1>1, <1>3, <2>3 DEF TypeOK
    <3>2. Head(out[d]).t = "error" => got'[d].error
      BY <1>3, <3>1 DEF Told, Knowledge
    <3>3. got[d].error => got'[d].error
      BY <1>3, <3>1 DEF Told, Knowledge
    <3>4. Informed(d) => Informed(d)'
      BY <1>3, <2>3, <3>1, <3>2, <3>3, ErrorStays DEF Informed
    <3> QED
      BY <1>2, <2>1, <2>3, <3>3, <3>4 DEF RefusalOf
  <2>4. CASE d = c /\ writing' = writing \ {c} /\ tcp' = Set(tcp, c, Over(c)) /\ UNCHANGED <<out, got>>
             /\ (MayClose(c) \/ tcp[c] # "up" \/ c \in mute)
    <3>1. d \notin writing' /\ d \in writing /\ tcp[d] # "ended"
          /\ tcp'[d] = (IF tcp[d] = "up" THEN "ended" ELSE tcp[d])
      BY <1>1, <1>2, <2>1, <2>4 DEF TypeOK, Over, RefusalOf
    <3>2. pc[d] \notin {"off", "shake"}
      BY <1>2, <3>1 DEF RefusalOf
    <3>3. tcp'[d] = "ended" => d \in mute \/ (closed[d] # "no" /\ out[d] = <<>>)
      BY <1>3, <2>4, <3>1 DEF MayClose
    <3>4. out[d] = <<>> => ~ErrorIn(out[d])
      BY DEF ErrorIn
    <3> QED
      BY <1>2, <2>1, <2>4, <3>1, <3>2, <3>3, <3>4 DEF RefusalOf, Informed
  <2> QED
    BY <1>15, <2>2, <2>3, <2>4 DEF writeLoop
<1>16. ASSUME Serve \/ ReplaceListener  PROVE RefusalOf(d)'
  BY <1>4, <1>16 DEF Serve, AcceptFails, CloseOld, ReplaceListener
<1>17. CASE broadcastCapNotify
  <2>1. UNCHANGED <<pc, at, got, writing, tcp, mute>>
    BY <1>17 DEF broadcastCapNotify
  <2>2. PICK S, m : /\ m \in Message /\ SendTo(S, m)
                    /\ \A c \in Clients : c \in S => pc[c] \notin {"off", "shake"}
    <3>1. Msg(dm.to, dm.names) \in Message
      BY <1>1, <1>17, MsgType DEF TypeOK, Work, broadcastCapNotify
    <3>2. cur \in Sessions
      BY <1>1, <1>17 DEF TypeOK, WorkHasSession, broadcastCapNotify
    <3>3. \A c \in Notified : pc[c] \notin {"off", "shake"}
      BY <1>1, <3>2 DEF AttachedHere, Notified, TypeOK
    <3> QED
      BY <1>17, <3>1, <3>3 DEF broadcastCapNotify
  <2> QED
    BY <1>1, <1>2, <2>1, <2>2, RefusalSent
<1>18. CASE CloseClients
  <2>1. /\ UNCHANGED <<pc, at, got, writing, tcp, mute>> /\ dm.to = "lost"
        /\ SendLast(dm.names, Msg("error", {}))
    BY <1>18 DEF CloseClients
  <2>2. Msg("error", {}) \in Message
    BY MsgType
  <2>3. d \notin dm.names => out'[d] = out[d] /\ closed'[d] = closed[d]
    BY <1>1, <2>1, <2>2, SentOne
  <2>4. d \in dm.names => at[d] # NONE /\ pc[d] \notin {"off", "shake"}
    BY <1>1, <2>1 DEF LostWereAttached
  <2>5. closed'[d] = "no" => closed[d] = "no"
    BY <1>1, <2>1, <2>2, SentOne
  <2> QED
    BY <1>2, <2>1, <2>3, <2>4, <2>5 DEF RefusalOf, Informed
<1>19. CASE Relay
  <2>1. /\ cur \in Sessions /\ lines[cur] \in Nat /\ SendTo(downs[cur], Line(lines[cur] + 1))
        /\ UNCHANGED <<pc, at, got, writing, tcp, mute>>
    BY <1>1, <1>19 DEF Relay, Quiet, TypeOK
  <2>2. Line(lines[cur] + 1) \in Message
    BY <2>1 DEF Line, Message
  <2>3. \A c \in downs[cur] : pc[c] \notin {"off", "shake"}
    BY <1>1, <2>1 DEF AttachedHere, TypeOK
  <2> QED
    BY <1>1, <1>2, <2>1, <2>2, <2>3, RefusalSent
<1>20. ASSUME OnCapACK \/ OnCapDEL \/ completeRegistration \/ HandleDisconnect  PROVE RefusalOf(d)'
  BY <1>4, <1>20 DEF OnCapACK, OnCapDEL, completeRegistration, HandleDisconnect
<1>21. ASSUME StopNetwork \/ \E s \in Sessions : StartNetwork(s)  PROVE RefusalOf(d)'
  BY <1>4, <1>21 DEF StopNetwork, StartNetwork
<1>22. CASE UNCHANGED vars
  BY <1>4, <1>22 DEF vars
<1> QED
  BY <1>5, <1>6, <1>7, <1>8, <1>9, <1>10, <1>11, <1>12, <1>13, <1>14, <1>15, <1>16, <1>17,
         <1>18, <1>19,
     <1>20, <1>21, <1>22 DEF Next, Handle, Demux, Uplink

\* A client too slow for its feed is let go before it misses a line, and a client that
\* is refused and still reads has the ERROR before its connection ends, whatever else
\* the session, its writer and its keepalive do in between.
THEOREM ClientsAreToldOrLetGo == Spec => []ToldOrLetGo
<1>1. ASSUME Init  PROVE FeedInv
  <2>1. ASSUME NEW c \in Clients  PROVE Leads(out[c], 0, 0) /\ NoLines(out[c]) /\ got[c] = Nothing
    <3>1. out[c] = <<>> /\ <<>> \in Seq(Message) /\ got[c] = Nothing
      BY <1>1 DEF Init
    <3>2. NoLines(<<>>)
      BY DEF NoLines
    <3> QED
      BY <3>1, <3>2, NoLinesLead
  <2> QED
    BY <1>1, <2>1 DEF Init, FeedInv, Nothing
<1>2. ASSUME Init  PROVE RefusalInv
  BY <1>2 DEF Init, RefusalInv, RefusalOf
<1>3. ASSUME SessionInv, SessionInv', FeedInv, RefusalInv, [Next]_vars
      PROVE  FeedInv' /\ RefusalInv'
  BY <1>3, FeedStep, RefusalStep
<1>4. FeedInv /\ RefusalInv => ToldOrLetGo
  BY DEF FeedInv, RefusalInv, RefusalOf, ToldOrLetGo, NoHoleInFeed, RefusedIsTold
<1>5. Spec => [](SessionInv /\ SlotsCounted)
  BY SessionInvariant
<1> QED
  BY <1>1, <1>2, <1>3, <1>4, <1>5, PTL DEF Spec
-----------------------------------------------------------------------------
(* What clients know of the offer.                                           *)

\* A message that says x is on offer, and one that says it is not.
Says(m, x) == m.t \in {"ls", "new"} /\ x \in m.names
Unsays(m, x) == (m.t = "ls" /\ x \notin m.names) \/ (m.t = "del" /\ x \in m.names)
Noted(m) == m.t \in {"ls", "new", "del"}

\* Whether a client that knows v is going to know x once it has read the queue q: the
\* last word on x counts.
Learns(v, q, x) ==
    \/ x \in v /\ \A j \in 1 .. Len(q) : ~Unsays(q[j], x)
    \/ \E i \in 1 .. Len(q) : Says(q[i], x) /\ \A j \in i + 1 .. Len(q) : ~Unsays(q[j], x)

\* The offer as the client is going to know it.
View(c) == {x \in Caps : Learns(got[c].view, out[c], x)}

\* Nobody has told the client of the offer, or is about to.
Untold(c) == got[c].view = {} /\ \A i \in 1 .. Len(out[c]) : ~Noted(out[c][i])

\* What the demux has still to tell the clients of session s.
Coming(s) == IF dm.to = "new" /\ s = cur THEN dm.names ELSE {}
Going(s) == IF dm.to = "del" /\ s = cur THEN dm.names ELSE {}

Registrations ==
    [pass : {"none", "good", "bad", "unknown"}, names : BOOLEAN, cap : {"no", "open", "ended"},
     pend : BOOLEAN, n : Nat]

CapsType ==
    /\ reg \in [Clients -> Registrations]
    /\ seen \in [Clients -> SUBSET Caps] /\ on \in [Clients -> SUBSET Caps]
    /\ registered \in [Sessions -> BOOLEAN]

\* The demux tells a registered session's clients of the offer as it is.
WorkSound ==
    /\ dm.to = "new" => registered[cur] /\ dm.names \subseteq offer[cur]
    /\ dm.to = "del" => registered[cur] /\ dm.names \cap offer[cur] = {}

\* A client is told only of what capsSeen notes, and without cap-notify of nothing.
Remembered(c) ==
    /\ View(c) \subseteq seen[c]
    /\ c \notin notify => seen[c] = {} /\ on[c] = {} /\ Untold(c)

\* Before it is attached a client goes by the offer of the network it has named, if
\* any, which is the current one and does not shrink under it.
BeforeAttach(c) ==
    /\ pc[c] \in {"off", "shake"} => prov[c] = NONE
    /\ pc[c] \in {"off", "shake", "auth"} => at[c] = NONE
    /\ pc[c] \in Early /\ prov[c] # NONE => reg[c].pass # "none"
    /\ pc[c] \in Early /\ prov[c] = NONE => seen[c] = {} /\ on[c] = {}
    /\ pc[c] \in Early /\ prov[c] # NONE => /\ prov[c] = cur /\ at[c] \in {NONE, cur}
                                            /\ View(c) = seen[c] /\ View(c) \cup on[c] \subseteq offer[cur]

\* The offer has not changed since a handler looked at it.
LookHolds(c) ==
    /\ job[c].to = "ls" => job[c].names = offeredCaps(c)
    /\ job[c].to = "req" => job[c].names \subseteq offeredCaps(c) /\ (c \in notify \/ job[c].names = {})
    /\ job[c].to = "sync" => pc[c] = "run" /\ job[c].names = offer[at[c]]

\* An attached client is going to know the offer, but for what the demux has still to
\* tell it; while the session is not registered it may know less.
KnowsOffer(c, s) ==
    /\ registered[s] =>
         /\ (View(c) \cup on[c]) \ Going(s) \subseteq offer[s]
         /\ (offer[s] \cap seen[c]) \ Coming(s) \subseteq View(c)
         /\ pc[c] = "run" /\ c \in notify /\ job[c].to # "sync" => offer[s] \ Coming(s) \subseteq View(c)
    /\ ~registered[s] => pc[c] = "run" /\ View(c) \cup on[c] \subseteq offer[s]

InSession(c) == \A s \in Sessions : c \in downs[s] /\ pc[c] \in {"burst", "run"} => KnowsOffer(c, s)

Aware(c) == closed[c] = "no" => Remembered(c) /\ BeforeAttach(c) /\ LookHolds(c) /\ InSession(c)

OfferInv == CapsType /\ WorkSound /\ \A c \in Clients \ misled : Aware(c)

\* The last word on x after one more message.
LEMMA LearnsAppend ==
  ASSUME NEW q \in Seq(Message), NEW m \in Message, NEW v, NEW x
  PROVE  Learns(v, Append(q, m), x) <=> Says(m, x) \/ (Learns(v, q, x) /\ ~Unsays(m, x))
<1> DEFINE r == Append(q, m)
<1>1. /\ Len(r) = Len(q) + 1 /\ Len(q) \in Nat /\ r[Len(q) + 1] = m
      /\ \A i \in 1 .. Len(q) : r[i] = q[i]
  OBVIOUS
<1> HIDE DEF r
<1>2. ASSUME Says(m, x)  PROVE Learns(v, r, x)
  <2>1. Len(r) \in 1 .. Len(r) /\ Says(r[Len(r)], x) /\ (Len(r) + 1 .. Len(r)) = {}
    BY <1>1, <1>2
  <2> QED
    BY <2>1 DEF Learns
<1>3. ASSUME Learns(v, q, x), ~Unsays(m, x)  PROVE Learns(v, r, x)
  <2>1. \A k \in Nat : (\A j \in k + 1 .. Len(q) : ~Unsays(q[j], x))
                          => \A j \in k + 1 .. Len(r) : ~Unsays(r[j], x)
    <3> SUFFICES ASSUME NEW k \in Nat, \A j \in k + 1 .. Len(q) : ~Unsays(q[j], x), NEW j \in k + 1 .. Len(r)
                 PROVE  ~Unsays(r[j], x)
      OBVIOUS
    <3>1. CASE j = Len(q) + 1
      BY <1>1, <1>3, <3>1
    <3>2. CASE j # Len(q) + 1
      <4>1. j \in k + 1 .. Len(q) /\ j \in 1 .. Len(q)
        BY <1>1, <3>2
      <4> QED
        BY <1>1, <4>1
    <3> QED
      BY <3>1, <3>2
  <2>2. CASE x \in v /\ \A j \in 1 .. Len(q) : ~Unsays(q[j], x)
    <3>1. \A j \in 1 .. Len(r) : ~Unsays(r[j], x)
      <4>1. 0 \in Nat /\ 0 + 1 = 1
        OBVIOUS
      <4> QED
        BY <2>1, <2>2, <4>1
    <3> QED
      BY <2>2, <3>1 DEF Learns
  <2>3. CASE \E i \in 1 .. Len(q) : Says(q[i], x) /\ \A j \in i + 1 .. Len(q) : ~Unsays(q[j], x)
    <3>1. PICK i \in 1 .. Len(q) : Says(q[i], x) /\ \A j \in i + 1 .. Len(q) : ~Unsays(q[j], x)
      BY <2>3
    <3>2. i \in Nat /\ i \in 1 .. Len(r) /\ r[i] = q[i]
      BY <1>1
    <3>3. \A j \in i + 1 .. Len(r) : ~Unsays(r[j], x)
      BY <2>1, <3>1, <3>2
    <3> QED
      BY <3>1, <3>2, <3>3 DEF Learns
  <2> QED
    BY <1>3, <2>2, <2>3 DEF Learns
<1>4. ASSUME Learns(v, r, x), ~Says(m, x)  PROVE Learns(v, q, x) /\ ~Unsays(m, x)
  <2>1. CASE x \in v /\ \A j \in 1 .. Len(r) : ~Unsays(r[j], x)
    <3>1. Len(q) + 1 \in 1 .. Len(r) /\ \A j \in 1 .. Len(q) : j \in 1 .. Len(r)
      BY <1>1
    <3> QED
      BY <1>1, <2>1, <3>1 DEF Learns
  <2>2. CASE \E i \in 1 .. Len(r) : Says(r[i], x) /\ \A j \in i + 1 .. Len(r) : ~Unsays(r[j], x)
    <3>1. PICK i \in 1 .. Len(r) : Says(r[i], x) /\ \A j \in i + 1 .. Len(r) : ~Unsays(r[j], x)
      BY <2>2
    <3>2. i \in 1 .. Len(q)
      BY <1>1, <1>4, <3>1
    <3>3. Len(q) + 1 \in i + 1 .. Len(r) /\ \A j \in i + 1 .. Len(q) : j \in i + 1 .. Len(r) /\ j \in 1 .. Len(q)
      BY <1>1, <3>2
    <3>4. ~Unsays(m, x) /\ Says(q[i], x) /\ \A j \in i + 1 .. Len(q) : ~Unsays(q[j], x)
      BY <1>1, <3>1, <3>2, <3>3
    <3> QED
      BY <3>2, <3>4 DEF Learns
  <2> QED
    BY <1>4, <2>1, <2>2 DEF Learns
<1>5. Says(m, x) => ~Unsays(m, x)
  BY DEF Says, Unsays
<1> QED
  BY <1>2, <1>3, <1>4, <1>5 DEF r

\* The client that reads a message learns the same.
LEMMA LearnsTail ==
  ASSUME NEW q \in Seq(Message), q # <<>>, NEW v, NEW w, NEW x,
         x \in w <=> Says(Head(q), x) \/ (x \in v /\ ~Unsays(Head(q), x))
  PROVE  Learns(w, Tail(q), x) <=> Learns(v, q, x)
<1> DEFINE r == Tail(q)
<1>1. /\ Len(q) = Len(r) + 1 /\ Len(r) \in Nat /\ Head(q) = q[1]
      /\ \A i \in 1 .. Len(r) : r[i] = q[i + 1]
  OBVIOUS
<1> HIDE DEF r
<1>2. ASSUME NEW k \in Nat
      PROVE  (\A j \in k + 1 .. Len(r) : ~Unsays(r[j], x)) <=> (\A j \in k + 2 .. Len(q) : ~Unsays(q[j], x))
  <2>1. ASSUME \A j \in k + 1 .. Len(r) : ~Unsays(r[j], x), NEW j \in k + 2 .. Len(q)
        PROVE  ~Unsays(q[j], x)
    <3>1. j - 1 \in k + 1 .. Len(r) /\ j - 1 \in 1 .. Len(r) /\ (j - 1) + 1 = j
      BY <1>1
    <3>2. r[j - 1] = q[j]
      BY <1>1, <3>1
    <3> QED
      BY <2>1, <3>1, <3>2
  <2>2. ASSUME \A j \in k + 2 .. Len(q) : ~Unsays(q[j], x), NEW j \in k + 1 .. Len(r)
        PROVE  ~Unsays(r[j], x)
    <3>1. j + 1 \in k + 2 .. Len(q) /\ j \in 1 .. Len(r)
      BY <1>1
    <3> QED
      BY <1>1, <2>2, <3>1
  <2> QED
    BY <2>1, <2>2
<1>3. (\A j \in 1 .. Len(r) : ~Unsays(r[j], x)) <=> (\A j \in 2 .. Len(q) : ~Unsays(q[j], x))
  <2>1. 0 \in Nat /\ 0 + 1 = 1 /\ 0 + 2 = 2
    OBVIOUS
  <2> QED
    BY <1>2, <2>1
<1>4. ASSUME Learns(w, r, x)  PROVE Learns(v, q, x)
  <2>1. CASE x \in w /\ \A j \in 1 .. Len(r) : ~Unsays(r[j], x)
    <3>1. CASE Says(Head(q), x)
      <4>1. 1 \in 1 .. Len(q) /\ 1 + 1 = 2
        BY <1>1
      <4>2. Says(q[1], x) /\ \A j \in 1 + 1 .. Len(q) : ~Unsays(q[j], x)
        BY <1>1, <1>3, <2>1, <3>1, <4>1
      <4> QED
        BY <4>1, <4>2 DEF Learns
    <3>2. CASE x \in v /\ ~Unsays(Head(q), x)
      <4>1. \A j \in 1 .. Len(q) : j = 1 \/ j \in 2 .. Len(q)
        BY <1>1
      <4> QED
        BY <1>1, <1>3, <2>1, <3>2, <4>1 DEF Learns
    <3> QED
      BY <2>1, <3>1, <3>2
  <2>2. CASE \E i \in 1 .. Len(r) : Says(r[i], x) /\ \A j \in i + 1 .. Len(r) : ~Unsays(r[j], x)
    <3>1. PICK i \in 1 .. Len(r) : Says(r[i], x) /\ \A j \in i + 1 .. Len(r) : ~Unsays(r[j], x)
      BY <2>2
    <3>2. i \in Nat /\ i + 1 \in 1 .. Len(q) /\ (i + 1) + 1 = i + 2 /\ r[i] = q[i + 1]
      BY <1>1
    <3>3. \A j \in (i + 1) + 1 .. Len(q) : ~Unsays(q[j], x)
      BY <1>2, <3>1, <3>2
    <3> QED
      BY <3>1, <3>2, <3>3 DEF Learns
  <2> QED
    BY <1>4, <2>1, <2>2 DEF Learns
<1>5. ASSUME Learns(v, q, x)  PROVE Learns(w, r, x)
  <2>1. CASE x \in v /\ \A j \in 1 .. Len(q) : ~Unsays(q[j], x)
    <3>1. 1 \in 1 .. Len(q) /\ \A j \in 2 .. Len(q) : j \in 1 .. Len(q)
      BY <1>1
    <3> QED
      BY <1>1, <1>3, <2>1, <3>1 DEF Learns
  <2>2. CASE \E i \in 1 .. Len(q) : Says(q[i], x) /\ \A j \in i + 1 .. Len(q) : ~Unsays(q[j], x)
    <3>1. PICK i \in 1 .. Len(q) : Says(q[i], x) /\ \A j \in i + 1 .. Len(q) : ~Unsays(q[j], x)
      BY <2>2
    <3>2. CASE i = 1
      <4>1. x \in w /\ 1 + 1 = 2
        BY <1>1, <3>1, <3>2
      <4> QED
        BY <1>3, <3>1, <3>2, <4>1 DEF Learns
    <3>3. CASE i # 1
      <4>1. i - 1 \in Nat /\ i - 1 \in 1 .. Len(r) /\ (i - 1) + 1 = i /\ (i - 1) + 2 = i + 1
        BY <1>1, <3>3
      <4>2. r[i - 1] = q[i]
        BY <1>1, <4>1
      <4>3. \A j \in (i - 1) + 1 .. Len(r) : ~Unsays(r[j], x)
        BY <1>2, <3>1, <4>1
      <4> QED
        BY <3>1, <4>1, <4>2, <4>3 DEF Learns
    <3> QED
      BY <3>2, <3>3
  <2> QED
    BY <1>5, <2>1, <2>2 DEF Learns
<1> QED
  BY <1>4, <1>5 DEF r

LEMMA LearnsNone == \A v, x : Learns(v, <<>>, x) <=> x \in v
<1>1. 1 .. Len(<<>>) = {}
  OBVIOUS
<1> QED
  BY <1>1 DEF Learns

\* What a step does to a client's view, by what it does to its queue.
LEMMA ViewKept ==
  ASSUME NEW d \in Clients, out'[d] = out[d], got'[d].view = got[d].view
  PROVE  View(d)' = View(d) /\ (Untold(d) => Untold(d)')
  BY DEF View, Untold

LEMMA ViewSent ==
  ASSUME TypeOK, NEW d \in Clients, NEW m \in Message, out'[d] = Append(out[d], m), got'[d].view = got[d].view
  PROVE  /\ \A x \in Caps : x \in View(d)' <=> Says(m, x) \/ (x \in View(d) /\ ~Unsays(m, x))
         /\ ~Noted(m) => View(d)' = View(d) /\ (Untold(d) => Untold(d)')
<1>1. out[d] \in Seq(Message)
  BY DEF TypeOK
<1>2. \A x \in Caps : x \in View(d)' <=> Says(m, x) \/ (x \in View(d) /\ ~Unsays(m, x))
  BY <1>1, LearnsAppend DEF View
<1>3. ASSUME ~Noted(m)  PROVE View(d)' = View(d)
  <2>1. \A x \in Caps : x \in View(d)' <=> x \in View(d)
    BY <1>2, <1>3 DEF Noted, Says, Unsays
  <2> QED
    BY <2>1 DEF View
<1>4. ASSUME ~Noted(m), Untold(d)  PROVE Untold(d)'
  <2>1. /\ Len(out'[d]) = Len(out[d]) + 1 /\ Len(out[d]) \in Nat /\ out'[d][Len(out[d]) + 1] = m
        /\ \A i \in 1 .. Len(out[d]) : out'[d][i] = out[d][i]
    BY <1>1
  <2> SUFFICES ASSUME NEW i \in 1 .. Len(out'[d])  PROVE ~Noted(out'[d][i])
    BY <1>4 DEF Untold
  <2>2. i = Len(out[d]) + 1 \/ i \in 1 .. Len(out[d])
    BY <2>1
  <2> QED
    BY <1>4, <2>1, <2>2 DEF Untold
<1> QED
  BY <1>2, <1>3, <1>4

LEMMA ViewRead ==
  ASSUME TypeOK, NEW d \in Clients, out[d] # <<>>, out'[d] = Tail(out[d]), got'[d] = Told(got[d], Head(out[d]))
  PROVE  View(d)' = View(d) /\ (Untold(d) => Untold(d)')
<1>1. out[d] \in Seq(Message) /\ Head(out[d]) \in Message /\ got[d] \in Knowledge
  BY DEF TypeOK
<1>2. ASSUME NEW x \in Caps
      PROVE  x \in got'[d].view <=> Says(Head(out[d]), x) \/ (x \in got[d].view /\ ~Unsays(Head(out[d]), x))
  BY <1>1, <1>2 DEF Told, Knowledge, Message, Says, Unsays
<1>3. View(d)' = View(d)
  <2>1. \A x \in Caps : Learns(got'[d].view, Tail(out[d]), x) <=> Learns(got[d].view, out[d], x)
    BY <1>1, <1>2, LearnsTail
  <2> QED
    BY <2>1 DEF View
<1>4. ASSUME Untold(d)  PROVE Untold(d)'
  <2>1. /\ Len(out[d]) = Len(Tail(out[d])) + 1 /\ Len(Tail(out[d])) \in Nat /\ Head(out[d]) = out[d][1]
        /\ \A i \in 1 .. Len(Tail(out[d])) : Tail(out[d])[i] = out[d][i + 1]
    BY <1>1
  <2>2. 1 \in 1 .. Len(out[d]) /\ \A i \in 1 .. Len(Tail(out[d])) : i + 1 \in 1 .. Len(out[d])
    BY <2>1
  <2>3. ~Noted(Head(out[d])) /\ \A i \in 1 .. Len(Tail(out[d])) : ~Noted(Tail(out[d])[i])
    BY <1>4, <2>1, <2>2 DEF Untold
  <2>4. got'[d].view = got[d].view
    BY <1>1, <2>3 DEF Told, Noted, Knowledge
  <2> QED
    BY <1>4, <2>3, <2>4 DEF Untold
<1> QED
  BY <1>3, <1>4

\* A client that is sent something other than of the offer, or let go.
LEMMA ViewPlain ==
  ASSUME TypeOK, NEW d \in Clients, NEW S, NEW m \in Message, ~Noted(m), SendTo(S, m) \/ SendLast(S, m),
         got'[d].view = got[d].view
  PROVE  View(d)' = View(d) /\ (Untold(d) => Untold(d)') /\ (closed'[d] = "no" => closed[d] = "no")
<1>1. /\ out'[d] = out[d] \/ out'[d] = Append(out[d], m)
      /\ closed'[d] = "no" => closed[d] = "no"
  BY SentOne
<1> QED
  BY <1>1, ViewKept, ViewSent

\* A client of which a step changes nothing that matters to the offer.
Same(d) ==
    /\ pc'[d] = pc[d] /\ prov'[d] = prov[d] /\ at'[d] = at[d] /\ job'[d] = job[d]
    /\ reg'[d].pass = reg[d].pass
    /\ seen'[d] = seen[d] /\ on'[d] = on[d] /\ (d \in notify' <=> d \in notify)

Carried(d) == View(d)' = View(d) /\ (Untold(d) => Untold(d)')

LEMMA AwareMoved ==
  ASSUME NEW d \in Clients, Aware(d), Same(d), Carried(d), closed'[d] = "no" => closed[d] = "no",
         UNCHANGED <<offer, registered>>,
         \A s \in Sessions : Coming(s)' = Coming(s) /\ Going(s)' = Going(s),
         closed[d] = "no" /\ pc[d] \in Early /\ prov[d] # NONE => cur' = cur,
         \A s \in Sessions : d \in downs'[s] => d \in downs[s]
  PROVE  Aware(d)'
<1> SUFFICES ASSUME closed'[d] = "no"
             PROVE  Remembered(d)' /\ BeforeAttach(d)' /\ LookHolds(d)' /\ InSession(d)'
  BY DEF Aware
<1>1. closed[d] = "no" /\ Remembered(d) /\ BeforeAttach(d) /\ LookHolds(d) /\ InSession(d)
  BY DEF Aware
<1>2. Remembered(d)'
  BY <1>1 DEF Remembered, Same, Carried
<1>3. BeforeAttach(d)'
  BY <1>1 DEF BeforeAttach, Same, Carried
<1>4. LookHolds(d)'
  BY <1>1 DEF LookHolds, Same, offeredCaps, Knows
<1>5. InSession(d)'
  BY <1>1 DEF InSession, KnowsOffer, Same, Carried
<1> QED
  BY <1>2, <1>3, <1>4, <1>5

LEMMA AwareKept ==
  ASSUME NEW d \in Clients, Aware(d), Same(d), Carried(d), closed'[d] = "no" => closed[d] = "no",
         UNCHANGED <<offer, registered, cur, dm>>,
         \A s \in Sessions : d \in downs'[s] => d \in downs[s]
  PROVE  Aware(d)'
<1>1. \A s \in Sessions : Coming(s)' = Coming(s) /\ Going(s)' = Going(s)
  BY DEF Coming, Going
<1> QED
  BY <1>1, AwareMoved

\* The steps of a client's handler and of its peer leave other clients, and the offer, alone.
LEMMA OtherClient ==
  ASSUME TypeOK, AtKnown, CapsType, NEW c \in Clients, NEW d \in Clients, d # c,
         Accept(c) \/ Commands(c) \/ Handle(c) \/ writeLoop(c) \/ keepaliveLoop(c) \/ Leave(c) \/ Hang(c)
  PROVE  /\ Same(d) /\ out'[d] = out[d] /\ got'[d].view = got[d].view /\ closed'[d] = closed[d]
         /\ \A s \in Sessions : d \in downs'[s] => d \in downs[s]
         /\ UNCHANGED <<offer, registered, cur, dm>>
<1> USE DEF listener, handler, capable, wire, world, session, Set, TypeOK, CapsType, Same
<1>1. CASE Accept(c) \/ Handshake(c) \/ Leave(c) \/ Hang(c) \/ ReadFails(c)
  <2>1. /\ UNCHANGED <<prov, at, job, reg, seen, on, notify, out, got, closed, downs, offer, registered, cur, dm>>
        /\ pc' = pc \/ \E p : pc' = Set(pc, c, p)
    BY <1>1 DEF Accept, Handshake, Leave, Hang, ReadFails
  <2> QED
    BY <2>1
<1>2. CASE Commands(c)
  <2>1. /\ UNCHANGED <<pc, at, seen, on, notify, out, got, closed, downs, offer, registered, cur, dm>>
        /\ \E r : reg' = Set(reg, c, r)
        /\ prov' = prov \/ \E p : prov' = Set(prov, c, p)
        /\ job' = job \/ \E j : job' = Set(job, c, j)
    BY <1>2 DEF Commands, CapLS, CapREQ, CapEND, NickUser, Pass, Registering, Look
  <2> QED
    BY <2>1
<1>3. CASE Reply(c)
  <2>1. /\ UNCHANGED <<pc, at, prov, reg, got, downs, offer, registered, cur, dm>>
        /\ job' = Set(job, c, Idle)
        /\ seen' = seen \/ \E v : seen' = Set(seen, c, v)
        /\ on' = on \/ \E v : on' = Set(on, c, v)
        /\ notify' \in {notify, notify \cup {c}}
        /\ UNCHANGED <<out, closed>> \/ \E m : SendTo({c}, m)
    BY <1>3 DEF Reply
  <2>2. out'[d] = out[d] /\ closed'[d] = closed[d]
    BY <2>1 DEF SendTo
  <2> QED
    BY <2>1, <2>2
<1>4. CASE authenticate(c)
  <2>1. /\ UNCHANGED <<prov, job, reg, seen, on, notify, got, downs, offer, registered, cur, dm>>
        /\ \E p : pc' = Set(pc, c, p)
        /\ at' = at \/ \E s : at' = Set(at, c, s)
        /\ UNCHANGED <<out, closed>> \/ \E m : SendTo({c}, m)
    BY <1>4 DEF authenticate, Refused
  <2>2. out'[d] = out[d] /\ closed'[d] = closed[d]
    BY <2>1 DEF SendTo
  <2> QED
    BY <2>1, <2>2
<1>5. CASE Attach(c)
  <2>1. at[c] \in Sessions
    BY <1>5 DEF Attach, AtKnown
  <2>2. /\ UNCHANGED <<at, prov, job, reg, seen, on, notify, out, closed, offer, registered, cur, dm>>
        /\ pc' = Set(pc, c, "burst") \/ pc' = Set(pc, c, "run")
        /\ downs' = Set(downs, at[c], downs[at[c]] \cup {c})
        /\ got' = [got EXCEPT ![c].last = lines[at[c]]]
    BY <1>5 DEF Attach
  <2> QED
    BY <2>1, <2>2
<1>6. CASE AttachSync(c)
  <2>1. /\ UNCHANGED <<at, prov, reg, seen, on, notify, out, got, closed, downs, offer, registered, cur, dm>>
        /\ pc' = Set(pc, c, "run") /\ \E j : job' = Set(job, c, j)
    BY <1>6 DEF AttachSync, Look
  <2> QED
    BY <2>1
<1>7. CASE Detach(c)
  <2>1. at[c] \in Sessions
    BY <1>7 DEF Detach, AtKnown
  <2>2. /\ UNCHANGED <<at, prov, job, reg, seen, on, notify, out, got, offer, registered, cur, dm>>
        /\ pc' = Set(pc, c, "refused") /\ closed' = Set(closed, c, Closed(c))
        /\ downs' = Set(downs, at[c], downs[at[c]] \ {c})
    BY <1>7 DEF Detach
  <2> QED
    BY <2>1, <2>2
<1>8. CASE Release(c)
  <2>1. /\ UNCHANGED <<at, job, out, got, downs, offer, registered, cur, dm>>
        /\ pc' = Set(pc, c, "gone") /\ closed' = Set(closed, c, Closed(c))
        /\ reg' = Set(reg, c, Unregistered) /\ prov' = Set(prov, c, NONE)
        /\ seen' = Set(seen, c, {}) /\ on' = Set(on, c, {}) /\ notify' = notify \ {c}
    BY <1>8 DEF Release
  <2> QED
    BY <2>1
<1>9. CASE writeLoop(c)
  <2>1. /\ UNCHANGED <<pc, at, prov, job, reg, seen, on, notify, closed, downs, offer, registered, cur, dm>>
        /\ UNCHANGED <<out, got>> \/ \E q, g : out' = Set(out, c, q) /\ got' = Set(got, c, g)
    BY <1>9 DEF writeLoop
  <2> QED
    BY <2>1
<1>10. CASE keepaliveLoop(c)
  <2>1. /\ UNCHANGED <<pc, at, prov, job, reg, seen, on, notify, got, downs, offer, registered, cur, dm>>
        /\ SendTo({c}, Msg("ping", {})) \/ (out' = out /\ closed' = Set(closed, c, "closed"))
    BY <1>10 DEF keepaliveLoop
  <2>2. out'[d] = out[d] /\ closed'[d] = closed[d]
    BY <2>1 DEF SendTo
  <2> QED
    BY <2>1, <2>2
<1> QED
  BY <1>1, <1>2, <1>3, <1>4, <1>5, <1>6, <1>7, <1>8, <1>9, <1>10 DEF Handle

LEMMA AwareOther ==
  ASSUME TypeOK, AtKnown, CapsType, NEW c \in Clients, NEW d \in Clients, d # c, Aware(d),
         Accept(c) \/ Commands(c) \/ Handle(c) \/ writeLoop(c) \/ keepaliveLoop(c) \/ Leave(c) \/ Hang(c)
  PROVE  Aware(d)'
<1>1. /\ Same(d) /\ out'[d] = out[d] /\ got'[d].view = got[d].view /\ closed'[d] = closed[d]
      /\ \A s \in Sessions : d \in downs'[s] => d \in downs[s]
      /\ UNCHANGED <<offer, registered, cur, dm>>
  BY OtherClient
<1>2. Carried(d)
  BY <1>1, ViewKept DEF Carried
<1> QED
  BY <1>1, <1>2, AwareKept

LEMMA RegKeeps ==
  ASSUME NEW r \in Registrations
  PROVE  /\ [r EXCEPT !.cap = IF @ = "no" THEN "open" ELSE @, !.pend = TRUE, !.n = @ + 1] \in Registrations
         /\ [r EXCEPT !.cap = IF @ = "no" THEN "open" ELSE @, !.n = @ + 1] \in Registrations
         /\ [r EXCEPT !.cap = "ended"] \in Registrations
         /\ [r EXCEPT !.names = TRUE] \in Registrations
         /\ \A p \in {"good", "bad", "unknown"} : [r EXCEPT !.pass = p, !.pend = FALSE] \in Registrations
<1> DEFINE cap == IF r.cap = "no" THEN "open" ELSE r.cap
<1>0. cap \in {"no", "open", "ended"} /\ r.n + 1 \in Nat
  BY DEF Registrations
<1> HIDE DEF cap
<1>1. [r EXCEPT !.cap = cap, !.pend = TRUE, !.n = r.n + 1] \in Registrations
  BY <1>0 DEF Registrations
<1>2. [r EXCEPT !.cap = cap, !.n = r.n + 1] \in Registrations
  BY <1>0 DEF Registrations
<1>3. [r EXCEPT !.cap = "ended"] \in Registrations /\ [r EXCEPT !.names = TRUE] \in Registrations
  BY DEF Registrations
<1>4. ASSUME NEW p \in {"good", "bad", "unknown"}  PROVE [r EXCEPT !.pass = p, !.pend = FALSE] \in Registrations
  BY DEF Registrations
<1> QED
  BY <1>1, <1>2, <1>3, <1>4 DEF cap

LEMMA CapsTypeStep ==
  ASSUME TypeOK, AtKnown, CapsType, [Next]_vars
  PROVE  CapsType'
<1> USE DEF listener, handler, capable, wire, world, session, Set, CapsType
<1>1. ASSUME UNCHANGED <<reg, seen, on, registered>>  PROVE CapsType'
  BY <1>1
<1>2. ASSUME NEW c \in Clients, Commands(c)  PROVE CapsType'
  <2>1. UNCHANGED <<seen, on, registered>>
    BY <1>2 DEF Commands, CapLS, CapREQ, CapEND, NickUser, Pass
  <2>2. PICK r : reg' = Set(reg, c, r) /\ r \in Registrations
    <3>1. reg[c] \in Registrations
      OBVIOUS
    <3>2. CASE CapLS(c) \/ CapREQ(c)
      <4>1. \/ Registering(c, [reg[c] EXCEPT !.cap = IF @ = "no" THEN "open" ELSE @, !.pend = TRUE, !.n = @ + 1])
            \/ Registering(c, [reg[c] EXCEPT !.cap = IF @ = "no" THEN "open" ELSE @, !.n = @ + 1])
        BY <3>2, Zenon DEF CapLS, CapREQ
      <4> QED
        BY <3>1, RegKeeps, <4>1 DEF Registering
    <3>3. CASE CapEND(c) \/ NickUser(c)
      <4>1. Registering(c, [reg[c] EXCEPT !.cap = "ended"]) \/ Registering(c, [reg[c] EXCEPT !.names = TRUE])
        BY <3>3 DEF CapEND, NickUser
      <4> QED
        BY <3>1, RegKeeps, <4>1 DEF Registering
    <3>4. CASE Pass(c)
      <4>1. PICK p \in {"good", "bad", "unknown"} : Registering(c, [reg[c] EXCEPT !.pass = p, !.pend = FALSE])
        BY <3>4 DEF Pass
      <4> QED
        BY <3>1, RegKeeps, <4>1 DEF Registering
    <3> QED
      BY <1>2, <3>2, <3>3, <3>4 DEF Commands
  <2> QED
    BY <2>1, <2>2
<1>3. ASSUME NEW c \in Clients, Reply(c)  PROVE CapsType'
  <2>1. job[c].names \in SUBSET Caps /\ seen[c] \in SUBSET Caps /\ on[c] \in SUBSET Caps
    BY DEF TypeOK, Job
  <2>2. /\ UNCHANGED <<reg, registered>>
        /\ seen' = seen \/ \E v \in SUBSET Caps : seen' = Set(seen, c, v)
        /\ on' = on \/ \E v \in SUBSET Caps : on' = Set(on, c, v)
    BY <1>3, <2>1 DEF Reply
  <2> QED
    BY <2>2
<1>4. ASSUME NEW c \in Clients, Release(c)  PROVE CapsType'
  <2>1. Unregistered \in Registrations
    BY DEF Unregistered, Registrations
  <2> QED
    BY <1>4, <2>1 DEF Release
<1>5. ASSUME NEW c \in Clients,
             \/ Accept(c) \/ Handshake(c) \/ authenticate(c) \/ Attach(c) \/ AttachSync(c) \/ ReadFails(c)
             \/ Detach(c) \/ writeLoop(c) \/ keepaliveLoop(c) \/ Leave(c) \/ Hang(c)
      PROVE  CapsType'
  BY <1>5 DEF Accept, Handshake, authenticate, Attach, AttachSync, ReadFails, Detach, writeLoop, keepaliveLoop,
              Leave, Hang
<1>6. ASSUME Serve \/ ReplaceListener \/ CloseClients \/ OnCapACK \/ OnCapDEL \/ Relay \/ StopNetwork
             \/ \E s \in Sessions : StartNetwork(s)
      PROVE  CapsType'
  BY <1>6 DEF Serve, AcceptFails, CloseOld, ReplaceListener, CloseClients, OnCapACK, OnCapDEL, Relay, StopNetwork,
              StartNetwork
<1>7. ASSUME completeRegistration \/ HandleDisconnect  PROVE CapsType'
  <2>1. UNCHANGED <<reg, seen, on>> /\ \E b \in BOOLEAN : registered' = Set(registered, cur, b)
    BY <1>7 DEF completeRegistration, HandleDisconnect
  <2> QED
    BY <2>1
<1>8. CASE broadcastCapNotify
  <2>1. dm.names \in SUBSET Caps
    BY <1>8 DEF broadcastCapNotify, TypeOK, Work
  <2>2. UNCHANGED <<reg, registered>>
    BY <1>8 DEF broadcastCapNotify
  <2>3. seen' \in [Clients -> SUBSET Caps] /\ on' \in [Clients -> SUBSET Caps]
    BY <1>8, <2>1 DEF broadcastCapNotify
  <2> QED
    BY <2>2, <2>3
<1>9. UNCHANGED vars => UNCHANGED <<reg, seen, on, registered>>
  BY DEF vars
<1> QED
  BY <1>1, <1>2, <1>3, <1>4, <1>5, <1>6, <1>7, <1>8, <1>9 DEF Next, Handle, Demux, Uplink

LEMMA WorkSoundStep ==
  ASSUME SessionInv, WorkSound, CapsType, [Next]_vars
  PROVE  WorkSound'
<1> USE DEF listener, handler, capable, wire, world, session, Set, WorkSound
<1>1. ASSUME UNCHANGED <<dm, cur, registered, offer>>  PROVE WorkSound'
  BY <1>1
<1>2. ASSUME NEW c \in Clients, Commands(c)  PROVE WorkSound'
  BY <1>2 DEF Commands, CapLS, CapREQ, CapEND, NickUser, Pass
<1>3. ASSUME NEW c \in Clients, Handle(c)  PROVE WorkSound'
  BY <1>3 DEF Handle, Handshake, Reply, authenticate, Attach, AttachSync, ReadFails, Detach, Release
<1>4. ASSUME NEW c \in Clients, Accept(c) \/ writeLoop(c) \/ keepaliveLoop(c) \/ Leave(c) \/ Hang(c)  PROVE WorkSound'
  BY <1>4 DEF Accept, writeLoop, keepaliveLoop, Leave, Hang
<1>5. ASSUME Serve \/ ReplaceListener \/ Relay  PROVE WorkSound'
  BY <1>5 DEF Serve, AcceptFails, CloseOld, ReplaceListener, Relay
<1>6. ASSUME Demux \/ StopNetwork \/ \E s \in Sessions : StartNetwork(s)  PROVE WorkSound'
  <2>1. dm' = Idle
    BY <1>6 DEF Demux, broadcastCapNotify, CloseClients, StopNetwork, StartNetwork, Quiet
  <2> QED
    BY <2>1 DEF Idle
<1>7. ASSUME OnCapACK \/ OnCapDEL \/ completeRegistration \/ HandleDisconnect  PROVE WorkSound'
  <2>1. cur \in Sessions /\ dm = Idle /\ cur' = cur /\ offer \in [Sessions -> SUBSET Caps]
        /\ registered \in [Sessions -> BOOLEAN]
    BY <1>7 DEF OnCapACK, OnCapDEL, completeRegistration, HandleDisconnect, Quiet, SessionInv, TypeOK, CapsType
  <2>2. CASE OnCapACK
    BY <2>1, <2>2 DEF OnCapACK, Idle
  <2>3. CASE OnCapDEL
    BY <2>1, <2>3 DEF OnCapDEL
  <2>4. CASE completeRegistration
    BY <2>1, <2>4 DEF completeRegistration
  <2>5. CASE HandleDisconnect
    BY <2>1, <2>5 DEF HandleDisconnect, Idle
  <2> QED
    BY <1>7, <2>2, <2>3, <2>4, <2>5
<1>8. UNCHANGED vars => UNCHANGED <<dm, cur, registered, offer>>
  BY DEF vars
<1> QED
  BY <1>1, <1>2, <1>3, <1>4, <1>5, <1>6, <1>7, <1>8 DEF Next, Uplink

\* The client's own steps, until it is attached.
LEMMA AwareCommands ==
  ASSUME SessionInv, OfferInv, NEW c \in Clients, c \notin misled, c \notin misled', Commands(c)
  PROVE  Aware(c)'
<1> USE DEF listener, handler, capable, wire, world, session, Set
<1>1. TypeOK /\ AtKnown /\ AttachedHere /\ JobsServed /\ CapsType /\ Aware(c)
  BY DEF SessionInv, OfferInv
<1>2. /\ UNCHANGED <<pc, at, seen, on, notify, out, got, closed, downs, offer, registered, cur, dm>>
      /\ job[c] = Idle /\ pc[c] \in {"auth", "run"}
  BY <1>1 DEF Commands, CapLS, CapREQ, CapEND, NickUser, Pass, Reads
<1> SUFFICES ASSUME closed[c] = "no"  PROVE Aware(c)'
  BY <1>2 DEF Aware
<1>3. Remembered(c) /\ BeforeAttach(c) /\ LookHolds(c) /\ InSession(c)
  BY <1>1 DEF Aware
<1>4. View(c)' = View(c) /\ (Untold(c) => Untold(c)')
  BY <1>2, ViewKept
<1>5. Remembered(c)'
  BY <1>2, <1>3, <1>4 DEF Remembered
<1>6. InSession(c)'
  <2>1. job[c].to # "sync"
    BY <1>2 DEF Idle
  <2> QED
    BY <1>2, <1>3, <1>4, <2>1 DEF InSession, KnowsOffer, Coming, Going
<1>7. CASE CapEND(c) \/ NickUser(c)
  <2>1. UNCHANGED <<prov, job>> /\ reg'[c].pass = reg[c].pass
    <3>1. reg[c] \in Registrations
      BY <1>1 DEF CapsType
    <3>2. UNCHANGED <<prov, job>>
      BY <1>7 DEF CapEND, NickUser
    <3>3. reg' = Set(reg, c, [reg[c] EXCEPT !.cap = "ended"]) \/ reg' = Set(reg, c, [reg[c] EXCEPT !.names = TRUE])
      BY <1>7 DEF CapEND, NickUser, Registering
    <3> QED
      BY <1>1, <3>1, <3>2, <3>3 DEF CapsType, Registrations
  <2>2. BeforeAttach(c)' /\ LookHolds(c)'
    BY <1>2, <1>3, <1>4, <2>1 DEF BeforeAttach, LookHolds, offeredCaps, Knows
  <2> QED
    BY <1>5, <1>6, <2>2 DEF Aware
<1>8. CASE CapLS(c) \/ CapREQ(c)
  <2>1. prov' = prov /\ reg'[c].pass = reg[c].pass
    <3>1. reg[c] \in Registrations
      BY <1>1 DEF CapsType
    <3>2. prov' = prov
      BY <1>8 DEF CapLS, CapREQ
    <3>3. \/ Registering(c, [reg[c] EXCEPT !.cap = IF @ = "no" THEN "open" ELSE @, !.pend = TRUE, !.n = @ + 1])
          \/ Registering(c, [reg[c] EXCEPT !.cap = IF @ = "no" THEN "open" ELSE @, !.n = @ + 1])
      BY <1>8, Zenon DEF CapLS, CapREQ
    <3> DEFINE cap == IF reg[c].cap = "no" THEN "open" ELSE reg[c].cap
               n == reg[c].n + 1
               r1 == [reg[c] EXCEPT !.cap = cap, !.pend = TRUE, !.n = n]
               r2 == [reg[c] EXCEPT !.cap = cap, !.n = n]
    <3>4. reg' = Set(reg, c, r1) \/ reg' = Set(reg, c, r2)
      BY <3>3 DEF Registering
    <3> HIDE DEF cap, n
    <3>5. r1.pass = reg[c].pass /\ r2.pass = reg[c].pass
      BY <3>1 DEF Registrations
    <3> HIDE DEF r1, r2
    <3> QED
      BY <1>1, <3>2, <3>4, <3>5 DEF CapsType
  <2>2. BeforeAttach(c)'
    BY <1>2, <1>3, <1>4, <2>1 DEF BeforeAttach
  <2>3. offeredCaps(c)' = offeredCaps(c)
    BY <1>2, <2>1 DEF offeredCaps, Knows
  <2>4. LookHolds(c)'
    <3>1. CASE job' = job
      BY <1>2, <1>3, <2>3, <3>1 DEF LookHolds
    <3>2. CASE Look(c, "ls", offeredCaps(c))
      <4>1. job'[c] = [to |-> "ls", names |-> offeredCaps(c)]
        BY <1>1, <3>2 DEF Look, TypeOK
      <4> QED
        BY <2>3, <4>1 DEF LookHolds
    <3>3. ASSUME CapREQ(c)  PROVE LookHolds(c)'
      <4>1. PICK x \in Caps :
              /\ Look(c, "req", {x} \cap offeredCaps(c))
              /\ misled' = IF x \in offeredCaps(c) /\ c \notin notify THEN misled \cup {c} ELSE misled
        BY <3>3 DEF CapREQ
      <4>2. c \in notify \/ {x} \cap offeredCaps(c) = {}
        BY <4>1
      <4>3. job'[c] = [to |-> "req", names |-> {x} \cap offeredCaps(c)]
        BY <1>1, <4>1 DEF Look, TypeOK
      <4> QED
        BY <1>2, <2>3, <4>2, <4>3 DEF LookHolds
    <3> QED
      BY <1>8, <3>1, <3>2, <3>3 DEF CapLS
  <2> QED
    BY <1>5, <1>6, <2>2, <2>4 DEF Aware
<1>9. CASE Pass(c)
  <2>1. pc[c] = "auth" /\ reg[c].pass = "none" /\ at[c] = NONE /\ pc[c] \in Early
    BY <1>3, <1>9 DEF Pass, BeforeAttach, Early
  <2>2. prov[c] = NONE /\ seen[c] = {} /\ on[c] = {} /\ View(c) = {}
    BY <1>3, <2>1 DEF BeforeAttach, Remembered
  <2>3. PICK p \in {"good", "bad", "unknown"}, net \in {NONE, cur} :
          /\ Registering(c, [reg[c] EXCEPT !.pass = p, !.pend = FALSE])
          /\ prov' = Set(prov, c, net)
          /\ \/ Look(c, "ls", IF net = NONE THEN {} ELSE offer[net])
             \/ UNCHANGED job
    BY <1>9 DEF Pass
  <2>4. reg'[c].pass # "none"
    <3>1. reg[c] \in Registrations
      BY <1>1 DEF CapsType
    <3>2. [reg[c] EXCEPT !.pass = p, !.pend = FALSE].pass = p
      BY <3>1 DEF Registrations
    <3> QED
      BY <1>1, <2>3, <3>2 DEF CapsType, Registering
  <2>5. prov'[c] = net
    BY <1>1, <2>3 DEF TypeOK
  <2>6. BeforeAttach(c)'
    BY <1>2, <1>4, <2>1, <2>2, <2>4, <2>5 DEF BeforeAttach
  <2>7. LookHolds(c)'
    <3>1. CASE UNCHANGED job
      BY <1>2, <3>1 DEF LookHolds, Idle
    <3>2. CASE Look(c, "ls", IF net = NONE THEN {} ELSE offer[net])
      <4>1. job'[c] = [to |-> "ls", names |-> IF net = NONE THEN {} ELSE offer[net]]
        BY <1>1, <3>2 DEF Look, TypeOK
      <4>2. offeredCaps(c)' = IF net = NONE THEN {} ELSE offer[net]
        BY <1>2, <2>1, <2>5 DEF offeredCaps, Knows
      <4> QED
        BY <4>1, <4>2 DEF LookHolds
    <3> QED
      BY <2>3, <3>1, <3>2
  <2> QED
    BY <1>5, <1>6, <2>6, <2>7 DEF Aware
<1> QED
  BY <1>7, <1>8, <1>9 DEF Commands

LEMMA AwareEnters ==
  ASSUME SessionInv, OfferInv, NEW c \in Clients, c \notin misled, Accept(c) \/ Handshake(c) \/ authenticate(c)
  PROVE  Aware(c)'
<1> USE DEF listener, handler, capable, wire, world, session, Set
<1>1. TypeOK /\ AtKnown /\ AttachedHere /\ JobsServed /\ CapsType /\ Aware(c)
  BY DEF SessionInv, OfferInv
<1>2. CASE Accept(c) \/ Handshake(c)
  <2>1. /\ UNCHANGED <<prov, at, reg, job, seen, on, notify, out, got, closed, downs, offer, registered, cur, dm>>
        /\ pc[c] \in {"off", "shake"} /\ pc'[c] \in {"shake", "auth", "gone"}
    BY <1>1, <1>2 DEF Accept, Handshake, TypeOK
  <2> SUFFICES ASSUME closed[c] = "no"  PROVE Aware(c)'
    BY <2>1 DEF Aware
  <2>2. Remembered(c) /\ BeforeAttach(c) /\ LookHolds(c)
    BY <1>1 DEF Aware
  <2>3. View(c)' = View(c) /\ (Untold(c) => Untold(c)')
    BY <2>1, ViewKept
  <2>4. BeforeAttach(c)'
    BY <2>1, <2>2 DEF BeforeAttach, Early
  <2>5. InSession(c)'
    BY <2>1 DEF InSession
  <2>6. LookHolds(c)'
    BY <2>1, <2>2 DEF LookHolds, offeredCaps, Knows
  <2>7. Remembered(c)'
    BY <2>1, <2>2, <2>3 DEF Remembered
  <2> QED
    BY <2>4, <2>5, <2>6, <2>7 DEF Aware
<1>3. CASE authenticate(c)
  <2>1. /\ UNCHANGED <<prov, reg, job, seen, on, notify, got, downs, offer, registered, cur, dm>>
        /\ pc[c] = "auth" /\ job[c] = Idle
    BY <1>3 DEF authenticate
  <2>2. CASE Refused(c) /\ UNCHANGED at
    <3>1. Msg("error", {}) \in Message /\ ~Noted(Msg("error", {}))
      BY MsgType DEF Msg, Noted
    <3>2. View(c)' = View(c) /\ (Untold(c) => Untold(c)') /\ (closed'[c] = "no" => closed[c] = "no")
      BY <1>1, <2>1, <2>2, <3>1, ViewPlain DEF Refused
    <3>3. pc'[c] = "refused"
      BY <1>1, <2>2 DEF Refused, TypeOK
    <3> SUFFICES ASSUME closed[c] = "no"  PROVE Aware(c)'
      BY <3>2 DEF Aware
    <3>4. Remembered(c)'
      BY <1>1, <2>1, <3>2 DEF Aware, Remembered
    <3>5. BeforeAttach(c)' /\ InSession(c)'
      BY <3>3 DEF BeforeAttach, InSession, Early
    <3>6. LookHolds(c)'
      BY <2>1 DEF LookHolds, Idle
    <3> QED
      BY <3>4, <3>5, <3>6 DEF Aware
  <2>3. CASE pc' = Set(pc, c, "attach") /\ at' = Set(at, c, cur) /\ UNCHANGED <<out, closed>>
    <3>1. pc'[c] = "attach" /\ at'[c] = cur
      BY <1>1, <2>3 DEF TypeOK
    <3> SUFFICES ASSUME closed[c] = "no"  PROVE Aware(c)'
      BY <2>3 DEF Aware
    <3>2. Remembered(c) /\ BeforeAttach(c)
      BY <1>1 DEF Aware
    <3>3. View(c)' = View(c) /\ (Untold(c) => Untold(c)')
      BY <2>1, <2>3, ViewKept
    <3>4. Remembered(c)'
      BY <2>1, <3>2, <3>3 DEF Remembered
    <3>5. BeforeAttach(c)' /\ InSession(c)'
      BY <2>1, <3>1, <3>2, <3>3 DEF BeforeAttach, InSession, Early
    <3>6. LookHolds(c)'
      BY <2>1 DEF LookHolds, Idle
    <3> QED
      BY <3>4, <3>5, <3>6 DEF Aware
  <2> QED
    BY <1>3, <2>2, <2>3 DEF authenticate
<1> QED
  BY <1>2, <1>3

LEMMA AwareAttaches ==
  ASSUME SessionInv, OfferInv, NEW c \in Clients, c \notin misled, Attach(c) \/ AttachSync(c)
  PROVE  Aware(c)'
<1> USE DEF listener, handler, capable, wire, world, session, Set
<1>1. TypeOK /\ AtKnown /\ AttachedHere /\ JobsServed /\ CapsType /\ Aware(c)
  BY DEF SessionInv, OfferInv
<1>2. /\ UNCHANGED <<prov, at, reg, seen, on, notify, out, closed, offer, registered, cur, dm>>
      /\ pc[c] \in {"attach", "burst"}
  BY DEF Attach, AttachSync
<1>3. at[c] \in Sessions /\ job[c] = Idle /\ pc[c] \in {"attach", "burst"}
  BY <1>1, <1>2 DEF AtKnown, TypeOK, JobsServed
<1> SUFFICES ASSUME closed[c] = "no"  PROVE Aware(c)'
  BY <1>2 DEF Aware
<1>4. Remembered(c) /\ BeforeAttach(c) /\ LookHolds(c) /\ InSession(c)
  BY <1>1 DEF Aware
<1>5. CASE Attach(c)
  <2>1. /\ job' = job /\ pc[c] = "attach"
        /\ downs' = Set(downs, at[c], downs[at[c]] \cup {c})
        /\ got' = [got EXCEPT ![c].last = lines[at[c]]]
        /\ pc'[c] = IF registered[at[c]] THEN "burst" ELSE "run"
    BY <1>1, <1>5 DEF Attach, TypeOK
  <2>2. got'[c].view = got[c].view
    BY <1>1, <2>1 DEF TypeOK, Knowledge
  <2>3. View(c)' = View(c) /\ (Untold(c) => Untold(c)')
    BY <1>2, <2>2, ViewKept
  <2>4. Remembered(c)'
    BY <1>2, <1>4, <2>3 DEF Remembered
  <2>5. BeforeAttach(c)' /\ LookHolds(c)'
    BY <1>3, <2>1 DEF BeforeAttach, LookHolds, Idle, Early
  <2>6. \A s \in Sessions : c \in downs'[s] => s = at[c]
    BY <1>1, <1>3, <2>1 DEF AttachedHere, TypeOK
  <2>7. KnowsOffer(c, at[c])'
    <3>1. pc[c] \in Early
      BY <2>1 DEF Early
    <3>2. View(c) = seen[c] /\ View(c) \cup on[c] \subseteq offer[at[c]]
      <4>1. CASE prov[c] = NONE
        BY <1>4, <3>1, <4>1 DEF BeforeAttach, Remembered
      <4>2. CASE prov[c] # NONE
        BY <1>3, <1>1, <1>4, <3>1, <4>2 DEF BeforeAttach, AtKnown
      <4> QED
        BY <4>1, <4>2
    <3> QED
      BY <1>2, <2>1, <2>3, <3>2 DEF KnowsOffer
  <2>8. InSession(c)'
    BY <1>2, <2>6, <2>7 DEF InSession
  <2> QED
    BY <2>4, <2>5, <2>8 DEF Aware
<1>6. CASE AttachSync(c)
  <2>1. /\ UNCHANGED <<downs, got>> /\ pc[c] = "burst"
        /\ pc'[c] = "run" /\ job'[c] = [to |-> "sync", names |-> offer[at[c]]]
    BY <1>1, <1>6 DEF AttachSync, Look, TypeOK
  <2>2. View(c)' = View(c) /\ (Untold(c) => Untold(c)')
    BY <1>2, <2>1, ViewKept
  <2>3. Remembered(c)'
    BY <1>2, <1>4, <2>2 DEF Remembered
  <2>4. BeforeAttach(c)' /\ LookHolds(c)'
    BY <1>2, <2>1 DEF BeforeAttach, LookHolds, Early
  <2>5. InSession(c)'
    BY <1>2, <1>4, <2>1, <2>2 DEF InSession, KnowsOffer, Coming, Going
  <2> QED
    BY <2>3, <2>4, <2>5 DEF Aware
<1> QED
  BY <1>5, <1>6

\* What a look at the offer ends in.
LEMMA AwareReply ==
  ASSUME SessionInv, OfferInv, NEW c \in Clients, c \notin misled, Reply(c)
  PROVE  Aware(c)'
<1> USE DEF listener, handler, capable, wire, world, session, Set
<1>1. TypeOK /\ AttachedHere /\ JobsServed /\ CapsType /\ Aware(c)
  BY DEF SessionInv, OfferInv
<1> DEFINE J == job[c].names
           fresh == J \ seen[c]
<1>2. /\ UNCHANGED <<pc, at, prov, reg, got, downs, offer, registered, cur, dm>>
      /\ job'[c] = Idle /\ pc[c] \in {"auth", "run"}
  BY <1>1 DEF Reply, TypeOK, JobsServed
<1>3. J \in SUBSET Caps /\ seen[c] \in SUBSET Caps /\ on[c] \in SUBSET Caps
  BY <1>1 DEF TypeOK, Job, CapsType
<1>4. \/ /\ job[c].to = "ls" /\ SendTo({c}, Msg("ls", J))
         /\ seen'[c] = seen[c] \cup J /\ on'[c] = on[c] /\ c \in notify'
      \/ /\ job[c].to = "req" /\ on'[c] = on[c] \cup J /\ seen'[c] = seen[c] /\ notify' = notify
         /\ UNCHANGED <<out, closed>> \/ SendTo({c}, Msg("ack", J))
      \/ /\ job[c].to = "sync" /\ c \in notify /\ SendTo({c}, Msg("new", fresh))
         /\ seen'[c] = seen[c] \cup fresh /\ on'[c] = on[c] /\ notify' = notify
      \/ /\ job[c].to = "sync" /\ (c \notin notify \/ fresh = {})
         /\ UNCHANGED <<seen, on, notify, out, closed>>
  BY <1>1 DEF Reply, CapsType
<1>5. Msg("ls", J) \in Message /\ Msg("ack", J) \in Message /\ Msg("new", fresh) \in Message
  BY <1>3, MsgType
<1> HIDE DEF J, fresh
<1>6. closed'[c] = "no" => closed[c] = "no"
  BY <1>1, <1>4, <1>5, SentOne
<1> SUFFICES ASSUME closed'[c] = "no"
             PROVE  Remembered(c)' /\ BeforeAttach(c)' /\ LookHolds(c)' /\ InSession(c)'
  BY DEF Aware
<1>7. Remembered(c) /\ BeforeAttach(c) /\ LookHolds(c) /\ InSession(c) /\ closed[c] = "no"
  BY <1>1, <1>6 DEF Aware
<1>8. ASSUME NEW m \in Message, SendTo({c}, m)
      PROVE  out'[c] = Append(out[c], m)
  BY <1>1, <1>7, <1>8, SentOne
<1>9. LookHolds(c)'
  BY <1>2 DEF LookHolds, Idle
<1>10. ASSUME NEW s \in Sessions, c \in downs[s], pc[c] \in {"burst", "run"}
       PROVE  /\ pc[c] = "run" /\ at[c] = s /\ offeredCaps(c) = offer[s]
              /\ KnowsOffer(c, s) /\ Coming(s)' = Coming(s) /\ Going(s)' = Going(s)
  <2>1. pc[c] = "run" /\ at[c] = s
    BY <1>1, <1>2, <1>10 DEF AttachedHere
  <2>2. at[c] # NONE
    BY <1>1, <2>1 DEF SessionInv, AtKnown
  <2> QED
    BY <1>2, <1>7, <1>10, <2>1, <2>2 DEF InSession, offeredCaps, Knows, Coming, Going
<1>11. CASE job[c].to = "ls"
  <2>1. SendTo({c}, Msg("ls", J)) /\ seen'[c] = seen[c] \cup J /\ on'[c] = on[c] /\ c \in notify'
    BY <1>4, <1>11
  <2>2. J = offeredCaps(c)
    BY <1>7, <1>11 DEF LookHolds, J
  <2>3. View(c)' = J
    <3>1. \A x \in Caps : x \in View(c)' <=> x \in J
      <4>1. \A x \in Caps : (Says(Msg("ls", J), x) <=> x \in J) /\ (Unsays(Msg("ls", J), x) <=> x \notin J)
        BY DEF Says, Unsays, Msg
      <4> QED
        BY <1>1, <1>2, <1>5, <1>8, <2>1, <4>1, ViewSent
    <3> QED
      BY <1>3, <3>1 DEF View
  <2>4. Remembered(c)'
    BY <2>1, <2>3 DEF Remembered
  <2>5. BeforeAttach(c)'
    <3>1. pc[c] \in Early => at[c] = NONE
      BY <1>2, <1>7 DEF BeforeAttach, Early
    <3> QED
      BY <1>2, <1>7, <2>1, <2>2, <2>3, <3>1 DEF BeforeAttach, offeredCaps, Knows
  <2>6. InSession(c)'
    <3>1. ASSUME NEW s \in Sessions, c \in downs[s], pc[c] \in {"burst", "run"}  PROVE KnowsOffer(c, s)'
      BY <1>2, <1>10, <2>1, <2>2, <2>3, <3>1 DEF KnowsOffer
    <3> QED
      BY <1>2, <3>1 DEF InSession
  <2> QED
    BY <1>9, <2>4, <2>5, <2>6
<1>12. CASE job[c].to = "req"
  <2>1. on'[c] = on[c] \cup J /\ seen'[c] = seen[c] /\ notify' = notify
    BY <1>4, <1>12
  <2>2. J \subseteq offeredCaps(c) /\ (c \in notify \/ J = {})
    BY <1>7, <1>12 DEF LookHolds, J
  <2>3. View(c)' = View(c) /\ (Untold(c) => Untold(c)')
    <3>1. CASE UNCHANGED <<out, closed>>
      BY <1>2, <3>1, ViewKept
    <3>2. CASE SendTo({c}, Msg("ack", J))
      <4>1. ~Noted(Msg("ack", J))
        BY DEF Noted, Msg
      <4> QED
        BY <1>1, <1>2, <1>5, <1>8, <3>2, <4>1, ViewSent
    <3> QED
      BY <1>4, <1>12, <3>1, <3>2
  <2>4. Remembered(c)'
    BY <1>7, <2>1, <2>2, <2>3 DEF Remembered
  <2>5. BeforeAttach(c)'
    <3>1. pc[c] \in Early => at[c] = NONE
      BY <1>2, <1>7 DEF BeforeAttach, Early
    <3> QED
      BY <1>2, <1>7, <2>1, <2>2, <2>3, <3>1 DEF BeforeAttach, offeredCaps, Knows
  <2>6. InSession(c)'
    <3>1. ASSUME NEW s \in Sessions, c \in downs[s], pc[c] \in {"burst", "run"}  PROVE KnowsOffer(c, s)'
      BY <1>2, <1>10, <1>12, <2>1, <2>2, <2>3, <3>1 DEF KnowsOffer
    <3> QED
      BY <1>2, <3>1 DEF InSession
  <2> QED
    BY <1>9, <2>4, <2>5, <2>6
<1>13. CASE job[c].to = "sync"
  <2>1. pc[c] = "run" /\ J = offer[at[c]]
    BY <1>7, <1>13 DEF LookHolds, J
  <2>2. BeforeAttach(c)'
    BY <1>2, <2>1 DEF BeforeAttach, Early
  <2>3. CASE c \in notify /\ SendTo({c}, Msg("new", fresh)) /\ seen'[c] = seen[c] \cup fresh
             /\ on'[c] = on[c] /\ notify' = notify
    <3>1. View(c)' = View(c) \cup fresh
      <4>1. \A x \in Caps : (Says(Msg("new", fresh), x) <=> x \in fresh) /\ ~Unsays(Msg("new", fresh), x)
        BY DEF Says, Unsays, Msg
      <4>2. \A x \in Caps : x \in View(c)' <=> x \in View(c) \cup fresh
        BY <1>1, <1>2, <1>5, <1>8, <2>3, <4>1, ViewSent
      <4>3. fresh \subseteq Caps
        BY <1>3 DEF fresh
      <4> QED
        BY <4>2, <4>3 DEF View
    <3>2. Remembered(c)'
      BY <1>7, <2>3, <3>1 DEF Remembered
    <3>3. ASSUME NEW s \in Sessions, c \in downs[s], pc[c] \in {"burst", "run"}  PROVE KnowsOffer(c, s)'
      BY <1>2, <1>10, <2>1, <2>3, <3>1, <3>3 DEF KnowsOffer, fresh
    <3>4. InSession(c)'
      BY <1>2, <3>3 DEF InSession
    <3> QED
      BY <1>9, <2>2, <3>2, <3>4
  <2>4. CASE (c \notin notify \/ fresh = {}) /\ UNCHANGED <<seen, on, notify, out, closed>>
    <3>1. View(c)' = View(c) /\ (Untold(c) => Untold(c)')
      BY <1>2, <2>4, ViewKept
    <3>2. Remembered(c)'
      BY <1>7, <2>4, <3>1 DEF Remembered
    <3>3. ASSUME NEW s \in Sessions, c \in downs[s], pc[c] \in {"burst", "run"}  PROVE KnowsOffer(c, s)'
      BY <1>2, <1>10, <2>1, <2>4, <3>1, <3>3 DEF KnowsOffer, fresh
    <3>4. InSession(c)'
      BY <1>2, <3>3 DEF InSession
    <3> QED
      BY <1>9, <2>2, <3>2, <3>4
  <2> QED
    BY <1>4, <1>13, <2>3, <2>4
<1> QED
  BY <1>4, <1>11, <1>12, <1>13

\* A client's end, its reader and its keepalive.
LEMMA AwareLeaves ==
  ASSUME SessionInv, OfferInv, NEW c \in Clients, c \notin misled,
         \/ ReadFails(c) \/ Detach(c) \/ Release(c) \/ Leave(c) \/ Hang(c)
         \/ keepaliveLoop(c) \/ writeLoop(c)
  PROVE  Aware(c)'
<1> USE DEF listener, handler, capable, wire, world, session, Set
<1>1. TypeOK /\ AtKnown /\ CapsType /\ Aware(c)
  BY DEF SessionInv, OfferInv
<1>2. CASE ReadFails(c)
  <2>1. /\ UNCHANGED <<prov, at, reg, job, seen, on, notify, out, got, closed, downs, offer, registered, cur, dm>>
        /\ pc'[c] = "leaving" /\ job[c] = Idle
    BY <1>1, <1>2 DEF ReadFails, TypeOK
  <2> SUFFICES ASSUME closed[c] = "no"  PROVE Aware(c)'
    BY <2>1 DEF Aware
  <2>2. View(c)' = View(c) /\ (Untold(c) => Untold(c)')
    BY <2>1, ViewKept
  <2>3. Remembered(c)'
    BY <1>1, <2>1, <2>2 DEF Aware, Remembered
  <2>4. BeforeAttach(c)' /\ InSession(c)' /\ LookHolds(c)'
    BY <2>1 DEF BeforeAttach, InSession, LookHolds, Early, Idle
  <2> QED
    BY <2>3, <2>4 DEF Aware
<1>3. CASE Detach(c) \/ Release(c)
  <2>1. closed'[c] # "no"
    BY <1>1, <1>3 DEF Detach, Release, Closed, TypeOK
  <2> QED
    BY <2>1 DEF Aware
<1>4. CASE Leave(c) \/ Hang(c)
  <2>1. UNCHANGED <<pc, prov, at, reg, job, seen, on, notify, out, got, closed, downs, offer, registered, cur, dm>>
    BY <1>4 DEF Leave, Hang
  <2>2. Same(c) /\ Carried(c)
    BY <2>1, ViewKept DEF Same, Carried
  <2> QED
    BY <1>1, <2>1, <2>2, AwareKept
<1>5. CASE keepaliveLoop(c)
  <2>1. /\ UNCHANGED <<pc, prov, at, reg, job, seen, on, notify, got, downs, offer, registered, cur, dm>>
        /\ SendTo({c}, Msg("ping", {})) \/ (out' = out /\ closed'[c] = "closed")
    BY <1>1, <1>5 DEF keepaliveLoop, TypeOK
  <2>2. CASE SendTo({c}, Msg("ping", {}))
    <3>1. Msg("ping", {}) \in Message /\ ~Noted(Msg("ping", {}))
      BY MsgType DEF Msg, Noted
    <3>2. View(c)' = View(c) /\ (Untold(c) => Untold(c)') /\ (closed'[c] = "no" => closed[c] = "no")
      BY <1>1, <2>1, <2>2, <3>1, ViewPlain
    <3>3. Same(c) /\ Carried(c)
      BY <2>1, <3>2 DEF Same, Carried
    <3> QED
      BY <1>1, <2>1, <3>2, <3>3, AwareKept
  <2>3. CASE closed'[c] = "closed"
    BY <2>3 DEF Aware
  <2> QED
    BY <2>1, <2>2, <2>3
<1>6. CASE writeLoop(c)
  <2>1. /\ UNCHANGED <<pc, prov, at, reg, job, seen, on, notify, closed, downs, offer, registered, cur, dm>>
        /\ \/ out[c] # <<>> /\ out'[c] = Tail(out[c]) /\ got'[c] = Told(got[c], Head(out[c]))
           \/ UNCHANGED <<out, got>>
    BY <1>1, <1>6 DEF writeLoop, TypeOK
  <2>2. Same(c)
    BY <2>1 DEF Same
  <2>3. Carried(c)
    BY <1>1, <2>1, ViewRead, ViewKept DEF Carried
  <2> QED
    BY <1>1, <2>1, <2>2, <2>3, AwareKept
<1> QED
  BY <1>2, <1>3, <1>4, <1>5, <1>6

\* The demux puts the lines, and the ends of clients, into queues; the operator stops
\* and starts the network.
LEMMA AwareDemux ==
  ASSUME SessionInv, OfferInv, NEW d \in Clients, d \notin misled, d \notin misled',
         \/ Serve \/ ReplaceListener \/ CloseClients \/ Relay \/ StopNetwork
         \/ \E s \in Sessions : StartNetwork(s)
  PROVE  Aware(d)'
<1> USE DEF listener, handler, capable, wire, world, session, Set
<1>1. TypeOK /\ AttachedHere /\ CapsType /\ Aware(d)
  BY DEF SessionInv, OfferInv
<1>2. CASE Serve \/ ReplaceListener
  <2>1. UNCHANGED <<pc, prov, at, reg, job, seen, on, notify, out, got, closed, downs, offer, registered, cur, dm>>
    BY <1>2 DEF Serve, AcceptFails, CloseOld, ReplaceListener
  <2>2. Same(d) /\ Carried(d)
    BY <2>1, ViewKept DEF Same, Carried
  <2> QED
    BY <1>1, <2>1, <2>2, AwareKept
<1>3. CASE CloseClients \/ Relay
  <2>1. /\ UNCHANGED <<pc, prov, at, reg, job, seen, on, notify, got, downs, offer, registered, cur>>
        /\ dm.to \notin {"new", "del"} /\ dm' = Idle
    BY <1>3 DEF CloseClients, Relay, Quiet, Idle
  <2>2. \A s \in Sessions : Coming(s)' = Coming(s) /\ Going(s)' = Going(s)
    BY <2>1 DEF Coming, Going, Idle
  <2>3. ASSUME CloseClients
        PROVE  View(d)' = View(d) /\ (Untold(d) => Untold(d)') /\ (closed'[d] = "no" => closed[d] = "no")
    <3>1. Msg("error", {}) \in Message /\ ~Noted(Msg("error", {})) /\ SendLast(dm.names, Msg("error", {}))
      BY <2>3, MsgType DEF CloseClients, Msg, Noted
    <3> QED
      BY <1>1, <2>1, <3>1, ViewPlain
  <2>4. ASSUME Relay
        PROVE  View(d)' = View(d) /\ (Untold(d) => Untold(d)') /\ (closed'[d] = "no" => closed[d] = "no")
    <3>1. lines[cur] + 1 \in Nat /\ SendTo(downs[cur], Line(lines[cur] + 1))
      BY <1>1, <2>4 DEF Relay, Quiet, TypeOK
    <3>2. Line(lines[cur] + 1) \in Message /\ ~Noted(Line(lines[cur] + 1))
      BY <3>1 DEF Line, Noted, Message
    <3> QED
      BY <1>1, <2>1, <3>1, <3>2, ViewPlain
  <2>5. Same(d) /\ Carried(d)
    BY <1>3, <2>1, <2>3, <2>4 DEF Same, Carried
  <2> QED
    BY <1>1, <1>3, <2>1, <2>2, <2>3, <2>4, <2>5, AwareMoved
<1>4. CASE StopNetwork \/ \E s \in Sessions : StartNetwork(s)
  <2>1. /\ UNCHANGED <<pc, prov, at, reg, job, seen, on, notify, out, got, closed, downs, offer, registered, dm>>
        /\ dm = Idle
    BY <1>4 DEF StopNetwork, StartNetwork, Quiet
  <2>2. Same(d) /\ Carried(d)
    BY <2>1, ViewKept DEF Same, Carried
  <2>3. \A s \in Sessions : Coming(s)' = Coming(s) /\ Going(s)' = Going(s)
    BY <2>1 DEF Coming, Going, Idle
  <2>4. ASSUME closed[d] = "no", pc[d] \in Early, prov[d] # NONE  PROVE FALSE
    <3>1. BeforeAttach(d)
      BY <1>1, <2>4 DEF Aware
    <3>2. pc[d] \in {"auth", "attach"} /\ prov[d] = cur
      BY <2>4, <3>1 DEF BeforeAttach, Early
    <3>3. cur # NONE
      BY <2>4, <3>2
    <3>4. misled' = misled \cup Waiting
      BY <1>4, <3>3 DEF StopNetwork, StartNetwork
    <3> QED
      BY <2>4, <3>2, <3>4 DEF Waiting
  <2> QED
    BY <1>1, <2>1, <2>2, <2>3, <2>4, AwareMoved
<1> QED
  BY <1>2, <1>3, <1>4

\* The uplink changes the offer, or the session's registration.
LEMMA AwareUplink ==
  ASSUME SessionInv, OfferInv, NEW d \in Clients, d \notin misled, d \notin misled',
         OnCapACK \/ OnCapDEL \/ completeRegistration \/ HandleDisconnect
  PROVE  Aware(d)'
<1> USE DEF listener, handler, capable, wire, world, session, Set
<1>1. TypeOK /\ AttachedHere /\ CapsType /\ Aware(d)
  BY DEF SessionInv, OfferInv
<1>2. /\ UNCHANGED <<pc, prov, at, reg, job, seen, on, notify, out, got, closed, cur>>
      /\ dm = Idle /\ cur # NONE /\ cur \in Sessions
  BY <1>1 DEF OnCapACK, OnCapDEL, completeRegistration, HandleDisconnect, Quiet, TypeOK
<1> SUFFICES ASSUME closed[d] = "no"
             PROVE  Remembered(d)' /\ BeforeAttach(d)' /\ LookHolds(d)' /\ InSession(d)'
  BY <1>2 DEF Aware
<1>3. Remembered(d) /\ BeforeAttach(d) /\ LookHolds(d) /\ InSession(d)
  BY <1>1 DEF Aware
<1>4. View(d)' = View(d) /\ (Untold(d) => Untold(d)')
  BY <1>2, ViewKept
<1>5. Remembered(d)'
  BY <1>2, <1>3, <1>4 DEF Remembered
<1>6. \A s \in Sessions : Coming(s) = {} /\ Going(s) = {} /\ (s # cur => Coming(s)' = {} /\ Going(s)' = {})
  BY <1>2 DEF Coming, Going, Idle
<1>7. ASSUME NEW X, misled' = misled \cup Looking \cup Unreached(X)
      PROVE  /\ pc[d] \in Early => (seen[d] \cup on[d]) \cap X = {}
             /\ pc[d] = "run" /\ ~registered[at[d]] => (seen[d] \cup on[d]) \cap X = {}
  <2>1. d \notin Unreached(X)
    BY <1>7
  <2>2. pc[d] \in {"off", "shake"} => seen[d] = {} /\ on[d] = {}
    BY <1>3 DEF BeforeAttach, Early
  <2> QED
    BY <2>1, <2>2 DEF Unreached, Early
<1>8. CASE OnCapACK \/ OnCapDEL
  <2>1. UNCHANGED <<registered, downs>> /\ job[d] = Idle
    BY <1>8 DEF OnCapACK, OnCapDEL, Looking
  <2>2. PICK x :
          \/ /\ offer' = Set(offer, cur, offer[cur] \cup {x})
             /\ dm' = IF registered[cur] THEN [to |-> "new", names |-> {x}] ELSE Idle
          \/ /\ offer' = Set(offer, cur, offer[cur] \ {x}) /\ registered[cur]
             /\ misled' = misled \cup Looking \cup Unreached({x})
             /\ dm' = [to |-> "del", names |-> {x}]
    <3>1. CASE OnCapACK
      BY <3>1 DEF OnCapACK
    <3>2. CASE OnCapDEL
      BY <3>2 DEF OnCapDEL
    <3> QED
      BY <1>8, <3>1, <3>2
  <2>3. \A s \in Sessions \ {cur} : offer'[s] = offer[s]
    BY <1>1, <2>2 DEF TypeOK
  <2>4. LookHolds(d)'
    BY <1>2, <2>1 DEF LookHolds, Idle
  <2>5. ASSUME NEW s \in Sessions \ {cur}, KnowsOffer(d, s)  PROVE KnowsOffer(d, s)'
    BY <1>2, <1>4, <1>6, <2>1, <2>3, <2>5 DEF KnowsOffer
  <2>6. CASE offer' = Set(offer, cur, offer[cur] \cup {x})
             /\ dm' = IF registered[cur] THEN [to |-> "new", names |-> {x}] ELSE Idle
    <3>1. offer'[cur] = offer[cur] \cup {x} /\ Going(cur)' = {} /\ (registered[cur] => Coming(cur)' = {x})
      BY <1>1, <1>2, <2>6 DEF TypeOK, Coming, Going, Idle
    <3>2. BeforeAttach(d)'
      BY <1>2, <1>3, <1>4, <3>1 DEF BeforeAttach
    <3>3. ASSUME KnowsOffer(d, cur)  PROVE KnowsOffer(d, cur)'
      BY <1>2, <1>4, <1>6, <2>1, <3>1, <3>3 DEF KnowsOffer
    <3>4. InSession(d)'
      BY <1>2, <1>3, <2>1, <2>5, <3>3 DEF InSession
    <3> QED
      BY <1>5, <2>4, <3>2, <3>4
  <2>7. CASE offer' = Set(offer, cur, offer[cur] \ {x}) /\ registered[cur]
             /\ misled' = misled \cup Looking \cup Unreached({x}) /\ dm' = [to |-> "del", names |-> {x}]
    <3>1. offer'[cur] = offer[cur] \ {x} /\ Going(cur)' = {x} /\ Coming(cur)' = {}
      BY <1>1, <1>2, <2>7 DEF TypeOK, Coming, Going
    <3>2. pc[d] \in Early => x \notin seen[d] \cup on[d]
      BY <1>7, <2>7
    <3>5. BeforeAttach(d)'
      BY <1>2, <1>3, <1>4, <3>1, <3>2 DEF BeforeAttach
    <3>3. ASSUME KnowsOffer(d, cur)  PROVE KnowsOffer(d, cur)'
      BY <1>2, <1>4, <1>6, <2>1, <2>7, <3>1, <3>3 DEF KnowsOffer
    <3>4. InSession(d)'
      BY <1>2, <1>3, <2>1, <2>5, <3>3 DEF InSession
    <3> QED
      BY <1>5, <2>4, <3>5, <3>4
  <2> QED
    BY <2>2, <2>6, <2>7
<1>9. CASE completeRegistration
  <2>1. /\ UNCHANGED <<offer, downs>> /\ ~registered[cur] /\ registered'[cur]
        /\ \A s \in Sessions \ {cur} : registered'[s] = registered[s]
        /\ dm' = [to |-> "new", names |-> offer[cur]]
    BY <1>1, <1>2, <1>9 DEF completeRegistration, CapsType
  <2>2. BeforeAttach(d)' /\ LookHolds(d)'
    BY <1>2, <1>3, <1>4, <2>1 DEF BeforeAttach, LookHolds, offeredCaps, Knows
  <2>3. Coming(cur)' = offer[cur] /\ Going(cur)' = {}
    BY <1>2, <2>1 DEF Coming, Going
  <2>4. ASSUME NEW s \in Sessions, KnowsOffer(d, s)  PROVE KnowsOffer(d, s)'
    <3>1. CASE s # cur
      BY <1>2, <1>4, <1>6, <2>1, <2>4, <3>1 DEF KnowsOffer
    <3>2. CASE s = cur
      BY <1>2, <1>4, <2>1, <2>3, <2>4, <3>2 DEF KnowsOffer
    <3> QED
      BY <3>1, <3>2
  <2>5. InSession(d)'
    BY <1>2, <1>3, <2>1, <2>4 DEF InSession
  <2> QED
    BY <1>5, <2>2, <2>5
<1>10. CASE HandleDisconnect
  <2>1. /\ misled' = misled \cup Looking \cup Unreached(offer[cur]) /\ job[d] = Idle /\ offer'[cur] = {} /\ ~registered'[cur]
        /\ \A s \in Sessions \ {cur} : registered'[s] = registered[s] /\ offer'[s] = offer[s]
        /\ \A s \in Sessions : d \in downs'[s] => d \in downs[s] /\ ~(s = cur /\ registered[cur])
    BY <1>1, <1>2, <1>10 DEF HandleDisconnect, Looking, CapsType, TypeOK
  <2>6. /\ pc[d] \in Early => (seen[d] \cup on[d]) \cap offer[cur] = {}
        /\ pc[d] = "run" /\ ~registered[at[d]] => (seen[d] \cup on[d]) \cap offer[cur] = {}
    BY <1>7, <2>1
  <2>2. BeforeAttach(d)' /\ LookHolds(d)'
    BY <1>2, <1>3, <1>4, <2>1, <2>6 DEF BeforeAttach, LookHolds, Idle
  <2>3. ASSUME NEW s \in Sessions \ {cur}, KnowsOffer(d, s)  PROVE KnowsOffer(d, s)'
    BY <1>2, <1>4, <1>6, <2>1, <2>3 DEF KnowsOffer
  <2>4. ASSUME d \in downs[cur], pc[d] \in {"burst", "run"}, ~registered[cur]  PROVE KnowsOffer(d, cur)'
    <3>1. pc[d] = "run" /\ at[d] = cur
      BY <1>1, <1>2, <1>3, <2>4 DEF InSession, KnowsOffer, AttachedHere
    <3>2. View(d) = {} /\ on[d] = {}
      BY <1>2, <1>3, <2>4, <2>6, <3>1 DEF Remembered, InSession, KnowsOffer
    <3> QED
      BY <1>2, <1>4, <2>1, <3>1, <3>2 DEF KnowsOffer
  <2>5. InSession(d)'
    BY <1>2, <1>3, <2>1, <2>3, <2>4 DEF InSession
  <2> QED
    BY <1>5, <2>2, <2>5
<1> QED
  BY <1>8, <1>9, <1>10

\* The session's clients are told.
LEMMA AwareBroadcast ==
  ASSUME SessionInv, OfferInv, NEW d \in Clients, d \notin misled, broadcastCapNotify
  PROVE  Aware(d)'
<1> USE DEF listener, handler, capable, wire, world, session, Set
<1> DEFINE N == dm.names
<1>1. TypeOK /\ AttachedHere /\ CapsType /\ Aware(d)
  BY DEF SessionInv, OfferInv
<1>2. /\ UNCHANGED <<pc, prov, at, reg, job, notify, got, downs, offer, registered, cur>>
      /\ dm' = Idle /\ dm.to \in {"new", "del"} /\ dm.to # "idle"
      /\ SendTo(IF N = {} THEN {} ELSE Notified, Msg(dm.to, N))
      /\ seen'[d] = IF d \in Notified /\ dm.to = "new" THEN seen[d] \cup N ELSE seen[d]
      /\ on'[d] = IF d \in Notified /\ dm.to = "del" THEN on[d] \ N ELSE on[d]
  BY DEF broadcastCapNotify
<1>3. /\ cur \in Sessions /\ N \in SUBSET Caps /\ registered[cur]
      /\ dm.to = "new" => N \subseteq offer[cur]
      /\ dm.to = "del" => N \cap offer[cur] = {}
  BY <1>1, <1>2 DEF SessionInv, WorkHasSession, TypeOK, Work, OfferInv, WorkSound
<1>4. Msg(dm.to, N) \in Message
  BY <1>2, <1>3, MsgType
<1>5. closed'[d] = "no" => closed[d] = "no"
  BY <1>1, <1>2, <1>4, SentOne
<1> SUFFICES ASSUME closed'[d] = "no"
             PROVE  Remembered(d)' /\ BeforeAttach(d)' /\ LookHolds(d)' /\ InSession(d)'
  BY DEF Aware
<1>6. Remembered(d) /\ BeforeAttach(d) /\ LookHolds(d) /\ InSession(d) /\ closed[d] = "no"
  BY <1>1, <1>5 DEF Aware
<1>7. \A s \in Sessions : Coming(s)' = {} /\ Going(s)' = {}
  BY <1>2 DEF Coming, Going, Idle
<1>8. LookHolds(d)'
  BY <1>2, <1>6 DEF LookHolds, offeredCaps, Knows
<1>9. d \in downs[cur] => at[d] = cur /\ pc[d] \notin Early
  BY <1>1, <1>3 DEF AttachedHere, Early
<1>10. CASE d \notin Notified
  <2>1. /\ out'[d] = out[d] /\ seen'[d] = seen[d] /\ on'[d] = on[d]
    BY <1>1, <1>2, <1>4, <1>10, SentOne
  <2>2. View(d)' = View(d) /\ (Untold(d) => Untold(d)')
    BY <1>2, <2>1, ViewKept
  <2>3. Remembered(d)' /\ BeforeAttach(d)'
    BY <1>2, <1>6, <2>1, <2>2 DEF Remembered, BeforeAttach
  <2>4. ASSUME NEW s \in Sessions, d \in downs[s], KnowsOffer(d, s)  PROVE KnowsOffer(d, s)'
    <3>1. CASE s # cur
      <4>1. Coming(s) = {} /\ Going(s) = {}
        BY <3>1 DEF Coming, Going
      <4> QED
        BY <1>2, <1>7, <2>1, <2>2, <2>4, <4>1 DEF KnowsOffer
    <3>2. CASE s = cur
      <4>1. d \notin notify
        BY <1>10, <2>4, <3>2 DEF Notified
      <4>2. View(d) = {} /\ on[d] = {} /\ seen[d] = {}
        BY <1>6, <4>1 DEF Remembered
      <4> QED
        BY <1>2, <1>3, <2>1, <2>2, <3>2, <4>1, <4>2 DEF KnowsOffer
    <3> QED
      BY <3>1, <3>2
  <2>5. InSession(d)'
    BY <1>2, <1>6, <2>4 DEF InSession
  <2> QED
    BY <1>8, <2>3, <2>5
<1>11. CASE d \in Notified
  <2>1. d \in downs[cur] /\ d \in notify /\ at[d] = cur /\ pc[d] \notin Early
    BY <1>9, <1>11 DEF Notified
  <2>2. View(d)' = IF dm.to = "new" THEN View(d) \cup N ELSE View(d) \ N
    <3>1. CASE N = {}
      <4>1. out'[d] = out[d]
        BY <1>1, <1>2, <1>4, <3>1, SentOne
      <4> QED
        BY <1>2, <3>1, <4>1, ViewKept
    <3>2. CASE N # {}
      <4>1. out'[d] = Append(out[d], Msg(dm.to, N))
        BY <1>1, <1>2, <1>4, <1>6, <1>11, <3>2, SentOne
      <4>2. \A x \in Caps : /\ Says(Msg(dm.to, N), x) <=> dm.to = "new" /\ x \in N
                            /\ Unsays(Msg(dm.to, N), x) <=> dm.to = "del" /\ x \in N
        BY <1>2 DEF Says, Unsays, Msg
      <4>3. \A x \in Caps : x \in View(d)' <=> \/ dm.to = "new" /\ x \in N
                                               \/ x \in View(d) /\ ~(dm.to = "del" /\ x \in N)
        BY <1>1, <1>2, <1>4, <4>1, <4>2, ViewSent
      <4> QED
        BY <1>2, <1>3, <4>3 DEF View
    <3> QED
      BY <3>1, <3>2
  <2>3. Remembered(d)'
    BY <1>2, <1>6, <1>11, <2>1, <2>2 DEF Remembered
  <2>4. BeforeAttach(d)'
    BY <1>2, <1>6, <2>1 DEF BeforeAttach, Early
  <2>5. ASSUME KnowsOffer(d, cur)  PROVE KnowsOffer(d, cur)'
    <3>1. CASE dm.to = "new"
      <4>1. Coming(cur) = N /\ Going(cur) = {}
        BY <3>1 DEF Coming, Going
      <4> QED
        BY <1>2, <1>3, <1>7, <1>11, <2>1, <2>2, <2>5, <3>1, <4>1 DEF KnowsOffer
    <3>2. CASE dm.to = "del"
      <4>1. Coming(cur) = {} /\ Going(cur) = N
        BY <3>2 DEF Coming, Going
      <4> QED
        BY <1>2, <1>3, <1>7, <1>11, <2>1, <2>2, <2>5, <3>2, <4>1 DEF KnowsOffer
    <3> QED
      BY <1>2, <3>1, <3>2
  <2>6. \A s \in Sessions : d \in downs[s] => s = cur
    BY <1>1, <2>1 DEF AttachedHere
  <2>7. InSession(d)'
    BY <1>2, <1>3, <1>6, <2>5, <2>6 DEF InSession
  <2> QED
    BY <1>8, <2>3, <2>4, <2>7
<1> QED
  BY <1>10, <1>11

\* Who has been misled stays so.
LEMMA MisledGrows == [Next]_vars => misled \subseteq misled'
<1>1. ASSUME NEW c \in Clients, Commands(c)  PROVE misled \subseteq misled'
  <2>1. CASE CapREQ(c)
    <3>1. PICK x \in Caps : misled' = IF x \in offeredCaps(c) /\ c \notin notify THEN misled \cup {c} ELSE misled
      BY <2>1 DEF CapREQ
    <3> QED
      BY <3>1
  <2> QED
    BY <1>1, <2>1 DEF Commands, CapLS, CapEND, NickUser, Pass
<1>2. ASSUME NEW c \in Clients, Handle(c)  PROVE misled \subseteq misled'
  BY <1>2 DEF Handle, Handshake, Reply, authenticate, Attach, AttachSync, ReadFails, Detach, Release
<1>3. ASSUME NEW c \in Clients, Accept(c) \/ writeLoop(c) \/ keepaliveLoop(c) \/ Leave(c) \/ Hang(c)
      PROVE  misled \subseteq misled'
  BY <1>3 DEF Accept, writeLoop, keepaliveLoop, Leave, Hang
<1>4. Serve \/ ReplaceListener \/ Demux \/ StopNetwork \/ (\E s \in Sessions : StartNetwork(s))
        => misled \subseteq misled'
  BY DEF Serve, AcceptFails, CloseOld, ReplaceListener, Demux, broadcastCapNotify, CloseClients, StopNetwork,
         StartNetwork
<1>5. Uplink => misled \subseteq misled'
  BY DEF Uplink, OnCapACK, OnCapDEL, completeRegistration, HandleDisconnect, Relay
<1> QED
  BY <1>1, <1>2, <1>3, <1>4, <1>5 DEF Next, vars

LEMMA OfferInvStep ==
  ASSUME SessionInv, OfferInv, [Next]_vars
  PROVE  OfferInv'
<1>1. TypeOK /\ AtKnown /\ CapsType /\ WorkSound
  BY DEF SessionInv, OfferInv
<1>2. CapsType' /\ WorkSound'
  BY <1>1, CapsTypeStep, WorkSoundStep
<1> SUFFICES ASSUME NEW d \in Clients, d \notin misled'  PROVE Aware(d)'
  BY <1>2 DEF OfferInv
<1>8. d \notin misled
  BY MisledGrows
<1>9. Aware(d)
  BY <1>8 DEF OfferInv
<1>3. ASSUME NEW c \in Clients,
             Accept(c) \/ Commands(c) \/ Handle(c) \/ writeLoop(c) \/ keepaliveLoop(c) \/ Leave(c) \/ Hang(c)
      PROVE  Aware(d)'
  <2>1. CASE d # c
    BY <1>1, <1>3, <1>9, <2>1, AwareOther
  <2>2. CASE d = c
    BY <1>3, <1>8, <2>2, AwareCommands, AwareEnters, AwareAttaches, AwareReply, AwareLeaves DEF Handle
  <2> QED
    BY <2>1, <2>2
<1>4. ASSUME \/ Serve \/ ReplaceListener \/ CloseClients \/ Relay \/ StopNetwork
             \/ \E s \in Sessions : StartNetwork(s)
      PROVE  Aware(d)'
  BY <1>4, <1>8, AwareDemux
<1>5. ASSUME OnCapACK \/ OnCapDEL \/ completeRegistration \/ HandleDisconnect  PROVE Aware(d)'
  BY <1>5, <1>8, AwareUplink
<1>6. CASE broadcastCapNotify
  BY <1>6, <1>8, AwareBroadcast
<1>7. CASE UNCHANGED vars
  <2>1. /\ UNCHANGED <<pc, prov, at, reg, job, seen, on, notify, out, got, closed, downs, offer, registered, cur>>
        /\ dm' = dm
    BY <1>7 DEF vars, listener, handler, capable, wire, world, session
  <2>2. Same(d) /\ Carried(d)
    BY <2>1, ViewKept DEF Same, Carried
  <2> QED
    BY <1>1, <1>9, <2>1, <2>2, AwareKept
<1> QED
  BY <1>3, <1>4, <1>5, <1>6, <1>7 DEF Next, Demux, Uplink

LEMMA OfferInvInit ==
  ASSUME Init
  PROVE  OfferInv
<1>1. CapsType
  BY DEF Init, CapsType, Registrations, Unregistered
<1>2. WorkSound
  BY DEF Init, WorkSound, Idle
<1>3. ASSUME NEW c \in Clients  PROVE Aware(c)
  <2>1. /\ pc[c] = "off" /\ prov[c] = NONE /\ at[c] = NONE /\ seen[c] = {} /\ on[c] = {} /\ job[c] = Idle
        /\ out[c] = <<>> /\ got[c].view = {}
    BY DEF Init, Nothing
  <2>2. View(c) = {}
    BY <2>1, LearnsNone DEF View
  <2>3. Untold(c)
    <3>1. 1 .. Len(<<>>) = {}
      OBVIOUS
    <3> QED
      BY <2>1, <3>1 DEF Untold
  <2>4. Remembered(c) /\ BeforeAttach(c) /\ LookHolds(c) /\ InSession(c)
    BY <2>1, <2>2, <2>3 DEF Remembered, BeforeAttach, LookHolds, InSession, Idle
  <2> QED
    BY <2>4 DEF Aware
<1> QED
  BY <1>1, <1>2, <1>3 DEF OfferInv

\* A client that has read its queue and asked for cap-notify knows the offer of its
\* session and has nothing else enabled, whenever its CAP LS, its attach and the uplink's
\* changes fell (notifyAttachCaps, broadcastCapNotify, the replies to CAP LS and CAP
\* REQ), unless it was misled: the offer changed between a look at it for this client
\* and the reply, or shrank, or the network was stopped, when the client had been told
\* of it and was not on a registered session, or it enabled something without CAP LS.
THEOREM OffersAreKnown == Spec => []OfferKnown
<1>1. Init => OfferInv
  BY OfferInvInit
<1>2. ASSUME SessionInv, OfferInv, [Next]_vars  PROVE OfferInv'
  BY <1>2, OfferInvStep
<1>3. ASSUME SessionInv, OfferInv  PROVE OfferKnown
  <2> SUFFICES ASSUME NEW c \in Clients \ misled, pc[c] = "run", c \in notify, closed[c] = "no", c \in downs[at[c]],
                      job[c] = Idle, out[c] = <<>>, dm = Idle, registered[at[c]] \/ offer[at[c]] = {}
               PROVE  got[c].view = offer[at[c]] /\ on[c] \subseteq offer[at[c]]
    BY DEF OfferKnown, KnowsOffered
  <2>1. TypeOK /\ AtKnown /\ Aware(c)
    BY <1>3 DEF SessionInv, OfferInv
  <2>2. at[c] \in Sessions /\ got[c].view \in SUBSET Caps /\ offer[at[c]] \in SUBSET Caps
    BY <2>1 DEF TypeOK, AtKnown, Knowledge
  <2>3. View(c) = got[c].view
    BY <2>2, LearnsNone DEF View
  <2>4. Coming(at[c]) = {} /\ Going(at[c]) = {}
    BY DEF Coming, Going, Idle
  <2>5. KnowsOffer(c, at[c])
    BY <2>1, <2>2 DEF Aware, InSession
  <2>6. job[c].to # "sync"
    BY DEF Idle
  <2>7. CASE registered[at[c]]
    BY <2>3, <2>4, <2>5, <2>6, <2>7 DEF KnowsOffer
  <2>8. CASE ~registered[at[c]]
    BY <2>3, <2>5, <2>8 DEF KnowsOffer
  <2> QED
    BY <2>7, <2>8
<1>4. Spec => [](SessionInv /\ SlotsCounted)
  BY SessionInvariant
<1> QED
  BY <1>1, <1>2, <1>3, <1>4, PTL DEF Spec
=============================================================================
