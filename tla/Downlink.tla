---------------------------- MODULE Downlink ----------------------------
(* The client side of the bouncer: the TLS listener and its accept loop, the *)
(* slots it hands out, one handler, one writer and one keepalive per         *)
(* connection, the capability negotiation a client may start before the      *)
(* bouncer knows its network, and the session it is attached to, whose offer *)
(* follows the uplink.  One network; a stop and a start give it a new        *)
(* session.                                                                  *)
(*                                                                           *)
(* misled is history: the clients that the bouncer has left with a wrong     *)
(* picture of the offer, because it changed between a handler's look at it   *)
(* and the reply, or shrank for a client that had been told of it and is not *)
(* attached to a registered session, or because the client enabled something *)
(* without having asked what is on offer.  No action reads it.               *)
EXTENDS Integers, Sequences, FiniteSets

CONSTANTS Clients,
          Plain,         \* clients that only send the right PASS, NICK and USER, and stay
          Caps,          \* the uplink-backed capabilities
          NONE,
          QueueSize,     \* DownlinkOutQueueSize
          MaxClients,    \* Config.MaxClients
          MaxSessions,   \* sessions the network has, one after the other
          MaxEvents,     \* what the uplink, the operator and rehashes do
          MaxCap         \* CAP commands of a client

Sessions == 1..MaxSessions

ASSUME DownlinkAssumption ==
    /\ QueueSize \in Nat \ {0}
    /\ MaxClients \in Nat \ {0}
    /\ MaxSessions \in Nat \ {0}
    /\ IsFiniteSet(Clients)

VARIABLES misled,                      \* history: see above
          serve,                       \* the accept loop: where, on what, as of which generation
          ln, lnGen, lnOpen, closing,  \* Listener.ln, lnGen; sockets open; sockets a ReplaceListener has to close
          active,                      \* Listener.active
          pc,                          \* where each handler is
          reg,                         \* what registration has seen of each client
          prov, at,                    \* Client.provSess, Client.sess
          seen, on, notify,            \* capsSeen, caps, and whether cap-notify is among them
          job,                         \* a look at the offer a handler has still to act on
          out, closed, writing,        \* Client.out, closed; connections whose writeLoop runs
          tcp,                         \* the connection: up, ended by us, ended by the client
          mute,                        \* clients that neither read nor write any more
          pinged,                      \* keepaliveLoop's pingAt
          got,                         \* what each client has received; last: the line its feed is at
          cur,                         \* Server.sess: the network's session, if it runs
          started,                     \* sessions it has had
          registered, offer, downs, awaiting,
          lines,                       \* lines the uplink has sent in each session
          dm,                          \* what the demux goroutine has still to do
          events

listener == <<serve, ln, lnGen, lnOpen, closing>>
handler == <<active, pc, reg, prov, at, job>>
capable == <<seen, on, notify>>
wire == <<out, closed, writing, tcp, got>>
world == <<mute, pinged>>
session == <<cur, started, registered, offer, downs, awaiting, lines, dm>>
vars == <<misled, listener, handler, capable, wire, world, session, events>>

Unregistered == [pass |-> "none", names |-> FALSE, cap |-> "no", pend |-> FALSE, n |-> 0]
Idle == [to |-> "idle", names |-> {}]
Set(f, c, v) == [f EXCEPT ![c] = v]
Happens == events < MaxEvents /\ events' = events + 1

----------------------------------------------------------------------------
(* The queue of a client. *)

\* Mutant of Sent: a line that does not fit is dropped and the client kept.
SkipsOverflow(c, m) ==
    [q |-> IF closed[c] = "no" /\ Len(out[c]) < QueueSize THEN Append(out[c], m) ELSE out[c], end |-> closed[c]]

\* Client.Send: into the queue, or the end of a client too slow.
Sent(c, m) ==
    CASE closed[c] # "no" -> [q |-> out[c], end |-> closed[c]]
      [] closed[c] = "no" /\ Len(out[c]) < QueueSize -> [q |-> Append(out[c], m), end |-> "no"]
      [] OTHER -> [q |-> out[c], end |-> "overflow"]

SendTo(S, m) ==
    /\ out' = [c \in Clients |-> IF c \in S THEN Sent(c, m).q ELSE out[c]]
    /\ closed' = [c \in Clients |-> IF c \in S THEN Sent(c, m).end ELSE closed[c]]

\* Send, then Close.
SendLast(S, m) ==
    /\ out' = [c \in Clients |-> IF c \in S THEN Sent(c, m).q ELSE out[c]]
    /\ closed' = [c \in Clients |-> IF c \in S /\ Sent(c, m).end = "no" THEN "closed"
                                    ELSE IF c \in S THEN Sent(c, m).end ELSE closed[c]]

Closed(c) == IF closed[c] = "no" THEN "closed" ELSE closed[c]

Told(g, m) ==
    CASE m.t = "ls" -> [g EXCEPT !.view = m.names]
      [] m.t = "new" -> [g EXCEPT !.view = @ \cup m.names]
      [] m.t = "del" -> [g EXCEPT !.view = @ \ m.names]
      [] m.t = "error" -> [g EXCEPT !.error = TRUE]
      [] m.t = "line" -> [g EXCEPT !.last = m.n, !.hole = @ \/ m.n # g.last + 1]
      [] OTHER -> g

Msg(t, names) == [t |-> t, names |-> names, n |-> 0]
Line(n) == [t |-> "line", names |-> {}, n |-> n]

MayClose(c) == closed[c] # "no" /\ out[c] = <<>>

Over(c) == IF tcp[c] = "up" THEN "ended" ELSE tcp[c]

\* writeLoop: the next message, a write that fails, or the end of the queue.
writeLoop(c) ==
    /\ c \in writing
    /\ \/ /\ out[c] # <<>> /\ tcp[c] = "up" /\ c \notin mute
          /\ out' = Set(out, c, Tail(out[c]))
          /\ got' = Set(got, c, Told(got[c], Head(out[c])))
          /\ UNCHANGED <<writing, tcp>>
       \/ /\ out[c] # <<>> /\ (tcp[c] # "up" \/ c \in mute)
          /\ writing' = writing \ {c}
          /\ tcp' = Set(tcp, c, Over(c))
          /\ UNCHANGED <<out, got>>
       \/ /\ MayClose(c)
          /\ writing' = writing \ {c}
          /\ tcp' = Set(tcp, c, Over(c))
          /\ UNCHANGED <<out, got>>
    /\ UNCHANGED <<misled, listener, handler, capable, closed, world, session, events>>

----------------------------------------------------------------------------
(* Accepting. *)

\* The loop's turn: the listener and its generation, read together.
Turn == [is |-> "accept", on |-> ln, gen |-> lnGen]

\* A connection, with a slot or without.
Accept(c) ==
    /\ serve.is = "accept" /\ serve.on \in lnOpen
    /\ pc[c] = "off"
    /\ serve' = Turn
    /\ \/ active < MaxClients /\ active' = active + 1 /\ pc' = Set(pc, c, "shake") /\ UNCHANGED tcp
       \/ active >= MaxClients /\ pc' = Set(pc, c, "gone") /\ tcp' = Set(tcp, c, "ended") /\ UNCHANGED active
    /\ UNCHANGED <<misled, ln, lnGen, lnOpen, closing, reg, prov, at, job, capable, out, closed, writing, got, world, session, events>>

\* Accept on a closed listener: it was swapped, or Serve and the brain end.  Other
\* errors of Accept, which end them as well, are left out.
AcceptFails ==
    /\ serve.is = "accept" /\ serve.on \notin lnOpen
    /\ serve' = IF lnGen # serve.gen THEN Turn ELSE [serve EXCEPT !.is = "dead"]
    /\ UNCHANGED <<misled, ln, lnGen, lnOpen, closing, handler, capable, wire, world, session, events>>

\* Mutant of ReplaceListener: the swap is not counted as another generation.
SwapsUncounted ==
    /\ Happens
    /\ ln' = ln + 1
    /\ lnOpen' = lnOpen \cup {ln + 1}
    /\ closing' = closing \cup {ln}
    /\ UNCHANGED <<misled, serve, lnGen, handler, capable, wire, world, session>>

\* A rehash with another listen_addr.
ReplaceListener ==
    /\ Happens
    /\ ln' = ln + 1
    /\ lnGen' = lnGen + 1
    /\ lnOpen' = lnOpen \cup {ln + 1}
    /\ closing' = closing \cup {ln}
    /\ UNCHANGED <<misled, serve, handler, capable, wire, world, session>>

CloseOld ==
    /\ closing # {}
    /\ lnOpen' = lnOpen \ closing
    /\ closing' = {}
    /\ UNCHANGED <<misled, serve, ln, lnGen, handler, capable, wire, world, session, events>>

----------------------------------------------------------------------------
(* A client until it is attached. *)

\* The IP gate and the handshake; no Client yet when they fail.
Handshake(c) ==
    /\ pc[c] = "shake"
    /\ \/ tcp[c] = "up" /\ c \notin mute /\ pc' = Set(pc, c, "auth") /\ writing' = writing \cup {c} /\ UNCHANGED <<tcp, active>>
       \/ pc' = Set(pc, c, "gone") /\ tcp' = Set(tcp, c, "ended") /\ active' = active - 1 /\ UNCHANGED writing
    /\ UNCHANGED <<misled, listener, reg, prov, at, job, capable, out, closed, got, world, session, events>>

\* registrationReady
Ready(c) == reg[c].names /\ reg[c].cap # "open" /\ ~reg[c].pend

\* A client's next line reaches its handler.
Reads(c) ==
    /\ tcp[c] = "up" /\ c \notin mute
    /\ job[c] = Idle
    /\ pc[c] = "run" \/ (pc[c] = "auth" /\ ~Ready(c))

Knows(c) == IF at[c] # NONE THEN at[c] ELSE prov[c]

\* offeredCaps, less the ones that are always there.
offeredCaps(c) == IF Knows(c) = NONE THEN {} ELSE offer[Knows(c)]

Look(c, to, names) == job' = Set(job, c, [to |-> to, names |-> names])

Registering(c, r) == reg' = Set(reg, c, r)

\* CAP LS 302: deferred until the network is known.
CapLS(c) ==
    /\ Reads(c) /\ reg[c].n < MaxCap /\ c \notin Plain
    /\ \/ /\ Knows(c) = NONE
          /\ Registering(c, [reg[c] EXCEPT !.cap = IF @ = "no" THEN "open" ELSE @, !.pend = TRUE, !.n = @ + 1])
          /\ UNCHANGED job
       \/ /\ Knows(c) # NONE
          /\ Registering(c, [reg[c] EXCEPT !.cap = IF @ = "no" THEN "open" ELSE @, !.n = @ + 1])
          /\ Look(c, "ls", offeredCaps(c))
    /\ UNCHANGED <<misled, listener, active, pc, prov, at, capable, wire, world, session, events>>

\* CAP REQ, of what the client may or may not have been told of.
CapREQ(c) ==
    /\ Reads(c) /\ reg[c].n < MaxCap /\ c \notin Plain
    /\ \E x \in Caps :
         /\ Look(c, "req", {x} \cap offeredCaps(c))
         /\ misled' = IF x \in offeredCaps(c) /\ c \notin notify THEN misled \cup {c} ELSE misled
    /\ Registering(c, [reg[c] EXCEPT !.cap = IF @ = "no" THEN "open" ELSE @, !.n = @ + 1])
    /\ UNCHANGED <<listener, active, pc, prov, at, capable, wire, world, session, events>>

CapEND(c) ==
    /\ Reads(c) /\ pc[c] = "auth" /\ reg[c].cap = "open"
    /\ Registering(c, [reg[c] EXCEPT !.cap = "ended"])
    /\ UNCHANGED <<misled, listener, active, pc, prov, at, job, capable, wire, world, session, events>>

NickUser(c) ==
    /\ Reads(c) /\ pc[c] = "auth" /\ ~reg[c].names
    /\ c \in Plain => reg[c].pass # "none"
    /\ Registering(c, [reg[c] EXCEPT !.names = TRUE])
    /\ UNCHANGED <<misled, listener, active, pc, prov, at, job, capable, wire, world, session, events>>

\* PASS with this network and the right password, with the wrong one, or with
\* the name of no network.  It answers a deferred CAP LS.
Pass(c) ==
    /\ Reads(c) /\ pc[c] = "auth" /\ reg[c].pass = "none"
    /\ \E p \in IF c \in Plain THEN {"good"} ELSE {"good", "bad", "unknown"} :
         LET net == IF p = "unknown" THEN NONE ELSE cur IN
         /\ Registering(c, [reg[c] EXCEPT !.pass = p, !.pend = FALSE])
         /\ prov' = Set(prov, c, net)
         /\ IF reg[c].pend THEN Look(c, "ls", IF net = NONE THEN {} ELSE offer[net]) ELSE UNCHANGED job
    /\ UNCHANGED <<misled, listener, active, pc, at, capable, wire, world, session, events>>

\* What a look at the offer ends in: the LS reply, the ACK, or CAP NEW of what
\* the client has not been told of (notifyAttachCaps).
Reply(c) ==
    /\ job[c] # Idle
    /\ job' = Set(job, c, Idle)
    /\ LET fresh == job[c].names \ seen[c] IN
       \/ /\ job[c].to = "ls"
          /\ SendTo({c}, Msg("ls", job[c].names))
          /\ seen' = Set(seen, c, seen[c] \cup job[c].names)
          /\ notify' = notify \cup {c}
          /\ UNCHANGED on
       \/ /\ job[c].to = "req"
          /\ on' = Set(on, c, on[c] \cup job[c].names)
          /\ IF job[c].names = {} THEN UNCHANGED <<out, closed>> ELSE SendTo({c}, Msg("ack", job[c].names))
          /\ UNCHANGED <<seen, notify>>
       \/ /\ job[c].to = "sync" /\ c \in notify /\ fresh # {}
          /\ SendTo({c}, Msg("new", fresh))
          /\ seen' = Set(seen, c, seen[c] \cup fresh)
          /\ UNCHANGED <<on, notify>>
       \/ /\ job[c].to = "sync" /\ (c \notin notify \/ fresh = {})
          /\ UNCHANGED <<capable, out, closed>>
    /\ UNCHANGED <<misled, listener, active, pc, reg, prov, at, writing, tcp, got, world, session, events>>

\* ERROR, and the handler returns.
Refused(c) ==
    /\ pc' = Set(pc, c, "refused")
    /\ SendTo({c}, Msg("error", {}))

\* authenticate, then Manager.Session: the lines stop, the deadline passes, or
\* the credentials and the network named decide.
authenticate(c) ==
    /\ pc[c] = "auth" /\ job[c] = Idle
    /\ \/ /\ IF Ready(c) THEN reg[c].pass # "good" \/ cur = NONE ELSE tcp[c] # "up" \/ c \in mute
          /\ Refused(c) /\ UNCHANGED at
       \/ /\ Ready(c) /\ reg[c].pass = "good" /\ cur # NONE
          /\ pc' = Set(pc, c, "attach") /\ at' = Set(at, c, cur)
          /\ UNCHANGED <<out, closed>>
    /\ UNCHANGED <<misled, listener, active, reg, prov, job, capable, writing, tcp, got, world, session, events>>

\* Session.Attach: the critical section, then the burst and the capabilities.
Attach(c) ==
    /\ pc[c] = "attach"
    /\ downs' = Set(downs, at[c], downs[at[c]] \cup {c})
    /\ IF registered[at[c]]
       THEN pc' = Set(pc, c, "burst") /\ UNCHANGED awaiting
       ELSE pc' = Set(pc, c, "run") /\ awaiting' = Set(awaiting, at[c], awaiting[at[c]] \cup {c})
    /\ got' = [got EXCEPT ![c].last = lines[at[c]]]
    /\ UNCHANGED <<misled, listener, active, reg, prov, at, job, capable, out, closed, writing, tcp, world, cur, started, registered, offer, lines, dm, events>>

\* Mutant of AttachSync: only a client that has been told nothing is told more.
SyncsTheUntold(c) ==
    /\ pc[c] = "burst"
    /\ pc' = Set(pc, c, "run")
    /\ IF seen[c] = {} THEN UNCHANGED job ELSE Look(c, "sync", offer[at[c]])
    /\ UNCHANGED <<misled, listener, active, reg, prov, at, capable, wire, world, session, events>>

AttachSync(c) ==
    /\ pc[c] = "burst"
    /\ pc' = Set(pc, c, "run")
    /\ Look(c, "sync", offer[at[c]])
    /\ UNCHANGED <<misled, listener, active, reg, prov, at, capable, wire, world, session, events>>

----------------------------------------------------------------------------
(* An attached client, and the end of every client. *)

ReadFails(c) ==
    /\ pc[c] = "run" /\ job[c] = Idle
    /\ tcp[c] # "up" \/ c \in mute
    /\ pc' = Set(pc, c, "leaving")
    /\ UNCHANGED <<misled, listener, active, reg, prov, at, job, capable, wire, world, session, events>>

\* A silent client is pinged, then closed.
keepaliveLoop(c) ==
    /\ pc[c] = "run" /\ c \in mute
    /\ \/ /\ c \notin pinged
          /\ pinged' = pinged \cup {c}
          /\ SendTo({c}, Msg("ping", {}))
       \/ /\ c \in pinged /\ closed[c] = "no"
          /\ closed' = Set(closed, c, "closed")
          /\ UNCHANGED <<pinged, out>>
    /\ UNCHANGED <<misled, listener, handler, capable, writing, tcp, got, mute, session, events>>

\* Mutant of Detach: a client the session has closed already is left to it.
DetachesTheOpen(c) ==
    /\ pc[c] = "leaving"
    /\ pc' = Set(pc, c, "refused")
    /\ IF closed[c] = "no"
       THEN /\ downs' = Set(downs, at[c], downs[at[c]] \ {c})
            /\ awaiting' = Set(awaiting, at[c], awaiting[at[c]] \ {c})
       ELSE UNCHANGED <<downs, awaiting>>
    /\ closed' = Set(closed, c, Closed(c))
    /\ UNCHANGED <<misled, listener, active, reg, prov, at, job, capable, out, writing, tcp, got, world, cur, started, registered, offer, lines, dm, events>>

\* The deferred Session.Detach.
Detach(c) ==
    /\ pc[c] = "leaving"
    /\ pc' = Set(pc, c, "refused")
    /\ downs' = Set(downs, at[c], downs[at[c]] \ {c})
    /\ awaiting' = Set(awaiting, at[c], awaiting[at[c]] \ {c})
    /\ closed' = Set(closed, c, Closed(c))
    /\ UNCHANGED <<misled, listener, active, reg, prov, at, job, capable, out, writing, tcp, got, world, cur, started, registered, offer, lines, dm, events>>

\* The deferred Client.Close and the slot; what the handler knew goes with it.
Release(c) ==
    /\ pc[c] = "refused"
    /\ pc' = Set(pc, c, "gone")
    /\ closed' = Set(closed, c, Closed(c))
    /\ active' = active - 1
    /\ reg' = Set(reg, c, Unregistered)
    /\ prov' = Set(prov, c, NONE)
    /\ seen' = Set(seen, c, {}) /\ on' = Set(on, c, {}) /\ notify' = notify \ {c}
    /\ UNCHANGED <<misled, listener, at, job, out, writing, tcp, got, world, session, events>>

\* The client goes away, or stops without a word.
Leave(c) ==
    /\ pc[c] \notin {"off", "gone"} /\ tcp[c] = "up" /\ c \notin Plain
    /\ tcp' = Set(tcp, c, "left")
    /\ UNCHANGED <<misled, listener, handler, capable, out, closed, writing, got, world, session, events>>

Hang(c) ==
    /\ pc[c] \notin {"off", "gone"} /\ tcp[c] = "up" /\ c \notin mute \cup Plain
    /\ mute' = mute \cup {c}
    /\ UNCHANGED <<misled, listener, handler, capable, wire, pinged, session, events>>

----------------------------------------------------------------------------
(* The uplink's side: the demux goroutine, one event at a time. *)

Quiet == dm = Idle /\ cur # NONE

\* Clients whose handler is between its look at the offer and its reply.
Looking == {c \in Clients : job[c] # Idle}

\* Clients that know of some of X and that no CAP DEL reaches.
Unreached(X) ==
    {c \in Clients : /\ (seen[c] \cup on[c]) \cap X # {}
                     /\ pc[c] \in {"auth", "attach"} \/ (pc[c] = "run" /\ ~registered[at[c]])}

\* Clients that have named the network and are not attached.
Waiting == {c \in Clients : pc[c] \in {"auth", "attach"} /\ prov[c] # NONE}

\* A capability is acknowledged: told of at once only once registered.
OnCapACK ==
    /\ Quiet /\ Happens
    /\ \E x \in Caps \ offer[cur] :
         /\ offer' = Set(offer, cur, offer[cur] \cup {x})
         /\ dm' = IF registered[cur] THEN [to |-> "new", names |-> {x}] ELSE Idle
    /\ misled' = misled \cup Looking
    /\ UNCHANGED <<listener, handler, capable, wire, world, cur, started, registered, downs, awaiting, lines>>

OnCapDEL ==
    /\ Quiet /\ registered[cur] /\ Happens
    /\ \E x \in offer[cur] :
         /\ offer' = Set(offer, cur, offer[cur] \ {x})
         /\ dm' = [to |-> "del", names |-> {x}]
         /\ misled' = misled \cup Looking \cup Unreached({x})
    /\ UNCHANGED <<listener, handler, capable, wire, world, cur, started, registered, downs, awaiting, lines>>

completeRegistration ==
    /\ Quiet /\ ~registered[cur] /\ Happens
    /\ registered' = Set(registered, cur, TRUE)
    /\ dm' = [to |-> "new", names |-> offer[cur]]
    /\ awaiting' = Set(awaiting, cur, {})
    /\ UNCHANGED <<misled, listener, handler, capable, wire, world, cur, started, offer, downs, lines>>

Notified == {c \in downs[cur] : c \in notify}

broadcastCapNotify ==
    /\ dm.to \in {"new", "del"}
    /\ dm' = Idle
    /\ SendTo(IF dm.names = {} THEN {} ELSE Notified, Msg(dm.to, dm.names))
    /\ seen' = [c \in Clients |-> IF c \in Notified /\ dm.to = "new" THEN seen[c] \cup dm.names ELSE seen[c]]
    /\ on' = [c \in Clients |-> IF c \in Notified /\ dm.to = "del" THEN on[c] \ dm.names ELSE on[c]]
    /\ UNCHANGED <<misled, listener, handler, notify, writing, tcp, got, world, cur, started, registered, offer, downs, awaiting, lines, events>>

\* A registered session lets its clients go; another keeps them waiting.
HandleDisconnect ==
    /\ Quiet /\ Happens
    /\ registered' = Set(registered, cur, FALSE)
    /\ offer' = Set(offer, cur, {})
    /\ IF registered[cur]
       THEN downs' = Set(downs, cur, {}) /\ awaiting' = Set(awaiting, cur, {}) /\ dm' = [to |-> "lost", names |-> downs[cur]]
       ELSE awaiting' = Set(awaiting, cur, downs[cur]) /\ UNCHANGED <<downs, dm>>
    /\ misled' = misled \cup Looking \cup Unreached(offer[cur])
    /\ UNCHANGED <<listener, handler, capable, wire, world, cur, started, lines>>

CloseClients ==
    /\ dm.to = "lost"
    /\ dm' = Idle
    /\ SendLast(dm.names, Msg("error", {}))
    /\ UNCHANGED <<misled, listener, handler, capable, writing, tcp, got, world, cur, started, registered, offer, downs, awaiting, lines, events>>

Relay ==
    /\ Quiet /\ registered[cur] /\ Happens
    /\ lines' = Set(lines, cur, lines[cur] + 1)
    /\ SendTo(downs[cur], Line(lines[cur] + 1))
    /\ UNCHANGED <<misled, listener, handler, capable, writing, tcp, got, world, cur, started, registered, offer, downs, awaiting, dm>>

\* The operator: the old session's clients stay with it.
StopNetwork ==
    /\ Quiet /\ Happens
    /\ cur' = NONE
    /\ misled' = misled \cup Waiting
    /\ UNCHANGED <<listener, handler, capable, wire, world, started, registered, offer, downs, awaiting, lines, dm>>

StartNetwork(s) ==
    /\ cur = NONE /\ dm = Idle /\ Happens
    /\ s = started + 1
    /\ started' = s
    /\ cur' = s
    /\ UNCHANGED <<misled, listener, handler, capable, wire, world, registered, offer, downs, awaiting, lines, dm>>

----------------------------------------------------------------------------

Nothing == [view |-> {}, error |-> FALSE, last |-> 0, hole |-> FALSE]

Init ==
    /\ misled = {}
    /\ serve = [is |-> "accept", on |-> 0, gen |-> 0]
    /\ ln = 0 /\ lnGen = 0 /\ lnOpen = {0} /\ closing = {}
    /\ active = 0
    /\ pc = [c \in Clients |-> "off"]
    /\ reg = [c \in Clients |-> Unregistered]
    /\ prov = [c \in Clients |-> NONE] /\ at = [c \in Clients |-> NONE]
    /\ seen = [c \in Clients |-> {}] /\ on = [c \in Clients |-> {}] /\ notify = {}
    /\ job = [c \in Clients |-> Idle]
    /\ out = [c \in Clients |-> <<>>] /\ closed = [c \in Clients |-> "no"] /\ writing = {}
    /\ tcp = [c \in Clients |-> "up"]
    /\ mute = {} /\ pinged = {}
    /\ got = [c \in Clients |-> Nothing]
    /\ cur = 1 /\ started = 1
    /\ registered \in [Sessions -> BOOLEAN] /\ offer \in [Sessions -> SUBSET Caps]
    /\ \A s \in Sessions \ {1} : ~registered[s] /\ offer[s] = {}
    /\ downs = [s \in Sessions |-> {}] /\ awaiting = [s \in Sessions |-> {}]
    /\ lines = [s \in Sessions |-> 0]
    /\ dm = Idle
    /\ events = 0

Serve == AcceptFails \/ CloseOld

Commands(c) == CapLS(c) \/ CapREQ(c) \/ CapEND(c) \/ NickUser(c) \/ Pass(c)

Handle(c) ==
    \/ Handshake(c) \/ Reply(c) \/ authenticate(c) \/ Attach(c) \/ AttachSync(c)
    \/ ReadFails(c) \/ Detach(c) \/ Release(c)

Demux == broadcastCapNotify \/ CloseClients

Uplink == OnCapACK \/ OnCapDEL \/ completeRegistration \/ HandleDisconnect \/ Relay

Next ==
    \/ Serve \/ ReplaceListener
    \/ \E c \in Clients : Accept(c) \/ Commands(c) \/ Handle(c) \/ writeLoop(c) \/ keepaliveLoop(c) \/ Leave(c) \/ Hang(c)
    \/ Demux \/ Uplink
    \/ StopNetwork \/ \E s \in Sessions : StartNetwork(s)

\* Goroutines run, a write to a client ends or times out, timers fire.
Fairness ==
    /\ WF_vars(Serve) /\ WF_vars(Demux)
    /\ \A c \in Clients : WF_vars(Handle(c)) /\ WF_vars(writeLoop(c)) /\ WF_vars(keepaliveLoop(c))

Spec == Init /\ [][Next]_vars /\ Fairness

----------------------------------------------------------------------------

\* A slot is taken for as long as a handler runs and no longer, and there are
\* never more than MaxClients (tryAcquireClient, the deferred active.Add(-1)).
SlotsCounted ==
    /\ active = Cardinality({c \in Clients : pc[c] \notin {"off", "gone"}})
    /\ active <= MaxClients

\* No session is left with a client whose handler is over, whoever closed the
\* client first: the session, the keepalive, a full queue or its peer.
NoGhost == \A c \in Clients, s \in Sessions : pc[c] \in {"refused", "gone"} => c \notin downs[s] \cup awaiting[s]

\* A client that is gone leaves neither its slot nor itself behind.
NothingLeft == SlotsCounted /\ NoGhost

\* What a client that keeps up with its queue and asked for cap-notify should be
\* able to rely on: it knows the capabilities on offer and has only such enabled.
KnowsOffered(c) ==
    pc[c] = "run" /\ c \in notify /\ tcp[c] = "up" /\ closed[c] = "no" /\ c \in downs[at[c]]
    /\ job[c] = Idle /\ out[c] = <<>> /\ dm = Idle
    /\ (registered[at[c]] \/ offer[at[c]] = {})
    => got[c].view = offer[at[c]] /\ on[c] \subseteq offer[at[c]]

\* Clients know the offer whenever their CAP LS, their attach and the uplink's
\* changes fell (notifyAttachCaps, broadcastCapNotify), but for those misled: the
\* offer changed between a look at it and the reply, it shrank or the network was
\* stopped when they knew of it and were not on a registered session, or they
\* enabled something without a CAP LS.
OfferKnown == \A c \in Clients \ misled : KnowsOffered(c)

\* replay.go:287-290 and broadcastCapNotify promise it to every such client.
OfferAlwaysKnown == \A c \in Clients : KnowsOffered(c)

\* A client never misses a line between two it received: one too slow is let go
\* (Client.Send).
NoHoleInFeed == \A c \in Clients : ~got[c].hole

\* Who is refused and still reads learns why before the connection ends
\* (Client.Close leaves what is queued to writeLoop).
RefusedIsTold ==
    \A c \in Clients :
        tcp[c] = "ended" /\ c \notin writing /\ c \notin mute /\ closed[c] = "closed" /\ at[c] = NONE
        => got[c].error

\* A client that cannot be served is let go, never left with less than it thinks.
ToldOrLetGo == NoHoleInFeed /\ RefusedIsTold

\* A rehash that moves the listener never ends the accept loop, which would end
\* the brain (Listener.Serve, lnGen).
ServeSurvives == serve.is # "dead"

\* A client that has gone, hung or been closed gives its slot back.
SlotsComeBack == \A c \in Clients : (tcp[c] # "up" \/ c \in mute \/ closed[c] # "no") ~> pc[c] = "gone"

\* Clients are attached to the session their network has.
AttachedToCurrent == \A c \in Clients : pc[c] = "run" /\ c \in downs[at[c]] => at[c] = cur
=============================================================================
