------------------------------ MODULE Session ------------------------------
(***************************************************************************)
(* One network's session between its uplink and its clients, around the    *)
(* registration of the uplink: Attach and Detach, the registration lines   *)
(* that waiting clients share, the commands held until the uplink is       *)
(* registered, and the end of a connection (internal/session: replay.go,   *)
(* downstream.go, upstream.go).                                            *)
(*                                                                         *)
(* The demux is one goroutine, every client has its own; Session.mu is     *)
(* held only for the length of one step here.  A command is its            *)
(* fingerprint; a registration line is its connection and its number, 1 for *)
(* the 001 and RegLines for the 376.                                       *)
(***************************************************************************)
EXTENDS Naturals, Sequences, FiniteSets, SequencesExt

CONSTANTS Clients,
          Keys,       \* fingerprints of commands that may be held
          RegLines,   \* lines of a registration that clients are shown
          MaxHeld,    \* maxHeldUntilReg
          MaxAsks,    \* bound on the commands of one client
          MaxLives    \* bound on uplink connections

ASSUME SessionAssumption ==
    /\ RegLines \in Nat \ {0, 1} /\ MaxHeld \in Nat \ {0}
    /\ MaxAsks \in Nat /\ MaxLives \in Nat

VARIABLES up,          \* whether the uplink is connected
          life,        \* connections so far
          registered,  \* Session.registered
          regBuffer,   \* registration lines so far
          conn,        \* clients whose goroutine is serving
          gone,        \* clients that have left: a ClientID is used once
          downlinks,   \* Session.downlinks
          awaiting,    \* Session.awaitingUplink
          held,        \* Session.heldUntilReg: [c, k]
          flushing,    \* Session.heldFlushing
          cancel,      \* Session.heldFlushCancel: [c, k]
          sent,        \* Session.heldFlushSent: [c, k], within heldFlushSentTTL
          demux,       \* where the demux goroutine is
          job,         \* where each client's goroutine is
          seen,        \* history: registration lines a client was sent
          asked,       \* history: commands of a client's connection, per key
          live,        \* history: those of them that found the uplink registered
          fw,          \* history: forwards, per client and key
          let          \* history: [c, k] that the cap or the TTL let go

uplink == <<up, life, registered, regBuffer>>
clients == <<conn, gone, downlinks, awaiting>>
holds == <<held, flushing, cancel, sent>>
history == <<seen, asked, live, fw, let>>
vars == <<uplink, clients, holds, demux, job, history>>

Idle == [at |-> "idle"]
Cmd(c, k) == [c |-> c, k |-> k]

Bump(f, c, k) == [f EXCEPT ![c][k] = @ + 1]

----------------------------------------------------------------------------
(* A client's goroutine: HandleClientMessage for a command that may be held. *)

\* The check that decides between holding and forwarding, made on its own.
Ask(c, k) ==
    /\ c \in conn /\ job[c] = Idle
    /\ FoldFunction(+, 0, asked[c]) < MaxAsks
    /\ asked' = Bump(asked, c, k)
    /\ \/ /\ ~registered
          /\ job' = [job EXCEPT ![c] = [at |-> "hold", k |-> k]]
          /\ UNCHANGED live
       \/ /\ registered
          /\ job' = [job EXCEPT ![c] = [at |-> "dedup", k |-> k]]
          /\ live' = Bump(live, c, k)
    /\ UNCHANGED <<uplink, clients, holds, demux, seen, fw, let>>

\* Put in the queue unless it is there; the oldest makes room.
Hold(h, x) ==
    IF x \in Range(h) THEN h
    ELSE IF Len(h) = MaxHeld THEN Append(Tail(h), x)
    ELSE Append(h, x)

holdUntilRegistered(c) ==
    LET x == Cmd(c, job[c].k) IN
    /\ job[c].at = "hold"
    /\ held' = Hold(held, x)
    /\ let' = let \cup (Range(held) \ Range(held'))
    /\ job' = [job EXCEPT ![c] = Idle]
    /\ UNCHANGED <<uplink, clients, flushing, cancel, sent, demux, seen, asked, live, fw>>

\* Mutant of CancelFlush: a live re-send does not stop the flush.
CancelNothing(x) == cancel

\* A live command stops the same one from being flushed.
CancelFlush(x) == IF flushing THEN cancel \cup {x} ELSE cancel

FlushMark(x) == sent \cup {x}

\* The live re-send wins over what is still to be flushed, and gives way to
\* what was flushed just now.
skipDuplicateAfterHold(c) ==
    LET x == Cmd(c, job[c].k) IN
    /\ job[c].at = "dedup"
    /\ held' = SelectSeq(held, LAMBDA h : h # x)
    /\ sent' = sent \ {x}
    /\ \/ /\ x \in sent
          /\ job' = [job EXCEPT ![c] = Idle]
          /\ UNCHANGED cancel
       \/ /\ x \notin sent
          /\ job' = [job EXCEPT ![c].at = "forward"]
          /\ cancel' = CancelFlush(x)
    /\ UNCHANGED <<uplink, clients, flushing, demux, history>>

forwardSolicitous(c) ==
    /\ job[c].at = "forward"
    /\ fw' = Bump(fw, c, job[c].k)
    /\ job' = [job EXCEPT ![c] = Idle]
    /\ UNCHANGED <<uplink, clients, holds, demux, seen, asked, live, let>>

\* heldFlushSentTTL passes.
Age(x) ==
    /\ x \in sent
    /\ sent' = sent \ {x} /\ let' = let \cup {x}
    /\ UNCHANGED <<uplink, clients, held, flushing, cancel, demux, job, seen, asked, live, fw>>

----------------------------------------------------------------------------
(* Attach and Detach. *)

\* In one critical section the client becomes a downlink and either begins to
\* wait or takes the copy of the state its burst is made from.
Attach(c) ==
    /\ c \notin conn \cup gone
    /\ conn' = conn \cup {c}
    /\ downlinks' = downlinks \cup {c}
    /\ \/ /\ ~registered
          /\ awaiting' = awaiting \cup {c}
          /\ job' = [job EXCEPT ![c] = [at |-> "replay", buf |-> regBuffer]]
       \/ /\ registered
          /\ UNCHANGED <<awaiting, job>>
    /\ UNCHANGED <<uplink, gone, holds, demux, history>>

\* Mutant of AttachReplay: what is buffered by now, not what was buffered then.
ReplayLate(c) ==
    /\ job[c].at = "replay"
    /\ seen' = [seen EXCEPT ![c] = @ \o regBuffer]
    /\ job' = [job EXCEPT ![c] = Idle]
    /\ UNCHANGED <<uplink, clients, holds, demux, asked, live, fw, let>>

AttachReplay(c) ==
    /\ job[c].at = "replay"
    /\ seen' = [seen EXCEPT ![c] = @ \o job[c].buf]
    /\ job' = [job EXCEPT ![c] = Idle]
    /\ UNCHANGED <<uplink, clients, holds, demux, asked, live, fw, let>>

\* The end of a client's goroutine: it left, or found itself closed.
Detach(c) ==
    LET others(S) == {x \in S : x.c # c} IN
    /\ c \in conn /\ job[c] = Idle
    /\ conn' = conn \ {c} /\ gone' = gone \cup {c}
    /\ downlinks' = downlinks \ {c}
    /\ awaiting' = awaiting \ {c}
    /\ held' = SelectSeq(held, LAMBDA h : h.c # c)
    /\ cancel' = others(cancel)
    /\ sent' = others(sent)
    /\ UNCHANGED <<uplink, flushing, demux, job, history>>

----------------------------------------------------------------------------
(* The demux goroutine. *)

Connect ==
    /\ ~up /\ life < MaxLives
    /\ up' = TRUE /\ life' = life + 1
    /\ UNCHANGED <<registered, regBuffer, clients, holds, demux, job, history>>

\* HandleRegistrationLine: under the lock the line is buffered and those who
\* wait are noted; then it is sent to each of them.
HandleRegistrationLine ==
    /\ up /\ ~registered /\ demux = Idle /\ Len(regBuffer) < RegLines
    /\ regBuffer' = Append(regBuffer, <<life, Len(regBuffer) + 1>>)
    /\ demux' = [at |-> "relay", to |-> awaiting \cap downlinks]
    /\ UNCHANGED <<up, life, registered, clients, holds, job, history>>

Relay(c) ==
    /\ demux.at = "relay" /\ c \in demux.to
    /\ demux' = [demux EXCEPT !.to = @ \ {c}]
    /\ seen' = [seen EXCEPT ![c] = Append(@, Last(regBuffer))]
    /\ UNCHANGED <<uplink, clients, holds, job, asked, live, fw, let>>

RelayDone ==
    /\ demux.at = "relay" /\ demux.to = {} /\ Len(regBuffer) < RegLines
    /\ demux' = Idle
    /\ UNCHANGED <<uplink, clients, holds, job, history>>

\* The line was the 376.
completeRegistration ==
    /\ demux.at = "relay" /\ demux.to = {} /\ Len(regBuffer) = RegLines
    /\ registered' = TRUE
    /\ awaiting' = {}
    /\ regBuffer' = <<>>
    /\ demux' = [at |-> "complete"]
    /\ UNCHANGED <<up, life, conn, gone, downlinks, holds, job, history>>

\* flushHeldAfterRegister takes the queue and then goes through its copy.
FlushTake ==
    /\ demux.at = "complete"
    /\ demux' = [at |-> "flush", todo |-> held]
    /\ held' = <<>>
    /\ flushing' = TRUE
    /\ UNCHANGED <<uplink, clients, cancel, sent, job, history>>

FlushNext ==
    /\ demux.at = "flush" /\ demux.todo # <<>>
    /\ LET x == Head(demux.todo)
           rest == Tail(demux.todo)
       IN  \/ /\ x \in cancel
              /\ cancel' = cancel \ {x}
              /\ demux' = [demux EXCEPT !.todo = rest]
              /\ UNCHANGED sent
           \/ /\ x \notin cancel
              /\ sent' = FlushMark(x)
              /\ demux' = [at |-> IF x.c \in downlinks THEN "forward" ELSE "unmark",
                           x |-> x, todo |-> rest]
              /\ UNCHANGED cancel
    /\ UNCHANGED <<uplink, clients, held, flushing, job, history>>

\* The client is gone: nothing was flushed.
FlushUnmark ==
    /\ demux.at = "unmark"
    /\ sent' = sent \ {demux.x}
    /\ demux' = [at |-> "flush", todo |-> demux.todo]
    /\ UNCHANGED <<uplink, clients, held, flushing, cancel, job, history>>

forwardHeldMessage ==
    /\ demux.at = "forward"
    /\ fw' = Bump(fw, demux.x.c, demux.x.k)
    /\ demux' = [at |-> "flush", todo |-> demux.todo]
    /\ UNCHANGED <<uplink, clients, holds, job, seen, asked, live, let>>

FlushEnd ==
    /\ demux.at = "flush" /\ demux.todo = <<>>
    /\ flushing' = FALSE /\ cancel' = {}
    /\ demux' = Idle
    /\ UNCHANGED <<uplink, clients, held, sent, job, history>>

heldAfterDisconnect == IF registered THEN <<>> ELSE held

\* HandleDisconnect: the clients of a registered session are closed, those of
\* another stay, and with them what they are waiting to have forwarded.  It may
\* be called twice for one failed registration.
HandleDisconnect ==
    /\ up \/ (life > 0 /\ ~registered)
    /\ demux = Idle
    /\ up' = FALSE /\ registered' = FALSE /\ regBuffer' = <<>>
    /\ held' = heldAfterDisconnect /\ cancel' = {} /\ sent' = {}
    /\ \/ /\ registered
          /\ downlinks' = {} /\ awaiting' = {}
       \/ /\ ~registered
          /\ awaiting' = downlinks
          /\ UNCHANGED downlinks
    /\ seen' = [c \in Clients |-> <<>>]
    /\ UNCHANGED <<life, conn, gone, flushing, demux, job, asked, live, fw, let>>

----------------------------------------------------------------------------
None == [c \in Clients |-> [k \in Keys |-> 0]]

Init ==
    /\ up = FALSE /\ life = 0 /\ registered = FALSE /\ regBuffer = <<>>
    /\ conn = {} /\ gone = {} /\ downlinks = {} /\ awaiting = {}
    /\ held = <<>> /\ flushing = FALSE /\ cancel = {} /\ sent = {}
    /\ demux = Idle /\ job = [c \in Clients |-> Idle]
    /\ seen = [c \in Clients |-> <<>>]
    /\ asked = None /\ live = None /\ fw = None /\ let = {}

Next ==
    \/ \E c \in Clients :
          \/ \E k \in Keys : Ask(c, k) \/ Age(Cmd(c, k))
          \/ holdUntilRegistered(c) \/ skipDuplicateAfterHold(c) \/ forwardSolicitous(c)
          \/ Attach(c) \/ AttachReplay(c) \/ Detach(c) \/ Relay(c)
    \/ Connect \/ HandleRegistrationLine \/ RelayDone \/ completeRegistration
    \/ FlushTake \/ FlushNext \/ FlushUnmark \/ forwardHeldMessage \/ FlushEnd
    \/ HandleDisconnect

Spec == Init /\ [][Next]_vars

----------------------------------------------------------------------------
TypeOK ==
    /\ {up, registered, flushing} \subseteq BOOLEAN /\ life \in 0 .. MaxLives
    /\ Len(regBuffer) <= RegLines
    /\ awaiting \subseteq downlinks /\ downlinks \subseteq conn /\ conn \subseteq Clients
    /\ Range(held) \cup cancel \cup sent \cup let \subseteq {Cmd(c, k) : c \in Clients, k \in Keys}
    /\ IsInjective(held) /\ Len(held) <= MaxHeld
    /\ demux.at \in {"idle", "relay", "complete", "flush", "forward", "unmark"}
    /\ \A c \in Clients : job[c].at \in {"idle", "hold", "dedup", "forward", "replay"}

\* skipDuplicateAfterHold "prefers a live post-001 re-send over a held flush":
\* however a client's re-sends fall between the steps of the flush, what it
\* asked for goes up no more often than it was asked for live, and once if it
\* was only held.
ForwardedOnce ==
    \A c \in downlinks, k \in Keys :
        Cmd(c, k) \in let \/ fw[c][k] <= (IF live[c][k] = 0 THEN 1 ELSE live[c][k])

\* And it does go up: when the flush is over and the client's goroutine has
\* nothing in hand, a command is forwarded, given up by the cap or still held.
ForwardedAtAll ==
    \A c \in downlinks, k \in Keys :
        (registered /\ demux = Idle /\ job[c] = Idle /\ asked[c][k] > 0)
        => \/ fw[c][k] > 0
           \/ Cmd(c, k) \in Range(held) \cup let

\* What clients ask for while the network registers goes up exactly as often as asked.
ForwardedExactly == ForwardedOnce /\ ForwardedAtAll

\* What client c was sent of the registration under way.
SeenNow(c) == SelectSeq(seen[c], LAMBDA l : l[1] = life)

\* "Mid-attach with a buffered 001 already present replays the buffer": whoever
\* waits is sent every line of the registration once, from the buffer or live.
SeenOnce ==
    (up /\ demux = Idle) =>
        \A c \in awaiting :
            job[c].at # "replay" =>
                Len(SeenNow(c)) = Len(regBuffer) /\ Range(SeenNow(c)) = Range(regBuffer)

\* What a registered session has flushed it does not hold: fails when a client
\* passed the check before the registration and queued after the flush.
NothingHeldForGood == (registered /\ demux = Idle) => held = <<>>

\* And in the ircd's order: fails when a line is relayed between a client's
\* Attach and its replay.
SeenInOrder == (up /\ demux = Idle) => \A c \in awaiting : job[c].at # "replay" => SeenNow(c) = regBuffer
=============================================================================
