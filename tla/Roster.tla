------------------------------- MODULE Roster -------------------------------
(***************************************************************************)
(* What a session knows of the channels it is on, and where that is kept:  *)
(* applyState and the state*Locked handlers (internal/session: state.go,   *)
(* state_commands.go, state_numerics.go, user.go), the keeper's blob and   *)
(* the SQL channel table behind them (downstream.go), a resume from the    *)
(* blob (resume.go), and the burst a client is sent when it attaches       *)
(* (replay.go).                                                            *)
(*                                                                         *)
(* The ircd's lines reach the demux in order and each is acknowledged once *)
(* it was handled; a brain that dies is followed by one that starts from   *)
(* the blob and is sent every line that was not acknowledged (module       *)
(* LiveSession).  Our own nick is "self" whatever it is at the moment; its *)
(* changes are numbered.                                                   *)
(***************************************************************************)
EXTENDS Naturals, Sequences, FiniteSets, Functions, TLC

CONSTANTS Chans,
          Others,     \* nicks of other people
          Faults,     \* what may go wrong: see fault
          MaxEvents,  \* bound: things that happen on the network
          MaxCrash,   \* bound: brains that die
          MaxLoss,    \* bound: connections lost
          MaxQueue    \* bound: lines that are not acknowledged

AllFaults == {"none", "rename", "stranger", "late"}

ASSUME RosterAssumption ==
    /\ Faults \subseteq AllFaults /\ "self" \notin Others
    /\ {MaxEvents, MaxCrash, MaxLoss, MaxQueue} \subseteq Nat

VARIABLES
    fault,     \* the one kind of trouble of this behaviour: our nick changes, the ircd
               \* tells who is on a channel we are not on, a loss finds us behind
    link,      \* external: the connection is up
    real,      \* external: who is on each channel
    rops,      \* external: which of them are ops
    nick,      \* external: the number of our nick
    joins,     \* external: JOINs on their way to the ircd: "no", "auto" or "client"
    names,     \* external: NAMES on their way to the ircd
    q,         \* lines the keeper still holds for us
    pos,       \* the next of them to be handled
    brain,     \* "on" or "off"
    registered,
    chans,     \* Session.channels
    selfNick,  \* the number of self.Nick
    orphan,    \* users[self.Nick] is no longer s.self
    pend,      \* pendingJoinKeys
    due,       \* pendingNamesRefresh
    cur,       \* what the demux has still to do for the line in hand
    blob,      \* channel:* entries of the keeper's blob
    blobNick,  \* its self-nick entry
    store,     \* the channel table
    att,       \* a client: "no", in its "burst", or "on"
    snap,      \* the channels its burst will name
    view,      \* the channels it thinks it is on
    wanted,    \* history: channels a client's JOIN brought us to, until we leave
    missed,    \* history: a QUIT or NICK is missing from a channel's history
    overtaken, \* history: channels whose PART reached the client before the burst that
               \* names them
    events, crashes, losses

ircd == <<link, real, rops, nick, joins, names>>
stream == <<q, pos>>
know == <<registered, chans, selfNick, orphan, pend, due>>
kept == <<blob, blobNick, store>>
client == <<att, snap, view>>
hist == <<fault, wanted, missed, overtaken>>
bounds == <<events, crashes, losses>>
vars == <<ircd, stream, brain, know, cur, kept, client, hist, bounds>>

Idle == [at |-> "idle", add |-> {}, save |-> {}, del |-> {}, nick |-> 0]

NewChannel == [ms |-> {}, ops |-> {}, known |-> FALSE]

Handling == brain = "on" /\ cur = Idle /\ pos <= Len(q)

----------------------------------------------------------------------------
(* applyState: the locked part, by line.  Each gives the new channels; what *)
(* is to be pushed and stored follows in Then.                              *)

\* The channel as the handler finds or makes it.
Find(c) == IF c \in DOMAIN chans THEN chans[c] ELSE NewChannel

Put(c, ch) == chans' = (c :> ch) @@ chans

\* The rest of a line's handling starts at the first step that has something to do.
Then(add, save, del, k) ==
    cur' = [at |-> IF add \cup del # {} \/ k # 0 THEN "blob" ELSE "fan",
            add |-> add, save |-> save, del |-> del, nick |-> k]

\* stateJOINLocked.
stateJOIN(l) ==
    LET ch == Find(l.c)
        self == l.n = "self" /\ ~orphan
    IN  /\ Put(l.c, [ch EXCEPT !.ms = @ \cup {l.n}])
        /\ pend' = IF self THEN pend \ {l.c} ELSE pend
        /\ Then(IF self THEN {l.c} ELSE {}, IF self THEN pend \cap {l.c} ELSE {}, {}, 0)
        /\ UNCHANGED <<stream, registered, selfNick, orphan, due, joins, names, att, missed>>

\* statePartKickLocked.
statePartKick(l) ==
    /\ \/ /\ l.c \notin DOMAIN chans /\ UNCHANGED chans /\ Then({}, {}, {}, 0)
       \/ /\ l.c \in DOMAIN chans /\ l.n = "self"
          /\ chans' = Restrict(chans, DOMAIN chans \ {l.c})
          /\ Then({}, {}, {l.c}, 0)
       \/ /\ l.c \in DOMAIN chans /\ l.n # "self"
          /\ Put(l.c, [chans[l.c] EXCEPT !.ms = @ \ {l.n}])
          /\ Then({}, {}, {}, 0)
    /\ UNCHANGED <<stream, registered, selfNick, orphan, pend, due, joins, names, att, missed>>

\* Mutant of historyTargets: asked after applyState has removed the nick.
TargetsTooLate(n) == {}

\* historyTargets of a QUIT or NICK.
historyTargets(n) == {c \in DOMAIN chans : n \in chans[c].ms}

\* maybeStoreHistory of a QUIT or NICK: a line that was stored before is not again.
StoreHistory(l) ==
    /\ missed' = (missed \/ (~l.done /\ ~(l.cs \subseteq historyTargets(l.n))))
    /\ q' = [q EXCEPT ![pos].done = TRUE]

\* stateQUITLocked.
stateQUIT(l) ==
    /\ StoreHistory(l)
    /\ chans' = [c \in DOMAIN chans |-> [chans[c] EXCEPT !.ms = @ \ {l.n}, !.ops = @ \ {l.n}]]
    /\ Then({}, {}, {}, 0)
    /\ UNCHANGED <<pos, registered, selfNick, orphan, pend, due, joins, names, att>>

Renamed(s, old, new) == IF old \in s THEN (s \ {old}) \cup {new} ELSE s

\* stateNICKLocked and renameUserLocked, of somebody else.
stateNICK(l) ==
    /\ StoreHistory(l)
    /\ chans' = [c \in DOMAIN chans |-> [chans[c] EXCEPT !.ms = Renamed(@, l.n, l.to),
                                                         !.ops = Renamed(@, l.n, l.to)]]
    /\ Then({}, {}, {}, 0)
    /\ UNCHANGED <<pos, registered, selfNick, orphan, pend, due, joins, names, att>>

\* And of ourselves.  The line's source is our old nick: when we have the new one
\* already, a user of the old name is made and takes our place under the new one.
stateSelfNICK(l) ==
    /\ IF l.old = selfNick
       THEN selfNick' = l.new /\ UNCHANGED orphan /\ Then({}, {}, {}, l.new)
       ELSE orphan' = (orphan \/ l.new = selfNick) /\ UNCHANGED selfNick /\ Then({}, {}, {}, 0)
    /\ UNCHANGED <<stream, registered, chans, pend, due, joins, names, att, missed>>

\* stateMODELocked, of a channel's ops.
stateMODE(l) ==
    /\ IF l.c \in DOMAIN chans
       THEN Put(l.c, [chans[l.c] EXCEPT !.ops = IF l.on THEN @ \cup {l.n} ELSE @ \ {l.n}])
       ELSE UNCHANGED chans
    /\ Then({}, {}, {}, 0)
    /\ UNCHANGED <<stream, registered, selfNick, orphan, pend, due, joins, names, att, missed>>

\* state353Locked: only ever adds, and makes the channel if there is none.
state353(l) ==
    /\ Put(l.c, [Find(l.c) EXCEPT !.ms = @ \cup l.ms, !.ops = @ \cup l.ops])
    /\ Then({}, {}, {}, 0)
    /\ UNCHANGED <<stream, registered, selfNick, orphan, pend, due, joins, names, att, missed>>

\* state366Locked.
state366(l) ==
    /\ IF l.c \in DOMAIN chans THEN Put(l.c, [chans[l.c] EXCEPT !.known = TRUE]) ELSE UNCHANGED chans
    /\ Then({}, {}, {}, 0)
    /\ UNCHANGED <<stream, registered, selfNick, orphan, pend, due, joins, names, att, missed>>

\* HandleDisconnect: everything is forgotten; clients of a registered session are closed.
\* The NAMES that a resume still owes stay owed.
HandleDisconnect ==
    /\ registered' = FALSE /\ chans' = <<>> /\ pend' = {}
    /\ selfNick' = 0 /\ orphan' = FALSE
    /\ att' = IF registered THEN "no" ELSE att
    /\ Then({}, {}, {}, 0)
    /\ UNCHANGED <<stream, due, joins, names, missed>>

\* completeRegistration; the 001 named our nick.
completeRegistration ==
    /\ registered' = TRUE
    /\ selfNick' = 0
    /\ Then({}, {}, {}, 0)
    /\ UNCHANGED <<stream, chans, orphan, pend, due, joins, names, att, missed>>

\* maybeJoinOnInvite: a channel of the table that we are not on.
maybeJoinOnInvite(l) ==
    /\ joins' = IF l.c \in store \ DOMAIN chans THEN [joins EXCEPT ![l.c] = "auto"] ELSE joins
    /\ Then({}, {}, {}, 0)
    /\ UNCHANGED <<stream, know, names, att, missed>>

\* HandleLine of the next line.
HandleLine ==
    /\ Handling
    /\ LET l == q[pos] IN
       \/ l.t = "JOIN" /\ stateJOIN(l)
       \/ l.t = "PART" /\ statePartKick(l)
       \/ l.t = "QUIT" /\ stateQUIT(l)
       \/ l.t = "NICK" /\ stateNICK(l)
       \/ l.t = "SELFNICK" /\ stateSelfNICK(l)
       \/ l.t = "MODE" /\ stateMODE(l)
       \/ l.t = "353" /\ state353(l)
       \/ l.t = "366" /\ state366(l)
       \/ l.t = "INVITE" /\ maybeJoinOnInvite(l)
       \/ l.t = "DOWN" /\ HandleDisconnect
       \/ l.t = "UP" /\ completeRegistration
    /\ UNCHANGED <<link, real, rops, nick, brain, kept, snap, view, fault, wanted, overtaken, bounds>>

----------------------------------------------------------------------------
(* What follows once the lock is given up.                                  *)

\* Mutant of PushBlob: a self-JOIN no client asked for leaves the blob alone.
PushSavedOnly ==
    /\ cur.at = "blob"
    /\ blob' = (blob \cup cur.save) \ cur.del
    /\ blobNick' = IF cur.nick # 0 THEN cur.nick ELSE blobNick
    /\ cur' = [cur EXCEPT !.at = "store"]
    /\ UNCHANGED <<ircd, stream, brain, know, store, client, hist, bounds>>

\* The pushes of persistChannel, pushChannelBlobFromStore and persistRemoveChannel,
\* and of the nick.
PushBlob ==
    /\ cur.at = "blob"
    /\ blob' = (blob \cup cur.add) \ cur.del
    /\ blobNick' = IF cur.nick # 0 THEN cur.nick ELSE blobNick
    /\ cur' = [cur EXCEPT !.at = "store"]
    /\ UNCHANGED <<ircd, stream, brain, know, store, client, hist, bounds>>

\* Mutant of WriteStore: the channel we left stays in the table.
StoreNeverForgets ==
    /\ cur.at = "store"
    /\ store' = store \cup cur.save
    /\ cur' = [cur EXCEPT !.at = "fan"]
    /\ UNCHANGED <<ircd, stream, brain, know, blob, blobNick, client, hist, bounds>>

\* AddChannel and RemoveChannel, and the driver's list with them (syncUplinkChannels).
WriteStore ==
    /\ cur.at = "store"
    /\ store' = (store \cup cur.save) \ cur.del
    /\ cur' = [cur EXCEPT !.at = "fan"]
    /\ UNCHANGED <<ircd, stream, brain, know, blob, blobNick, client, hist, bounds>>

\* Mutant of Hears: a client hears the others once its burst is over.
HearsAfterBurst == att = "on"

\* The client is among the downlinks from the start of its burst.
Hears == att # "no"

\* The line goes out to the clients, one that is in the middle of its burst too.
FanOut ==
    /\ cur.at = "fan"
    /\ LET l == q[pos] IN
       /\ overtaken' = IF att = "burst" /\ l.t = "PART" /\ l.n = "self"
                       THEN overtaken \cup (snap \cap {l.c}) ELSE overtaken
       /\ view' = CASE Hears /\ l.t = "JOIN" /\ l.n = "self" -> view \cup {l.c}
                 [] Hears /\ l.t = "PART" /\ l.n = "self" -> view \ {l.c}
                 [] OTHER -> view
    /\ pos' = pos + 1
    /\ cur' = Idle
    /\ UNCHANGED <<ircd, q, brain, know, kept, att, snap, fault, wanted, missed, bounds>>

\* The acknowledgement arrives at the keeper.
Ack ==
    /\ pos > 1
    /\ q' = Tail(q) /\ pos' = pos - 1
    /\ UNCHANGED <<ircd, brain, know, cur, kept, client, hist, bounds>>

----------------------------------------------------------------------------
(* The brain comes and goes.                                                *)

Forgotten ==
    /\ chans' = <<>> /\ pend' = {} /\ due' = {} /\ selfNick' = 0 /\ orphan' = FALSE
    /\ registered' = FALSE

Crash ==
    /\ brain = "on" /\ crashes < MaxCrash /\ crashes' = crashes + 1
    /\ brain' = "off" /\ cur' = Idle /\ Forgotten
    /\ pos' = 1
    /\ q' = SelectSeq(q, LAMBDA l : l.t \notin {"DOWN", "UP"})
    /\ att' = "no" /\ snap' = {} /\ view' = {}
    /\ UNCHANGED <<ircd, kept, hist, events, losses>>

\* seedChannelLocked.
seedChannel == [ms |-> {"self"}, ops |-> {}, known |-> FALSE]

\* SeedFromBlob, when the keeper says the network is connected.
SeedFromBlob ==
    /\ brain = "off" /\ link
    /\ brain' = "on" /\ registered' = TRUE
    /\ chans' = [c \in blob |-> seedChannel]
    /\ due' = blob
    /\ selfNick' = blobNick
    /\ UNCHANGED <<ircd, stream, orphan, pend, cur, kept, client, hist, bounds>>

\* A boot that finds the network down.
BootDown ==
    /\ brain = "off" /\ ~link
    /\ brain' = "on"
    /\ UNCHANGED <<ircd, stream, know, cur, kept, client, hist, bounds>>

\* After LiveReady: a NAMES for every channel of the blob.
RefreshResumedChannelNames ==
    /\ brain = "on" /\ due # {}
    /\ due' = {} /\ names' = IF link THEN names \cup due ELSE names
    /\ UNCHANGED <<link, real, rops, nick, joins, stream, brain, registered, chans, selfNick,
                   orphan, pend, cur, kept, client, hist, bounds>>

----------------------------------------------------------------------------
(* A client.                                                                *)

\* Attach to a registered session: the channels are read under the lock ...
Attach ==
    /\ brain = "on" /\ registered /\ att = "no"
    /\ att' = "burst" /\ snap' = DOMAIN chans /\ view' = {} /\ overtaken' = {}
    /\ UNCHANGED <<ircd, stream, brain, know, cur, kept, fault, wanted, missed, bounds>>

\* ... and sent without it.
Burst ==
    /\ att = "burst"
    /\ att' = "on" /\ view' = view \cup snap /\ snap' = {}
    /\ UNCHANGED <<ircd, stream, brain, know, cur, kept, hist, bounds>>

\* JOIN of a client: rememberJoinKeys, then on to the ircd.  Nobody asks for a channel
\* a second time before the answer to the first.
ClientJoin(c) ==
    /\ att = "on" /\ link /\ registered /\ joins[c] = "no" /\ "self" \notin real[c]
    /\ \A i \in pos .. Len(q) : ~(q[i].t = "JOIN" /\ q[i].c = c)
    /\ events < MaxEvents /\ events' = events + 1
    /\ pend' = pend \cup {c}
    /\ joins' = [joins EXCEPT ![c] = "client"]
    /\ UNCHANGED <<link, real, rops, nick, names, stream, brain, registered, chans, selfNick,
                   orphan, due, cur, kept, client, hist, crashes, losses>>

\* NAMES of a client.
ClientNames(c) ==
    /\ att = "on" /\ link /\ registered /\ c \notin names
    /\ c \in DOMAIN chans \/ fault = "stranger"
    /\ events < MaxEvents /\ events' = events + 1
    /\ names' = names \cup {c}
    /\ UNCHANGED <<link, real, rops, nick, joins, stream, brain, know, cur, kept, client, hist,
                   crashes, losses>>

----------------------------------------------------------------------------
(* The ircd: external.                                                      *)

On == {c \in Chans : "self" \in real[c]}

Say(ls) == Len(q) + Len(ls) <= MaxQueue /\ q' = q \o ls

Happens == link /\ events < MaxEvents /\ events' = events + 1

\* Of what happens on a channel we hear while we are on it.
SayOn(c, l) == IF c \in On THEN Say(<<l>>) ELSE UNCHANGED q

NamesLines(c) == <<[t |-> "353", c |-> c, ms |-> real'[c], ops |-> rops[c]], [t |-> "366", c |-> c]>>

Quiet == <<pos, brain, know, cur, kept, client, fault, missed, overtaken, crashes, losses>>

\* A JOIN of ours is granted or refused.
AnswerJoin(c) ==
    /\ link /\ joins[c] # "no" /\ joins' = [joins EXCEPT ![c] = "no"]
    /\ \/ /\ c \notin On
          /\ real' = [real EXCEPT ![c] = @ \cup {"self"}]
          /\ Say(<<[t |-> "JOIN", c |-> c, n |-> "self"]>> \o NamesLines(c))
          /\ wanted' = IF joins[c] = "client" THEN wanted \cup {c} ELSE wanted
       \/ UNCHANGED <<real, q, wanted>>
    /\ UNCHANGED <<link, rops, nick, names, Quiet, events>>

\* NAMES of a channel we are not on, or no longer: the ircd need not tell.
AnswerNames(c) ==
    /\ link /\ c \in names /\ names' = names \ {c}
    /\ UNCHANGED real
    /\ Say(IF c \in On \/ fault = "stranger" THEN NamesLines(c) ELSE Tail(NamesLines(c)))
    /\ UNCHANGED <<link, rops, nick, joins, wanted, Quiet, events>>

OtherJoin(c, n) ==
    /\ Happens /\ n \notin real[c]
    /\ real' = [real EXCEPT ![c] = @ \cup {n}]
    /\ SayOn(c, [t |-> "JOIN", c |-> c, n |-> n])
    /\ UNCHANGED <<link, rops, nick, joins, names, wanted, Quiet>>

\* A PART or a KICK, ours too.
Leave(c, n) ==
    /\ Happens /\ n \in real[c]
    /\ real' = [real EXCEPT ![c] = @ \ {n}]
    /\ rops' = [rops EXCEPT ![c] = @ \ {n}]
    /\ wanted' = IF n = "self" THEN wanted \ {c} ELSE wanted
    /\ SayOn(c, [t |-> "PART", c |-> c, n |-> n])
    /\ UNCHANGED <<link, nick, joins, names, Quiet>>

Shared(n) == {c \in On : n \in real[c]}

Quit(n) ==
    /\ Happens /\ Shared(n) # {}
    /\ real' = [c \in Chans |-> real[c] \ {n}]
    /\ rops' = [c \in Chans |-> rops[c] \ {n}]
    /\ Say(<<[t |-> "QUIT", n |-> n, cs |-> Shared(n), done |-> FALSE]>>)
    /\ UNCHANGED <<link, nick, joins, names, wanted, Quiet>>

Rename(n, m) ==
    /\ Happens /\ Shared(n) # {} /\ \A c \in Chans : m \notin real[c]
    /\ real' = [c \in Chans |-> Renamed(real[c], n, m)]
    /\ rops' = [c \in Chans |-> Renamed(rops[c], n, m)]
    /\ Say(<<[t |-> "NICK", n |-> n, to |-> m, cs |-> Shared(n), done |-> FALSE]>>)
    /\ UNCHANGED <<link, nick, joins, names, wanted, Quiet>>

SelfRename ==
    /\ fault = "rename" /\ Happens /\ nick' = nick + 1
    /\ Say(<<[t |-> "SELFNICK", old |-> nick, new |-> nick + 1]>>)
    /\ UNCHANGED <<link, real, rops, joins, names, wanted, Quiet>>

Op(c, n) ==
    /\ Happens /\ n \in real[c] \ rops[c]
    /\ rops' = [rops EXCEPT ![c] = @ \cup {n}]
    /\ SayOn(c, [t |-> "MODE", c |-> c, n |-> n, on |-> TRUE])
    /\ UNCHANGED <<link, real, nick, joins, names, wanted, Quiet>>

Deop(c, n) ==
    /\ Happens /\ n \in rops[c]
    /\ rops' = [rops EXCEPT ![c] = @ \ {n}]
    /\ SayOn(c, [t |-> "MODE", c |-> c, n |-> n, on |-> FALSE])
    /\ UNCHANGED <<link, real, nick, joins, names, wanted, Quiet>>

Invite(c) ==
    /\ Happens /\ c \notin On
    /\ Say(<<[t |-> "INVITE", c |-> c]>>)
    /\ UNCHANGED <<link, real, rops, nick, joins, names, wanted, Quiet>>

\* The connection is lost: the keeper clears the blob at once.
Lose ==
    /\ link /\ losses < MaxLoss
    /\ fault = "late" \/ (brain = "on" /\ registered /\ q = <<>>)
    /\ link' = FALSE /\ blob' = {} /\ blobNick' = 0
    /\ real' = [c \in Chans |-> real[c] \ {"self"}]
    /\ joins' = [c \in Chans |-> "no"] /\ names' = {}
    /\ q' = IF brain = "on" THEN Append(q, [t |-> "DOWN"]) ELSE q
    /\ losses' = losses + 1
    /\ UNCHANGED <<rops, nick, pos, brain, know, cur, store, client, hist, events, crashes>>

\* The driver dials again and joins the channels of the table.
Redial ==
    /\ ~link /\ brain = "on" /\ Len(q) < MaxQueue
    /\ fault = "late" \/ q = <<>>
    /\ link' = TRUE /\ nick' = 0
    /\ joins' = [c \in Chans |-> IF c \in store THEN "auto" ELSE "no"]
    /\ q' = Append(q, [t |-> "UP"])
    /\ UNCHANGED <<real, rops, names, wanted, events, Quiet>>

----------------------------------------------------------------------------
Init ==
    /\ fault \in Faults
    /\ link = TRUE /\ nick = 0 /\ q = <<>> /\ pos = 1
    /\ real = [c \in Chans |-> {}] /\ rops = [c \in Chans |-> {}]
    /\ joins = [c \in Chans |-> "no"] /\ names = {}
    /\ brain = "on" /\ registered = TRUE
    /\ chans = <<>> /\ selfNick = 0 /\ orphan = FALSE /\ pend = {} /\ due = {}
    /\ cur = Idle
    /\ blob = {} /\ blobNick = 0 /\ store = {}
    /\ att = "on" /\ snap = {} /\ view = {}
    /\ wanted = {} /\ missed = FALSE /\ overtaken = {}
    /\ events = 0 /\ crashes = 0 /\ losses = 0

Session == HandleLine \/ PushBlob \/ WriteStore \/ FanOut \/ Ack \/ RefreshResumedChannelNames
Brain == Crash \/ SeedFromBlob \/ BootDown
Client == Attach \/ Burst \/ \E c \in Chans : ClientJoin(c) \/ ClientNames(c)
Network ==
    \/ Lose \/ Redial \/ SelfRename
    \/ \E c \in Chans : \/ AnswerJoin(c) \/ AnswerNames(c) \/ Invite(c) \/ Leave(c, "self")
                        \/ \E n \in Others : OtherJoin(c, n) \/ Leave(c, n) \/ Op(c, n) \/ Deop(c, n)
    \/ \E n \in Others : Quit(n) \/ \E m \in Others : Rename(n, m)

Next == Session \/ Brain \/ Client \/ Network

Spec == Init /\ [][Next]_vars

----------------------------------------------------------------------------
\* Every line the ircd sent was handled.
CaughtUp == brain = "on" /\ link /\ registered /\ cur = Idle /\ pos > Len(q)

\* The session is on the channels that it is on.
OnTheseChannels == CaughtUp => DOMAIN chans = On

\* So it is after any number of crashes and losses, unless somebody's NAMES of another
\* channel made one, or a loss found the session behind.
ChannelsReal == fault \notin {"rename", "stranger", "late"} => OnTheseChannels

\* A roster that counts as known is the real one.
RosterTrusted == CaughtUp => \A c \in DOMAIN chans \cap On : chans[c].known => chans[c].ms = real[c]

\* It is once the NAMES of a resume was answered (RosterKnown, state366Locked), unless a
\* NAMES filled it before we were on the channel, or a loss found the session behind.
RosterReal == (fault \notin {"stranger", "late"} /\ due \cup names = {}) => RosterTrusted

\* The session's channels and rosters are the ircd's, whatever was resumed from the blob.
StateReal == ChannelsReal /\ RosterReal

\* Nobody is shown as an op who is not (namesListLocked).
OpsReal == CaughtUp => \A c \in DOMAIN chans \cap On : chans[c].ops \cap chans[c].ms \subseteq rops[c]

\* The channel table is what the users asked for.
StoreIsRight == CaughtUp => store = wanted

\* As above, as long as no brain died and no loss found the session behind.
StoreIsWanted == (crashes = 0 /\ fault # "late") => StoreIsRight

\* A client that watches every line is on the channels the session is on.
ClientIsRight == (CaughtUp /\ att = "on") => view = DOMAIN chans

\* As above, whatever the demux relayed during the burst, but for a channel whose PART
\* overtook the burst that names it; unless a NAMES made the channel or a loss found
\* the session behind.
ViewReal ==
    (fault \notin {"stranger", "late"} /\ CaughtUp /\ att = "on") =>
        view \ overtaken = DOMAIN chans \ overtaken

\* A QUIT or a NICK is in the history of every channel it was seen on.
HistoryIsWhole == ~missed

\* As above, as long as no brain died: the blob has no rosters.
QuitStored == crashes = 0 => HistoryIsWhole
=============================================================================
