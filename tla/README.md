# GoBNC: models, checks and proofs

GoBNC is an IRC bouncer in two processes. The *keeper* owns the sockets to the
IRC networks and little else; the *brain* owns everything that may change in a
release: registration, channel state, clients, history. They talk over a Unix
socket, so that a brain can crash or be replaced while the uplinks stay up.
That split is where the program is hard: two processes, many goroutines, frames
and timers that overtake one another, and state that has to survive the death
of the process that derived it. The modules here follow that split.

## Inventory

| component | state it keeps | operations | talks to | what makes it correct |
|---|---|---|---|---|
| keeper ring (`keeper/ring.go`) | circular array, oldest index, length, count of evictions | `push`, `since`, `lastSeq` | the keeper | holds the newest lines; `since` is exact, and says so when it cannot be |
| keeper network (`keeper/keeper.go`, `blob.go`) | connection, epoch, seq counter, ring, blob, acknowledged watermark, subscribers | `Dial`, `Close`, `QuitClose`, `readLoop`, `Subscribe`, `SubscribeLines`, `AckSeq` | ircd, listener | a connection is always read; seqs are unique; events pair up; a deliberate close is silent; `Close` returns |
| listener, live session (`keeper/listener.go`, `manager.go`) | the live slot; per session a wait group, fan-ins with a watermark | Hello, requests, fan-in of lines and events, teardown | brain | one live brain; the feed is gapless and in order; the slot is never leaked; teardown ends |
| protocol and client (`keeper/protocol.go`, `client.go`) | frames | encode, decode, attach | both sides | version negotiation; FIFO per direction |
| driver (`brain/driver.go`, `reconnect.go`, `keepalive.go`) | registration state, epoch, stop flag, timers per network | `Run`, `Dial`, `StartRegistration`, redial, deadline, keepalive, `StopNetwork`, `Reconnect` | keeper, demux, operator | a wanted network that is down is dialed again; a stopped one stays down; no registration stalls |
| registration (`registration/*.go`) | phase, capabilities, SASL exchange, nick | `Start`, `Step`, `StepPost` | ircd | every attempt ends; required SASL is honoured; the nick ladder is climbed to its end |
| nick recovery (`brain/nickrecovery.go`) | loop, pending ISON, hold, current nick | tick, 303, self NICK, client NICK | ircd, clients | the primary nick is regained when free; a client's choice stands |
| demux (`server/demux.go`) | none of its own | apply a line, push the blob, acknowledge | driver, sessions | acknowledged means durable |
| server lifecycle (`server/server.go` ...) | sessions, networks, handoff | boot, resume, start, stop, rehash, reload | driver, keeper, admin | one brain serves; what was asked for last is what there is in the end; no brain's end takes the uplinks with it |
| session (`session/*.go`) | channels, users, capabilities, clients, held messages | lines from the uplink, commands from clients | driver, downlinks | state equals the ircd's; what is stored and shown equals the state; a held command goes up once |
| reply tracker (`session/tracker.go`) | queries in flight, held writes | track, match, expire | session | a reply reaches its asker; a held write is released |
| SASL passthrough (`session/sasl.go`) | who authenticates, what is offered, who waits | request, relay, outcome | clients, ircd | an exchange has one owner; whoever asks is answered; clients know the offer |
| read markers, history, playback | markers, stored messages | mark, replay | store, clients | markers only move forward; each message once |
| downlink (`downlink/downlink.go`) | slots, handshake, send queue, keepalive | serve, authenticate, send, close | clients, session | slots come back; no line lost silently; a rehash does not end the listener |
| flood control (`flood/`, `brain/flood.go`) | token buckets, queue | take, refill | driver | never above the rate; in order |
| keeper bootstrap (`keeperboot/`), `daemon/`, the command lines | lock, pid files, socket paths | find or spawn, start, stop, die, reload | keeper, brains | the keeper that has the uplinks is the one behind the socket |
| store, admin, config, irc parsing, logging | | | | plumbing, pure parsing or SQL; see `PROJECT.json` |

How they interact: the brain's requests and the keeper's frames are two FIFOs;
inside the keeper every request runs in a goroutine of its own and every
network has a fan-in goroutine that selects over two channels (lines, events)
and an overflow signal. Inside the brain `Run` takes the frames one by one and
hands lines to the demux over a bounded channel; timers, the keepalive, the
recovery loop and the operator's commands touch the same maps from other
goroutines. A session is called by the demux, which is one goroutine, and by
the handler of every client, which has its own; `Session.mu` is held for a few
assignments at a time, so that almost every operation is several steps. Brains
and keepers meet in the file system: pid files, a lock, two sockets and a port,
which each of them looks at one after the other.

What is hard to test here, and at which line, is the `hazards` list of
`PROJECT.json`; the properties below were chosen from it.

## Modules

* `Ring`: the keeper's line buffer as sequences (`Push`, `Since`, `SinceOK`),
  as the other modules use it.
* `RingBuffer`: the same buffer as the code has it, a circular array with
  `start`, `len` and wrap-around. `RingLog` is what it promises, a bounded log;
  `ImplementsLog` says that `RingBuffer` refines it under the mapping that reads
  the array from `start`.
* `Keeper`: one network of the keeper. State: the fields of `Keeper`
  (`conn`, `epoch`, `seqCounter`, `ring`, `blob`, `deliveredSeq`), the feeds of each
  subscriber, and one program counter per goroutine inside `Dial`, `Close` or
  `QuitClose`, and `readLoop`. An action is one region under `k.mu`, or one
  visible step between two of them. A connection is identified by its epoch; a
  socket that is open but no longer read stays in `alive`.
* `LiveSession`: extends `Keeper` with attaches and the brain: `handleConn`'s
  Hello and HelloAck, `serveLive`, the request loop, `handleDial`,
  `handleClose`, `handleBlobPush`, the fan-in with catch-up, overflow and the
  drain before an event, and in the brain `Run`, the bounded `Driver.lines`, the
  demux's process, push, acknowledge, a blob push that times out, a crash at any
  point and the successor that is seeded from the keeper's blob.
* `Listener`: the connection handler: negotiation, refusals, the live slot and
  its two releases, the wait group with its `stopped` flag, the teardown with
  its two-second limit.
* `Driver`: the brain's view of one network: `Run`, redial timer, deadline,
  keepalive, `StopNetwork`, `Reconnect` with its wait for a CloseResult and what
  becomes of it when that is late, `StartRegistration` from the demux; the keeper
  reduced to what it shows the driver.
* `Registration`: the state machine of `internal/registration` as operators
  with the code's names, driven by `Driver.handleLine`, and nick recovery with
  its loops; Session's part in asking for SASL again; an ircd with its SASL
  agent, services, other users and a client as the environment.
* `Tracker`: `RequestTracker` between `forwardSolicitous`, `Detach`,
  `HandleMessage` and the ircd. The tracker's maps of queues are one set of
  pending requests that name their map and key; `Begin` coalesces, queues or
  holds, `Reply` routes a numeric and pops heads as `routeLocked` does for its
  kind, `Forget` is what `popWaiters`, the sweep by age and `DropClient` do to
  the queue behind a head. Labels, WHOX tokens and the queue of an uplink with
  neither are three kinds of uplink. The ircd answers in pieces and in any order
  its kind allows.
* `Session`: `Attach`, its replay, `Detach`, `HandleRegistrationLine`,
  `completeRegistration`, the hold, the flush and the duplicates it looks for,
  `HandleDisconnect`. The steps are the regions under `Session.mu`; `job` says where a
  client's goroutine is between two of them and `demux` where the demux is.
* `Sasl`: `bouncerOwnsSASLLocked` and everything that reads it: the CAP lines of
  the uplink, `RequestClientSASL`, `forwardClientAuthenticate`, the outcome
  numerics, the loss of the uplink. `StepPost` of the driver runs before the
  session on each line, as the driver does. `mix` is whose `AUTHENTICATE` the ircd
  has seen in the exchange under way. A client's goroutine is between two locked
  regions while `job` says so: between the look at the offer and the CAP NEW of its
  attach (`tell`), between the check and the queue of waiters (`wait`), between the
  claim of the exchange and the write (`write`); whatever the demux does, a loss
  too, may come there. `usable` is what the driver can pick of the ircd's mechanisms,
  `able` whether it has what the pick needs, `mechs` what the session takes for
  usable: they differ for EXTERNAL without a certificate. `met` collects the kinds
  of trouble a behaviour has met.
* `Roster`: `applyState` with the handlers of JOIN, PART, KICK, QUIT, NICK, MODE
  and NAMES for the members of a channel, what it derives into the blob and
  then into the channel table, resume from the blob, the attach burst, and the
  targets of the history, against an ircd that really has the members. A client in
  its burst hears what the demux relays meanwhile; `overtaken` is history, the
  channels whose PART reached it before the burst that names them. What the
  keeper promises (in order, again from the acknowledgement on) is taken from
  `LiveSession`.
* `Lifecycle`: brains and keepers as processes: `runServe`, `EnsureRunning` under its
  lock, `Server.Run` and its end, `runReloadHandoff` with its relay and timeout,
  the replacement's side of it, the keeper's `main`, and the operator's `start`,
  `stop`, `reload` and `die`. A path in the file system is a variable that holds
  who it names; a process reads and writes it where the code does.
* `Downlink`: the accept loop and its generation, slots, handshake, CAP
  negotiation, `authenticate`, the bounded queue with `writeLoop` and `Close`,
  the keepalive, `Attach` with `notifyAttachCaps` and the provisional session of
  a client that negotiates early, and `broadcastCapNotify`. A look at the offer and
  the reply that follows from it are two steps; the demux goes on between them.
  `misled` is history: the clients the code leaves with a wrong picture of the offer.
* `MCKeeper`, `MCLiveSession`, `MCListener`, `MCRegistration`, `MCTracker`, `MCSession`,
  `MCSasl`, `MCRoster`: the sets and symmetries the configurations use.
* `RingBufferProofs`, `ListenerProofs`, `LiveSessionProofs`, `LifecycleProofs`,
  `DownlinkProofs`, `TrackerProofs`, `SaslProofs`, `RegistrationProofs`: theorems
  about the module each is named for. `LiveSessionProofs` holds those about
  `Keeper` too, which `LiveSession` extends.

How they fit: `LiveSession` composes `Keeper` with listener, wire and brain; what
it shows of the feed (whole, resumable, a loss after its lines) is what `Roster` and
`Session` take as their input. `Listener` is the same connection handler with
the goroutines `LiveSession` abstracts. `Driver` takes registration as an oracle,
`Registration` takes the connection as given. `Sasl` and `Downlink` meet at the
offer: one decides it, the other tells it to clients that may not be attached
yet. `Lifecycle` starts and ends the processes whose insides the others are.

A definition has the name of the code it models where there is one function
for it; a function that gives up a lock or waits in the middle is several
actions (`DialStart`, `DialInstall`, `DialPublish`). Definitions marked as
mutants are plausible bugs of the code, used to see that a property notices
them; no specification uses them.

Data is abstract: a line is its seq, a payload its length, a nick a short
sequence of letters, a blob the set of lines whose effect it holds (in `Roster`
a set of channels), a reply the numeric and the one parameter that routing reads,
capabilities are sasl and one other. Control is kept: the early returns and error
paths of the functions named in `PROJECT.json` are there, but for those listed
under *Not modelled*.

## Runs

| run | instance | question |
|---|---|---|
| `ring_buffer` | capacity 3, 16 lines | Does `since` report a gap exactly when a line is gone, and does the array implement the promised log, through five turns? |
| `keeper_lifecycle` | 2 dialers, 1 closer, 1 subscriber, 2 connections, 2 lines, ring and feeds of 1 | Do overlapping `Dial`, `Close`, `QuitClose` and two read loops keep the connection read, the seqs unique, the events paired and a deliberate close silent, and does `Close` never wait for nothing? |
| `live_resume` | 2 attaches, 2 connections, 2 lines, feed of 1, ring of 2, 1 Reconnect, 1 killed attach, at most 3 changes | Whatever dies, is lost, overflows or is reconnected: does the successor resume complete, from a feed without gap or repetition, and does a loss come after its lines? |
| `listener_attach` | 2 connections, 2 goroutines each, every Hello around version range 1..2, fair | Is the slot never leaked, no goroutine added to a session being waited for, and does teardown end? |
| `driver_redial` | 2 connections and 1 command, or 1 connection and 2 commands, fair | Is a wanted network redialed, no registration left alone, a stopped network left down? |
| `registration` | 4 nick setups, 50 SASL setups, 2 moves of others, 2 loops, fair | Do attempts and exchanges end, is SASL honoured, the ladder climbed, the nick tracked and regained? |
| `tracker` | 2 clients, 2 requests out of 13 kinds, 3 kinds of uplink | Is a held write never left behind nobody, and does a reply that only one request can have caused go to its askers? |
| `session` | 2 clients, 2 commands of 2 kinds each, 2 connections, 2 registration lines | Is what clients ask for while the network registers forwarded exactly as often as asked, and is every registration line seen once? |
| `sasl` | the bouncer and 2 clients, 2 CAP NEW or DEL, 3 AUTHENTICATEs; one kind of trouble of seven: NAKs, withdrawals, leavers, overlaps, losses | Has an exchange one owner, is whoever asked answered, is the offer known, and is sasl held back only for a reason? |
| `roster` | 1 channel, 2 others, 4 events, 1 crash, 1 loss | Do session, blob, channel table, client and history agree with the ircd? |
| `lifecycle` | 3 brains, 2 keepers, 3 commands, 1 crash, fair | Does a keeper with uplinks stay reachable, does it end as asked, does everyone settle, and is no uplink lost with a brain? |
| `downlink` | 2 clients (one negotiates), 1 slot, queue of 1, 2 sessions, 2 events, 2 CAP commands | Are slots returned, no line lost silently, the offer known, and does the accept loop survive a rehash? |

Some properties are conjunctions that a run checks together: `EventsTruthful`
(`EventsPaired`, `CloseIsSilent`), `StreamWhole` (`RingContiguous`, `FeedInOrder`),
`NickSound` (`NickTracked`, `HeldIsIdle`), `ExchangesEnd`
(`RegistrationEnds`, `ExchangeEnds`, `LadderExhausted`), `ForwardedExactly` (`ForwardedOnce`,
`ForwardedAtAll`), `ExchangeOwned` (`OneExchange`, `OutcomeToOwner`), `StateReal`
(`ChannelsReal`, `RosterReal`), `EndsAsAsked` (`StaysServed`, `StopIsHeeded`),
`NothingLeft` (`SlotsCounted`, `NoGhost`), `ToldOrLetGo` (`NoHoleInFeed`,
`RefusedIsTold`).

Why the bounds are enough: the races are between two connections (an old and a
new one), two attaches (a dead and a live brain), two callers, two loops, two
clients that share something, and the instances have those; a third of each
repeats a pattern. Lifecycle has three brains because a reload that fails leaves
two and the next one starts a third. A ring, a feed or a queue of 1 is full at
once, which is the case of interest. Capacity 3 lets the array wrap at every
offset. SASL payloads of 1, 2 and 3 with chunks of 2 are below, at and above the
boundary; nicks of 1 to 3 letters against a limit of 2 are short, exact and cut.
`MaxChanges` bounds how many of attaches, connections, killed attaches,
overflowed feeds and reconnects (counted twice) one behaviour of `live_resume` has, so that any three of
them meet, but not all of them at once; the other configurations of
`MCLiveSession` raise it past their other bounds. `MaxMoves` of `driver_redial` bounds connections and
commands together: a genuine loss is ignored after two Reconnects of one connection, a second registration needs two
connections. `MaxTroubles = 1` lets a behaviour of
`sasl` meet one of the seven kinds, as often as it likes: each property excepts whole kinds, so that
what has to be seen is that the others do it no harm; the theorems have no such bound. `downlink_slots` (`SlotsComeBack`
under fairness, one event and one CAP command) is a larger check of the same module
that passes and is run by hand, as are `tracker` with `MaxReq = 3`, `Uplinks = {"plain"}` and
`Commands <- FewCommands`, and `live_acked` (`LinesAcked`: every line is in the end acknowledged, two attaches
and one line, no attach killed). Where the proofs cover a property the bound does
not matter.

Deadlock is checked in `keeper_lifecycle` only, where a subscriber can always come
or go, so that a deadlock would be everyone stuck; in the others the bounds on
lines, connections, requests, commands and events end every behaviour, and the
liveness properties, or invariants of quiet states, say what must have happened by then.

### Assumptions the configurations choose

* `SerialCallers` (`Keeper`, `LiveSession`): a caller waits for the result of a
  request before the next one. The brain's `Reconnect` does; two brains or two
  timers need not, so `keeper_lifecycle` runs without it. The runs about ring order
  and blob need it: without it the last line of an old connection may be pushed
  after the first of the new one. The theorems about the ring need only that this
  does not happen (`LinesApart`), those about the blob need serial callers.
* `Prompt` (`Driver`): a backoff of a second and the keepalive's minutes outlast
  work inside the two processes. They do not outlast a dial, nor is a CloseResult
  assumed to come in time.
* `cleanStop` (`StaysDown`): nothing was in flight at the stop. `StopIsFinal` is
  the unconditional claim and fails.
* `forgone` (`Redials`): history of the two ways in which the code gives a wanted
  network up, a Reconnect whose CloseResult did not come in its time and a loss that
  was taken for that of a replaced connection. Nothing is armed then.
  `AlwaysRedials` is the unconditional claim and fails.
* `Withdraws = FALSE` (`Registration`): the ircd does not withdraw sasl in the
  middle of an exchange.
* The ircd of `Registration` answers each line in order and sends the welcome up
  to the end of the MOTD without a rename in between.
* `Faults` (`Roster`, `Lifecycle`): the kinds of trouble of which a behaviour may meet
  one, drawn in the initial state; some steps can only be taken under their kind.
  A property that does not hold under a kind says so in its premise. `lifecycle` includes all
  kinds, so that a premise takes a kind from one property and not from the run; `roster` leaves out
  `stranger` and `late`, under which too little of its properties is left to be worth the states.
* `met` (`Sasl`), `misled` (`Downlink`), `overtaken` (`Roster`): history of what went wrong.
  No step is held back for their sake (but for the bound `MaxTroubles`); a
  property says which troubles, clients or channels it excepts, and its
  unconditional form is listed below with the configuration that refutes it.
* `Refusals = FALSE` (`Tracker`): servers do not answer 402, 403 or 482. With them
  a reply names too little to be routed (`tracker_faults`).
* `Plain` (`Downlink`): one of the two clients registers without negotiating and
  stays; it competes for the slot.
* `Tracker` and `Downlink` take one network; `Roster` one session and one client.

### Fairness

Weak fairness, per goroutine, of steps that are local to a process: taking the
next frame, serving a request, a timer that is armed. A dial is assumed to end,
one way or the other (it has a timeout); lines, losses, crashes, commands and
other users are not assumed to happen. A loop's exit is strongly fair: a Go
`select` with two ready channels picks at random and does not pass over a closed
one for ever. `TeardownEnds` assumes nothing of the goroutines that are waited
for, as the code gives up on them after two seconds. `LinesAcked` assumes that a
brain which is not crashed goes on.

In `Lifecycle` every process, and every goroutine of a brain, that can take a step of
its own takes one; a wait with a timeout ends at the latest by it; `AllSettles`
assumes nothing of the operator except that a command once typed runs on, and
nothing of crashes. In `Downlink` the accept loop, the demux, each handler, its
writer and its keepalive go on; clients need do nothing, the keepalive finds them.

## Proofs

Each theorem holds for all values of the constants that satisfy the named
assumption of its module (`KeeperAssumption`, `LiveSessionAssumption` and so on:
bounds are natural numbers, capacities positive, sets of clients finite where
something counts them) and assumes nothing else, except where its statement says so. Every
invariant below is an inductive one: the initial states satisfy it, every
action keeps it, and it implies what the theorem says.

* `RingBufferProofs`: `RingInv` is `TypeOK /\ RetainsNewest` (entry `i` from
  `start` has seq `dropped + i + 1`). A push into a buffer with room appends, one
  into a full buffer overwrites the oldest and moves `start`; both are lemmas about
  indices modulo `Cap`, which are proved first. From it: `KeepsNewest`,
  `GapsReported` (`since` reports a gap exactly when an entry after the watermark
  is gone) and `Implements` (the refinement of `RingLog`).
* `LiveSessionProofs` about `Keeper`, in three layers. `ConnectedHasReader` is not inductive: that the
  connection is read has to survive the moment a `Dial` has installed it and not yet
  started the loop. `KeeperInv` adds `DialOwnsEpoch` (an installed connection whose loop
  has not started belongs to exactly one caller of `Dial`), `EpochsFresh` (epochs not
  yet used have no loop) and `ReaderHasSeq`. `CallInv` adds what ties the event log to
  the loops (`LogMatchesLoops`: a connection whose loop has not started has no
  event, one whose loop has ended has its last) and a `Close` to what it took
  (`ClosersTookOld`: a used epoch that is no longer the current one, whose loop
  cannot come to announce a loss); from it `EventsAreTruthful` and `ClosesDoNotHang`.
  `SeqInv` says that no seq in the ring or in a loop's hands is ahead of the counter
  and that they differ from each other; from it `SeqsNeverReused`. The lemma
  `InvStep` gives the keeper's steps to other modules.
* `LiveSessionProofs` about `LiveSession`: `StreamIsWhole`: as long as no two loops have a
  line in hand (`LinesApart`), the ring has no hole,
  and what an attach sends follows on what it sent before, through crashes,
  catch-ups, overflows, reconnects and callers that overlap. The premise is a property of the
  behaviour and not of the constants: the case it leaves out, a loop that a `Close` still
  waits for and that pushes after the next connection's loop has read, does put a hole into the
  ring (TLC finds it for `RingContiguous` with `SerialCallers = FALSE` and a ring of 2), and nothing in the code
  rules it out when two callers overlap. `SInv` is the keeper's invariant, the types of frames
  and fan-ins, and `StreamInv`: the line in a loop's hands is the
  newest (`LineInHand`), so that the ring (`RingAtHead`) and each feed that has not
  overflowed (`FeedsAtHead`) end at what was last put into them, and a fan-in that
  reads a feed stands no further back than the feed begins (`FansInStep`). That
  `Since` of a ring without holes is the rest of it, in order, is the lemma
  `SinceIsRest`. `KeeperMoves` and `KeeperKept` show that the keeper inside the
  composition takes only steps of module `Keeper`, so that its theorems carry over.
  `FeedInOrder` excepts a read from a feed that has already overflowed: `fanInNetwork` may do
  that, and then skips what overflowed (`live_overflow_gap` in the table below).
  `LossComesLast`, under the same premise: of the lines that come out of a feed none follows the loss of its connection. `LossInv`
  says that a line in the keeper was read from the connection it names
  (`KeeperLinesKnown`), that a loss on its way is of a connection whose loop has ended
  (`LossesOver`), and that a feed an attach reads, or is about to read, is rid of the lines of
  every connection whose loss was forwarded on it (`FeedsRid`). The proof is why
  `LossAfterLines` speaks of what comes out of a feed, first or replaced, and not of attaches
  that never overflowed: after two overflows an attach is back in its first
  slot, and a fan-in that a late dial restarts begins in it, and both catch up from the ring.
  `AcksAreDurable` and `ResumeIsComplete`: however often brains die, and wherever, what is acknowledged
  is in the blob, and a brain that resumes from it knows every line of the live
  connection that comes before any it knows. Both assume `SerialCallers`, from which it follows that there is
  one call or one loop at a time (`OneAtATime`), and need `NothingLost`, which excludes the three
  ways in which the code loses a line and nothing else: a read from a feed that has
  overflowed (`HeedsOverflow`), a line dropped at a full `Driver.lines` (`KeepsUp`), and a
  first catch-up, at watermark 0, behind a line the ring has evicted
  (`StartsWhole`). Each of the three is a row of the table below, so none can be
  left out, and crashes, teardowns, attaches that are killed and losses of the connection
  stay in. `ResumeInv` follows the lines of the live connection from the ring to the blob: what is
  in the blob covers what is acknowledged (`BlobCov`), and goes on to when the frames
  on their way are applied in their order (`UpCov`); what the brain has derived covers what it
  has handled and acknowledges (`KnowCov`), and is in the blob or on its way there; and what it
  knows, with the lines in `Driver.lines`, on the wire and at the fan-in, one place
  after another, leaves no line out (`PipeCov`). None of these is inductive without the others: a
  line moves from one place to the next, and a crash leaves only the
  blob. A step that makes another connection the live one has nothing to show, since a new connection has no
  lines, and that the blob is then empty is the callers' (`Clears`). With the
  constants of `live_resume`, and without steps that lose a line, TLC finds `ResumeInv` true in all of 1.27
  million states.
* `ListenerProofs`: `ListenerInv` is `TypeOK`, `HelloKnown` (what a handler past
  the Hello has agreed to), `StoppedFirst` (a handler that waits has set the flag)
  and `SlotHeld`. From it: `SlotNeverLeaked`, `WaitIsFinal`, `AnswersSound`.
  `OneLiveButForLateRelease`: there are two live sessions only if `handleConn`'s deferred release takes the
  slot from a connection that has claimed it since (`LateRelease`, a step; `OneHolder`, who holds the slot,
  is the invariant). An attach that overlaps a session which winds down is in it.
* `LifecycleProofs`: `LifecycleInv` is `TypeOK`, `DieInv` when no commands overlap, and
  `SpawnInv` when moreover no wait times out and no boot dies with its keeper's pid
  file unwritten. `DieInv` says that between a die and the end of all it ends nobody
  boots (`NoBootMeanwhile`), which needs that who is dying was asked to, that a reload
  starts nothing beside it, and that no control listener answers before its brain is
  past the boot; from it `OnlyDieEndsUplinks`. `SpawnInv` says that there is one keeper at a time
  (`OneKeeper`): who is past the lock holds it, a keeper without a pid file has its
  spawner waiting for it, one with a pid file is named by it, and a die that
  waits for a keeper waits for the only one, so that the pid file it removes is not
  another's; from it `KeeperIsFound`. The attempt to prove these without their
  premises is how their limits were found, see below.
* `DownlinkProofs`: five invariants beside `TypeOK`. `ListenerInv` (the accept loop's
  generation is at most the current one, and if it is the current one so is its
  listener) for `ServeGoesOn`. `SessionInv` (a handler's session is one it was
  attached to, the jobs of the demux name a session, a lost session's clients were its own)
  and `SlotsCounted`, whose proof counts the set of handlers that hold a slot
  (`Held`), for `NothingIsLeft`. `FeedInv` (from the client's last line through its queue to its
  session's last line there is no hole, `Leads`) and `RefusalInv` (a refused client
  has the ERROR, or it is in its queue, or it is cut off) for
  `ClientsAreToldOrLetGo`. `OfferInv` is for `OffersAreKnown`. It speaks of the offer as a client
  is going to know it (`View`: the last word on each capability in its queue counts,
  else what it knows now) and says that a client is told only of what `capsSeen`
  notes (`Remembered`), goes by the offer of the network it named until it is attached
  (`BeforeAttach`), replies to no look at an offer that is out of date
  (`LookHolds`), and once attached misses only what the demux has still to tell it
  (`InSession`). `OfferKnown` alone is not inductive: what the demux owes
  (`Coming`, `Going`) is told only to clients with cap-notify, and `notifyAttachCaps` leaves out what
  `capsSeen` has, so `capsSeen` and the view have to agree on all that is on offer.
  It excepts the clients in `misled`, each from the moment the code leaves it with a wrong
  picture, and none else: a client for which the offer changes between the look and the reply
  (`Looking`), or shrinks where no CAP DEL reaches it (`Unreached`).
* `TrackerProofs`: `TrackerInv` says of the tracker at every point of a reply's
  handling that its queues hold requests that were made (`Requests`), of which no
  head is on hold (`NoneHeld`) and each has somebody present who waits for it (`WaitedFor`).
  Requests leave a queue in three ways, answered, with their client, or by age,
  and all three are `Forget` of some set, so the proofs are of `Forget` of any set.
  From it: `WritesAreReleased`, `TypeCorrect`.
* `SaslProofs`: `Base` holds whatever goes wrong: the line the demux has in hand at each
  step of its handling (`DemuxOK`), and that before a registration nobody asks for sasl
  or uses it, but for a goroutine left over from the connection before (`Alone`). `OffersAreTold` rests on
  `OfferInv` (who attaches and who is
  attached shares out the knowledge of the offer; a client whose CAP NEW is not
  written when the offer goes is `misled`). `AskersAnswered` follows a client's REQ
  through the waiters to its answer (`Waiting`, `Awaited`), `HeldBackForALogin` a login
  of the bouncer from the CAP NEW or the ACK it begins with through its REQ and its
  exchange to the outcome (`Tries`, `Pends`); for it the driver has to agree with the
  session on what was last offered (`Came`), and with the ircd on whether there is an exchange
  (`Driven`). `ExchangesAreOwned` is the mutual exclusion of clients and bouncer.
  Its heart is `Held`: whoever has an exchange with the ircd is the one `saslClient` names,
  or the bouncer if it names nobody, and of the bouncer's REQ, its
  exchange and an outcome still in the queue there is only one at a time. That is not inductive, since the
  code checks only its own two flags, which follow the lines handled so far. It
  needs that 901, DEL and NEW are handled in the order in which they were said
  (`Announced`), that by the time sasl is offered anew the session has forgotten
  everything of the old offer (`Forgotten`), that a registration begins with nothing
  of the last one (`Begins`), and that a bouncer that failed, whereupon clients may
  authenticate, was granted sasl before and so does not ask again (`Granted`). Each theorem
  excepts the kinds of trouble in the premise of its property, and no other: every one of
  them is a behaviour of the code that breaks the property.
* `RegistrationProofs`: two invariants, about what comes in what order through the
  two queues between brain and ircd. `RegInv` is for `RequiredSASLHonoured`: before the welcome
  capabilities are listed, asked for and granted in turn, each step being either at the ircd,
  on its way or handled (`Negotiation`); a success on its way is of an agent that was
  persuaded (`SuccessIsReal`); and until there is one, nothing that ends the negotiation is on
  its way (`HeldBack`). Nothing is assumed about the ircd withdrawing sasl.
  `NickInv` is for `NickIsTracked`, half of `NickIsSound`. Whoever starts with the nick the driver has
  and reads the renames still queued finds each to be of the nick he then has, and ends
  with the ircd's nick (`Chain`, `Follows`), which is why a driver that ignores renames of others
  ignores none of its own. Before the 001 there is no such chain to begin with, so it also needs that the 001
  comes before any rename (`WelcomeFirst`), that one nick at a time is asked for or refused until the
  registration is complete (`OneNick`), and that no nick is empty (`Named`; hence the assumption that the
  nick services give, `Guest`, is one). `HeldMeansIdle`, the other half, and `TypeCorrect` rest on `Recovery` and `LoopTypes`.
  The model writes "none" for the code's empty string, which the prover's SMT
  backend does not take.

Some theorems state what no run repeats, since the proof covers it for every
value of the constants: `KeepsNewest` (`RetainsNewest`), the `TypeCorrect`s, `AnswersSound`
(`AnswerSound`), `OneLiveButForLateRelease`, and the inductive invariants themselves.

Two limits of `Lifecycle` came out of the proofs, with larger instances than the
runs use. With 3 brains, 2 keepers and 4 commands of which two overlap, a start that is
refused leaves its own pid in the pid file; a die then does not wait for the brain
that serves, and a keeper started next is ended by the old brain's `AfterRun`. With
4 brains, 3 keepers and 5 overlapping commands, a die's `daemon.Stop` removes the pid file of the
new keeper after the old one is gone (daemon.go:171), and a later boot spawns a
second keeper over the path. Hence the premises `Alone` and `Calm` spell out.

Only model-checked: every liveness property (fairness and ENABLED are out of the
prover's reach); `TellableIsRouted` of `Tracker`; `EndsAsAsked` of
`Lifecycle`; `LadderExhausted` of `Registration`; and all of `Driver`, `Session` and
`Roster`. `LadderExhausted` is not true of every configuration:
`buildNickLadder` drops rungs that are equal in lower case, not those the ircd's case mapping
makes equal, and `nextNickInLadder` goes on from the last rung that is equal to the
refused one by that mapping. With the primary nick `{` and the alternative `[__` it takes
`[__` for `{__` and passes `{_` over. No configuration of the run has such a pair.

## Where the code and its comments part

Each of the following is a property that states what a comment, or the name of
an operation, says; TLC finds it violated with the configuration named, to be run
by hand (`tlc -config <cfg> <module>`; when a configuration lists several,
TLC stops at the first, so try them one at a time).

| configuration (module) | property | what happens |
|---|---|---|
| `live_overflow_gap` (MCLiveSession) | `FeedContiguous` | the select of `fanInNetwork`, or the drain before an event, reads the feed after its overflow; the lost line is skipped for good (keeper.go:365-371) |
| `live_overflow_gap` (MCLiveSession) | `LossAfterAllLines` | lines caught up after an overflow follow the loss of their connection (listener.go:811-813) |
| `listener_one_live` (MCListener) | `AtMostOneLive` | `handleConn`'s deferred release frees the slot of the next session (listener.go:383-384) |
| `driver_faults` (Driver) | `StopIsFinal` | a dial that succeeds after `StopNetwork` deletes the stop (reconnect.go:28-32) |
| `ring_dropped` (RingBuffer) | `DroppedOnlyUnread` | `dropped` counts lines that had been read (ring.go:52) |
| `keeper_faults` (MCKeeper) | `SelfCloseOnlyOnGap` | with a full ring the first line without a subscriber closes the uplink, acknowledged or not (keeper.go:168) |
| `keeper_faults` (MCKeeper) | `AtMostOneLiveSocket` | a read error leaves the socket open beside the next one (keeper.go:130) |
| `live_acked` with `MaxKills = 1` (MCLiveSession) | `LinesAcked` | another network's gap kills the attach; the brain ends its `Run` and stays, attached to nothing |
| `live_overflow_gap` with `MaxEpoch = 2` (MCLiveSession) | `BlobIsFresh` | a push in flight when the uplink dies lands in the next connection's blob (blob.go:89-91) |
| `live_overflow_gap` with `LinesBuf = 1` (MCLiveSession) | `AckedIsDurable` | a line dropped at the full `Driver.lines` is acknowledged by the next one (keeper.go:278-286) |
| `live_overflow_gap` with `RingCap = 1`, `MaxSession = 2` (MCLiveSession) | `ResumeComplete` | a watermark of 0 is exempt from the gap test (keeper.go:283-286) |
| `driver_faults` (Driver) | `RegistrationResolves` | a dial beside a dial keeps canceling the deadline (driver.go:38-41) |
| `driver_faults` (Driver) | `StaleLossIgnored` | a resumed network's old loss fails the new attempt (driver.go:510-518) |
| `driver_faults` (Driver) | `LossNotIgnored` | after two Reconnects a real loss is taken for a stale one (driver.go:519-523) |
| `driver_faults` (Driver) | `AlwaysRedials` | a Reconnect whose CloseResult is later than its timeout returns an error and dials nothing, with redial timer, deadline and keepalive already cleared: the network stays down; so it does after a real loss taken for a stale one (driver.go:578-581) |
| `driver_faults` (Driver) | `OpeningOnce` | two dial results in a row send one connection two openings (driver.go:680) |
| `driver_faults` (Driver) | `ConnectedSettles` | a deadline that loses its race still arms a redial (driver.go:738-739) |
| `nick_faults` (MCRegistration) | `OwnReplyConsumed` | a reply to recovery's own ISON reaches the clients after a stop (driver.go:879-881) |
| `nick_faults` (MCRegistration) | `ClientNickStands` | a client's NICK between the ISON reply and the reclaim is overridden (nickrecovery.go:90-93) |
| `sasl_withdrawn` (MCRegistration) | `ExchangeEnds` | CAP DEL in an exchange leaves `saslMech` set, so the next CAP NEW starts nothing (session/upstream.go:445-447) |
| `sasl_faults` (MCSasl) | `NeverInterleaved`, `OutcomeToItsClient` | a client that leaves, a CAP DEL, an outcome handled between a client's check and its `AUTHENTICATE`, or a loss there, frees the exchange the ircd is still in, and another starts its own into it, or is sent its outcome (sasl.go:49) |
| `sasl_faults` (MCSasl) | `AllAnswered` | the ACK, or the loss of the uplink, passes between the check and the queue of waiters: the client waits for an answer that has been, and after a loss so does whoever asks next, since the REQ that is taken for pending went nowhere (sasl.go:158-165) |
| `sasl_faults` (MCSasl) | `AlwaysTold` | a CAP DEL between the look at the offer and the CAP NEW of an attach: the client takes sasl for offered (replay.go:296-315) |
| `sasl_faults` (MCSasl) | `PendingIsReal` | EXTERNAL without a certificate is asked for and never begun (sasl.go:72-75); a NAK, or a CAP DEL under a login, leaves `bouncerSASLPending` set too; sasl is withheld for a login that is not there |
| `session_order` (MCSession) | `SeenInOrder` | a registration line relayed between `Attach` and its replay comes before the buffer's |
| `session_order` (MCSession) | `NothingHeldForGood` | a command whose goroutine saw no registration queues after the flush, and stays |
| `tracker_faults` (MCTracker) | `TellableIsRouted` | with refusals: a 402 or 403 names no command and ends the wrong exchange |
| `tracker_faults` (MCTracker) | `NoLateJoin` | a client coalesced into an exchange half answered gets the second half |
| `roster_faults` (MCRoster) | `OnTheseChannels` | the answer to a client's NAMES of a channel we are not on makes it ours; our own NICK, applied again by a successor that has the new nick already, puts another user in our place, whose JOINs are not ours; a 353 of the lost connection, handled after the loss, makes its channel again |
| `roster_faults` (MCRoster) | `RosterTrusted`, `HistoryIsWhole` | a brain that dies between the 353 and the 366 leaves its successor an empty roster that the 366 marks as known; a QUIT of one who is missing from it is stored nowhere |
| `roster_faults` (MCRoster) | `OpsReal` | a member who parts keeps his entry in the channel's modes: when he joins again he is shown as an op |
| `roster_faults` (MCRoster) | `StoreIsRight`, `ClientIsRight` | a client's JOIN that a brain dies over is answered to its successor, which does not know that a client asked and stores no key or channel; a PART relayed between a burst's snapshot and its end is undone by it |
| `lifecycle_faults` (Lifecycle) | `ServedIfWanted` | an old brain that ends before it has answered the handoff, or whose answer goes to the replacement of an earlier reload, has let go of the keeper for nobody (server.go:625-627) |
| `lifecycle_faults` (Lifecycle) | `KeeperOnItsPath` | a boot killed before its keeper listened, a wait that times out or a command that overlaps another leaves a keeper with no pid file; the next boot spawns a second one, which takes the path of the first and of its uplinks |
| `lifecycle_faults` (Lifecycle) | `StoppedIfWanted`, `NeverRefused` | timeouts that pass while a process is slow, or two commands together, leave a process nobody's pid file names; a start that follows a boot killed before its keeper listened is refused over that keeper's pid file |
| `downlink_faults` (Downlink) | `OfferAlwaysKnown` | an offer that changes between a handler's look and its reply, or that shrinks before it is attached, is never corrected (replay.go:287-290) |
| `downlink_faults` (Downlink) | `AttachedToCurrent` | `StopNetwork` takes the session off the server's maps and leaves its clients attached to it; a later start makes a new one they never see |

## Not modelled

Byte-level encoding of frames and lines, IRC parsing, ISUPPORT and case mapping
other than of nicks; TLS, bind addresses and proxies; file modes and peer
credentials; SQL statements, history queries, playback and read markers; text of
notices, BNC commands, CTCP; lengths of timeouts and backoffs; flood control's
buckets; the order and size limits of blob entries; `Retire` and
`RemoveNetwork`, which only tests call; `WriteRequest`; the contents of 002 to
005; certificates and the rest of a rehash other than the listener's. Topics,
modes other than op, away and account state of users; how a line is rewritten for
a client's capabilities. In `Driver` the registration is an oracle that completes,
fails or stalls; in `Registration` the connection is one that stays up.

Paths of the modelled functions that are left out:

* `Listener.Serve` of the downlink: an error of `Accept` other than that of a closed
  listener, which ends the loop (downlink.go:212-225), so that `ServeSurvives` is about
  swaps only.
* `Reconnect` in `LiveSession` always gets its CloseResult; that it may not, and gives up
  without dialing (driver.go:562-576), is in `Driver`.
* `completeRegistration`'s `notifyAttachCaps` to the clients that waited for the welcome
  (upstream.go:255-260) in `Downlink`: the broadcast just before it, on the same goroutine, has
  told them of everything and marked it as seen, so that it has nothing left to send.
* In `Sasl`: clients attach once the session is registered (a client that attaches earlier is in
  `Downlink` and `Session`); the check of the offer in `RequestClientSASL` and the answer that needs
  no REQ are one step, and so are `HasCap`, the check of the owner and the claim of
  the exchange in `forwardClientAuthenticate`; a CAP NEW that renews what is already on offer with other
  mechanisms does not come; the ircd's lines of a registration are queued at
  once, so that the answer to the REQ of a goroutine left over from the last connection comes after
  them; the connection is lost between two lines, since the loss comes to the demux like a line.
* In `Roster` the JOINs of a burst are one step at its end, so that a relayed PART either
  comes before them or after.

## Plan

Done: ring, keeper, live session, listener, driver, registration with nick
recovery; tracker, session, SASL passthrough, roster, lifecycle with bootstrap,
downlink; proofs about ring, keeper, live session, listener, lifecycle, downlink,
tracker, SASL passthrough and registration.

Next, most important first:

1. Proofs: `ForwardedExactly` and `SeenOnce` of `Session`, for which counting by `SelectSeq` has to
   become something the provers can expand.
2. An abstract `ReliableFeed` (a sequence of lines, delivered in order, resumed at
   the watermark) that `LiveSession` without overflow implements and `Roster` takes
   as its input.
3. `Flood`: token buckets over integers, and the line that is put back when an
   uplink is lost. Read markers and history: what is stored once when lines are
   applied again.
4. A registration split over two brains: `Registration` composed with the resume of
   `LiveSession`.
