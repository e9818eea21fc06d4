---------------------------- MODULE Registration ----------------------------
(***************************************************************************)
(* One connection's IRC registration and what keeps its nick afterwards:   *)
(* the state machine of internal/registration (Start, Step, StepPost, the  *)
(* SASL exchange, the nick ladder) and the nick recovery of                *)
(* internal/brain/nickrecovery.go, both driven by Driver.handleLine,       *)
(* against an ircd, the other users of the network and a client.           *)
(*                                                                         *)
(* A nick is a sequence of letters; Fold is the case mapping of the ircd   *)
(* (CaseRFC1459), under which "[" and "{" are the same letter.  Lines are  *)
(* records on a FIFO per direction.  Capabilities other than sasl are one, *)
(* "other"; a SASL payload is its length.  The mechanism "none" and the    *)
(* reason "none" are the code's empty strings.                             *)
(***************************************************************************)
EXTENDS Integers, Sequences, SequencesExt, Functions

CONSTANTS
  Networks,           \* network configurations, each with what its ircd supports
  Guest,              \* the nick services rename us to, and one a client may ask for
  DefaultNickLen,     \* defaultNickLen
  MaxUnderscoreTries, \* maxUnderscoreTries
  ChunkSize,          \* authenticateChunkSize
  Withdraws,          \* whether the ircd may withdraw sasl in the middle of an exchange
  MaxLoops,           \* bound: recovery loops alive at a time, stopped ones included
  MaxMoves            \* bound: moves of the other users, services and the client

Mechs == {"SCRAM-SHA-256", "PLAIN", "EXTERNAL", "OTHER"}

ASSUME RegistrationAssumption ==
  /\ \A n \in Networks :
       LET c == n.cfg  s == n.srv
       IN /\ c.primary \in Seq(STRING) /\ c.primary # <<>> /\ c.alt \in Seq(STRING)
          /\ {c.recovery, c.wanted, c.required} \subseteq BOOLEAN
          /\ c.cred \in {"password", "cert", "none"}
          /\ c.payload \in Nat
          /\ c.cred = "password" => c.payload > 0
          /\ {s.cap, s.split} \subseteq BOOLEAN /\ s.caps \subseteq {"sasl", "other"}
          /\ s.mechs \subseteq Mechs /\ s.nickLen \in Nat \ {0}
  /\ Guest \in Seq(STRING) /\ Guest # <<>>
  /\ DefaultNickLen \in Nat \ {0}
  /\ MaxUnderscoreTries \in Nat
  /\ ChunkSize \in Nat \ {0}
  /\ Withdraws \in BOOLEAN
  /\ MaxLoops \in Nat \ {0}
  /\ MaxMoves \in Nat

VARIABLES
  cfg,     \* brain.NetworkConfig
  srv,     \* what this ircd supports
  reg,     \* registration.State
  ses,     \* Session: whether sasl is among upCaps, and bouncerSASLPending
  current, \* Driver.currentNick, <<>> for unset
  rec,     \* nickRecStops (the loop it stops, 0 for nil), isonPending, nickRecHeld
  loop,    \* the recovery loops: where each is and the nicks it is about to ask for
  rx,      \* Run inside handleRecoveryISON or handleSelfNickChange
  client,  \* a client's NICK between StopNickRecovery and its write, <<>> for none
  toIrcd,  \* lines on their way to the ircd
  toUs,    \* lines on their way to the Driver
  ircd,    \* the ircd's view of this connection
  taken,   \* folded nicks other users have
  moves,   \* history: moves of the others so far
  refused  \* history: folded nicks the ircd refused before the welcome

vars == <<cfg, srv, reg, ses, current, rec, loop, rx, client, toIrcd, toUs, ircd, taken, moves, refused>>
recVars == <<ses, current, rec, loop, rx, client>>
wire    == <<toIrcd, toUs>>
given   == <<cfg, srv>>

\* foldRFC1459, on the letters used here.
FoldLetter(x) == IF x = "[" THEN "{" ELSE x
Fold(nick) == [i \in DOMAIN nick |-> FoldLetter(nick[i])]
Same(a, b) == Fold(a) = Fold(b)

-----------------------------------------------------------------------------
(* The nick ladder.                                                        *)

Prefix(nick, n) == SubSeq(nick, 1, IF n < Len(nick) THEN n ELSE Len(nick))

Underscores(i) == [j \in 1 .. i |-> "_"]

\* primary, alt, then primary with more and more underscores, each within
\* maxLen and none twice.
buildNickLadder(primary, alt, maxLen) ==
  LET last  == IF MaxUnderscoreTries < maxLen THEN MaxUnderscoreTries ELSE maxLen - 1
      tries == [i \in 1 .. last |-> Prefix(primary, maxLen - i) \o Underscores(i)]
      add(out, nick) == IF nick = <<>> \/ Contains(out, Prefix(nick, maxLen)) THEN out
                        ELSE Append(out, Prefix(nick, maxLen))
  IN FoldLeft(add, <<>>, <<primary, alt>> \o tries)

\* NICKLEN comes with 005, after the last nick was tried.
Ladders ==
  [c \in {n.cfg : n \in Networks} |-> buildNickLadder(c.primary, c.alt, DefaultNickLen)]
Ladder == Ladders[cfg]

\* Mutant: the last rung is never tried.
nextNickInLadderShort(ladder, last, bad) ==
  LET match == {i \in DOMAIN ladder : Same(ladder[i], last) \/ Same(ladder[i], bad)}
      idx   == IF match = {} THEN 1 ELSE CHOOSE i \in match : \A j \in match : i >= j
  IN IF idx + 1 < Len(ladder) THEN ladder[idx + 1] ELSE <<>>

\* The nick after the last rung that is the nick tried last or the one refused;
\* <<>> when there is none.
nextNickInLadder(ladder, last, bad) ==
  LET match == {i \in DOMAIN ladder : Same(ladder[i], last) \/ Same(ladder[i], bad)}
      idx   == IF match = {} THEN 1 ELSE CHOOSE i \in match : \A j \in match : i >= j
  IN IF idx + 1 \in DOMAIN ladder THEN ladder[idx + 1] ELSE <<>>

-----------------------------------------------------------------------------
(* registration.Step: what a line makes of the state, and the lines sent.  *)

Line(t)     == [t |-> t]
NickLine(n) == [t |-> "NICK", nick |-> n]
Auth(a)     == [t |-> "AUTHENTICATE", arg |-> a]
Chunk(n)    == [t |-> "AUTHENTICATE", arg |-> "chunk", n |-> n]

Start(nick) == <<Line("CAP LS"), NickLine(nick), Line("USER")>>

NewState ==
  [phase |-> "cap", nick |-> cfg.primary, mech |-> "none", conv |-> 0,
   offered |-> {}, mechs |-> {}, welcome |-> FALSE, why |-> "none"]

Then(r, out) == [reg |-> r, out |-> out]

Fail(r, why, out) == Then([r EXCEPT !.phase = "failed", !.why = why], out)

EndCap(r, out) == Then([r EXCEPT !.phase = "awaiting"], Append(out, Line("CAP END")))

NoSASL(r) == [r EXCEPT !.mech = "none", !.conv = 0]

\* SASL did not happen: fatal if it is required.
WithoutSASL(r, out) ==
  IF cfg.required THEN Fail(NoSASL(r), "sasl", out) ELSE EndCap(NoSASL(r), out)

\* The mechanisms to try for the credentials there are, best first.
Preferred ==
  CASE cfg.cred = "password" -> <<"SCRAM-SHA-256", "PLAIN">>
    [] cfg.cred = "cert"     -> <<"EXTERNAL">>
    [] OTHER                 -> <<>>

\* A server that names no mechanism is taken to have the last one.
pickSASLMech(r) ==
  LET usable == {i \in DOMAIN Preferred : Preferred[i] \in r.mechs}
  IN IF ~cfg.wanted \/ Preferred = <<>> THEN "none"
     ELSE IF r.mechs = {} THEN Last(Preferred)
     ELSE IF usable = {} THEN "none" ELSE Preferred[Min(usable)]

startSASL(r) ==
  LET mech == pickSASLMech(r)
  IN IF mech = "none" THEN WithoutSASL(r, <<>>)
     ELSE Then([r EXCEPT !.phase = "authenticating", !.mech = mech, !.conv = 0], <<Auth(mech)>>)

stepCAP(r, m) ==
  LET heard == [r EXCEPT !.offered = @ \union m.caps,
                         !.mechs = IF "sasl" \in m.caps THEN m.mechs ELSE @]
      req   == {c \in heard.offered : c = "sasl" => cfg.wanted}
  IN CASE m.t = "LS" /\ m.more -> Then(heard, <<>>)
       [] m.t = "LS" /\ ~m.more ->
            IF req = {} THEN EndCap(heard, <<>>)
            ELSE Then(heard, <<[t |-> "CAP REQ", caps |-> req]>>)
       [] m.t = "ACK" -> IF cfg.wanted /\ "sasl" \in m.caps THEN startSASL(r) ELSE EndCap(r, <<>>)
       [] m.t = "NAK" -> EndCap(r, <<>>)

\* Mutant: a failure is treated like a success.
stepSASLOutcomeLenient(r, m) ==
  IF r.welcome THEN Then(NoSASL(r), <<>>) ELSE EndCap(NoSASL(r), <<>>)

\* Mutant: after registration the exchange is not cleared.
stepSASLOutcomeKeeps(r, m) ==
  IF r.welcome THEN Then(r, <<>>)
  ELSE IF ~m.ok THEN WithoutSASL(r, <<>>) ELSE EndCap(NoSASL(r), <<>>)

\* 903 to 907.
stepSASLOutcome(r, m) ==
  IF r.welcome THEN Then(NoSASL(r), <<>>)
  ELSE IF ~m.ok THEN WithoutSASL(r, <<>>)
  ELSE EndCap(NoSASL(r), <<>>)

abortSASL(r) ==
  IF r.welcome THEN Then(NoSASL(r), <<Auth("*")>>)
  ELSE WithoutSASL(r, <<Auth("*")>>)

\* A payload of length n in chunks.
sendAuthenticate(n) ==
  LET chunks == [i \in 1 .. (n + ChunkSize - 1) \div ChunkSize |->
                   Chunk(IF i * ChunkSize <= n THEN ChunkSize ELSE n % ChunkSize)]
  IN IF n = 0 THEN <<Auth("+")>>
     ELSE IF n % ChunkSize = 0 THEN Append(chunks, Auth("+")) ELSE chunks

\* The library's conversation answers twice and then has nothing to say; a
\* challenge that does not decode or verify is an error, and so is one too many.
stepSCRAM(r, arg) ==
  IF arg = "bad" \/ r.conv > 2 THEN abortSASL(r)
  ELSE Then([r EXCEPT !.conv = @ + 1],
            sendAuthenticate(IF r.conv = 2 THEN 0 ELSE cfg.payload))

stepAuthenticate(r, m) ==
  IF m.arg = "*" THEN Then(NoSASL(r), <<>>)
  ELSE CASE r.mech = "none" -> Then(r, <<>>)
         [] r.mech = "SCRAM-SHA-256" -> stepSCRAM(r, m.arg)
         [] r.mech \in {"PLAIN", "EXTERNAL"} ->
              Then(r, IF m.arg = "+" THEN sendAuthenticate(cfg.payload) ELSE <<>>)

\* 432, 433, 437: climb the ladder, if nick recovery is on.
stepNickError(r, m) ==
  LET next == IF cfg.recovery THEN nextNickInLadder(Ladder, r.nick, m.bad) ELSE <<>>
  IN IF r.welcome THEN Then(r, <<>>)
     ELSE IF next = <<>> THEN Fail(r, "nick", <<>>)
     ELSE Then([r EXCEPT !.nick = next], <<NickLine(next)>>)

Step(r, m) ==
  CASE m.t \in {"LS", "ACK", "NAK"} -> stepCAP(r, m)
    [] m.t = "AUTHENTICATE" -> stepAuthenticate(r, m)
    [] m.t = "SASL" -> stepSASLOutcome(r, m)
    [] m.t = "001" ->
         Then([r EXCEPT !.welcome = TRUE, !.nick = m.nick,
                        !.phase = IF @ = "cap" THEN "awaiting" ELSE @], <<>>)
    [] m.t = "376" -> Then(IF r.welcome THEN [r EXCEPT !.phase = "complete"] ELSE r, <<>>)
    [] m.t = "433" -> stepNickError(r, m)
    [] m.t = "ERROR" -> Fail(r, "error", <<>>)
    [] OTHER -> Then(r, <<>>)

\* Past the registration only a SASL exchange that an ACK starts goes on.
StepPost(r, m) ==
  CASE m.t = "NEW" ->
         Then([r EXCEPT !.offered = @ \union {"sasl"}, !.mechs = m.mechs], <<>>)
    [] m.t = "DEL" -> Then([r EXCEPT !.offered = @ \ {"sasl"}, !.mechs = {}], <<>>)
    [] m.t = "ACK" ->
         LET mech == pickSASLMech(r)
         IN IF "sasl" \notin m.caps \/ r.mech # "none" \/ mech = "none" THEN Then(r, <<>>)
            ELSE Then([r EXCEPT !.mech = mech, !.conv = 0], <<Auth(mech)>>)
    [] m.t = "AUTHENTICATE" -> stepAuthenticate(r, m)
    [] m.t = "SASL" -> stepSASLOutcome(r, m)
    [] OTHER -> Then(r, <<>>)

-----------------------------------------------------------------------------
(* Nick recovery: the locked regions of nickRecMu.                         *)

Loops == 1 .. MaxLoops

Off  == [s |-> "off", ask |-> {}]
Idle == [s |-> "idle", ask |-> {}]

OnPrimary(nick) == Same(nick, cfg.primary)

\* getCurrentNick falls back to the registration's nick.
CurrentNick == IF current = <<>> THEN reg.nick ELSE current

stopNickRecovery(r) == [r EXCEPT !.stop = 0, !.pending = FALSE]

\* Mutant: a hold does not keep recovery from starting.
startNickRecoveryHeld(nick) ==
  IF ~cfg.recovery \/ OnPrimary(nick) \/ rec.stop # 0
  THEN UNCHANGED <<rec, loop>>
  ELSE \E i \in Loops :
         /\ loop[i] = Off
         /\ loop' = [loop EXCEPT ![i].s = "new"]
         /\ rec' = [rec EXCEPT !.stop = i]

startNickRecoveryIfNeeded(nick) ==
  IF ~cfg.recovery \/ OnPrimary(nick) \/ rec.held \/ rec.stop # 0
  THEN UNCHANGED <<rec, loop>>
  ELSE \E i \in Loops :
         /\ loop[i] = Off
         /\ loop' = [loop EXCEPT ![i].s = "new"]
         /\ rec' = [rec EXCEPT !.stop = i]

isonTargets(nick) ==
  {cfg.primary} \union {a \in {cfg.alt} : a # <<>> /\ ~OnPrimary(a) /\ ~Same(nick, a)}

\* nickRecoveryTick up to its lock: a loop ticks when it starts and whenever its
\* ticker fires, a stopped loop too as long as its select picks the ticker.
TickCheck(i) ==
  /\ loop[i].s \in {"new", "idle"}
  /\ IF reg.phase # "complete" \/ OnPrimary(CurrentNick)
     THEN /\ rec' = stopNickRecovery(rec)
          /\ loop' = [loop EXCEPT ![i] = Idle]
     ELSE /\ loop' = [loop EXCEPT ![i] = [s |-> "checked", ask |-> isonTargets(CurrentNick)]]
          /\ UNCHANGED rec
  /\ UNCHANGED <<given, reg, ses, current, rx, client, wire, ircd, taken, moves, refused>>

TickPend(i) ==
  /\ loop[i].s = "checked"
  /\ IF rec.pending \/ rec.stop = 0
     THEN loop' = [loop EXCEPT ![i] = Idle] /\ UNCHANGED rec
     ELSE /\ loop' = [loop EXCEPT ![i].s = "sending"]
          /\ rec' = [rec EXCEPT !.pending = TRUE]
  /\ UNCHANGED <<given, reg, ses, current, rx, client, wire, ircd, taken, moves, refused>>

TickSend(i) ==
  /\ loop[i].s = "sending"
  /\ loop' = [loop EXCEPT ![i] = Idle]
  /\ toIrcd' = Append(toIrcd, [t |-> "ISON", own |-> TRUE, nicks |-> loop[i].ask])
  /\ UNCHANGED <<given, reg, ses, current, rec, rx, client, toUs, ircd, taken, moves, refused>>

\* The stop channel is closed once nickRecStops no longer holds it.
LoopExit(i) ==
  /\ loop[i] = Idle
  /\ rec.stop # i
  /\ loop' = [loop EXCEPT ![i] = Off]
  /\ UNCHANGED <<given, reg, ses, current, rec, rx, client, wire, ircd, taken, moves, refused>>

\* Session's NICK case: the hold first, then the line.
StopNickRecovery(nick) ==
  /\ reg.phase = "complete" /\ client = <<>> /\ moves < MaxMoves
  /\ moves' = moves + 1
  /\ rec' = [stopNickRecovery(rec) EXCEPT !.held = TRUE]
  /\ client' = nick
  /\ UNCHANGED <<given, reg, ses, current, loop, rx, wire, ircd, taken, refused>>

ClientNick ==
  /\ client # <<>>
  /\ toIrcd' = Append(toIrcd, NickLine(client))
  /\ client' = <<>>
  /\ UNCHANGED <<given, reg, ses, current, rec, loop, rx, toUs, ircd, taken, moves, refused>>

\* A client's own ISON is an enquiry like any other.
ClientISON(nick) ==
  /\ reg.phase = "complete" /\ moves < MaxMoves
  /\ moves' = moves + 1
  /\ toIrcd' = Append(toIrcd, [t |-> "ISON", own |-> FALSE, nicks |-> {nick}])
  /\ UNCHANGED <<given, reg, recVars, toUs, ircd, taken, refused>>

-----------------------------------------------------------------------------
(* Driver.handleLine, one line at a time in Run's goroutine.               *)

NoRx == [s |-> "idle", want |-> <<>>]

Takes(t) ==
  /\ rx = NoRx /\ reg.phase # "failed"
  /\ toUs # <<>> /\ Head(toUs).t = t
  /\ toUs' = Tail(toUs)

\* What Session makes of a line: handleCAPLine, noteBouncerSASLOutcomeLocked and
\* completeRegistration.
SesAfter(m, registered, asks) ==
  CASE m.t = "ACK" /\ "sasl" \in m.caps ->
         [ses EXCEPT !.up = TRUE, !.pending = @ \/ (cfg.wanted /\ ~registered)]
    [] m.t \in {"SASL", "376"} -> [ses EXCEPT !.pending = FALSE]
    [] m.t = "DEL" -> [up |-> FALSE, pending |-> FALSE]
    [] m.t = "NEW" -> [ses EXCEPT !.pending = @ \/ asks]
    [] OTHER -> ses

\* CAP NEW: Session asks for sasl unless it is logged in, has it, is trying
\* already or has no use for what is offered.
SesAsks(m, r) ==
  /\ m.t = "NEW" /\ cfg.wanted /\ ~ircd.authed
  /\ ~ses.pending /\ ~ses.up /\ pickSASLMech(r) # "none"

\* A line that is neither a NICK nor a 303: Session's part, then Step or StepPost
\* and its actions.
HandleLine ==
  /\ toUs # <<>> /\ Head(toUs).t \notin {"NICK", "303"}
  /\ Takes(Head(toUs).t)
  /\ \E r \in {IF reg.phase = "complete" THEN StepPost(reg, Head(toUs)) ELSE Step(reg, Head(toUs))} :
     \E asks \in {SesAsks(Head(toUs), r.reg)} :
       /\ reg' = r.reg
       /\ ses' = SesAfter(Head(toUs), reg.phase = "complete", asks)
       /\ toIrcd' = toIrcd \o r.out
                      \o IF asks THEN <<[t |-> "CAP REQ", caps |-> {"sasl"}]>> ELSE <<>>
       /\ IF reg.phase # "complete" /\ r.reg.phase = "complete"
          THEN current' = r.reg.nick /\ startNickRecoveryIfNeeded(r.reg.nick)
          ELSE UNCHANGED <<current, rec, loop>>
  /\ UNCHANGED <<given, rx, client, ircd, taken, moves, refused>>

\* The nick to reclaim, <<>> for none.
Wanted(nick, online) ==
  IF OnPrimary(nick) THEN <<>>
  ELSE IF Fold(cfg.primary) \notin online THEN cfg.primary
  ELSE IF /\ cfg.alt # <<>> /\ ~Same(nick, cfg.alt) /\ ~OnPrimary(cfg.alt)
          /\ Fold(cfg.alt) \notin online
       THEN cfg.alt ELSE <<>>

\* Mutant: the pending flag is not cleared.
handleRecoveryISONKeeps ==
  LET want == Wanted(CurrentNick, Head(toUs).online)
  IN /\ Takes("303")
     /\ rx' = IF rec.pending /\ want # <<>> THEN [s |-> "reclaim", want |-> want] ELSE NoRx
     /\ UNCHANGED <<given, reg, ses, current, rec, loop, client, toIrcd, ircd, taken, moves, refused>>

\* A 303 while an ISON of ours is pending is taken for its reply; any other one
\* goes to the clients.  The reclaiming NICK is sent after the lock.
handleRecoveryISON ==
  LET want == Wanted(CurrentNick, Head(toUs).online)
  IN /\ Takes("303")
     /\ rec' = [rec EXCEPT !.pending = FALSE]
     /\ rx' = IF rec.pending /\ want # <<>> THEN [s |-> "reclaim", want |-> want] ELSE NoRx
     /\ UNCHANGED <<given, reg, ses, current, loop, client, toIrcd, ircd, taken, moves, refused>>

Reclaim ==
  /\ rx.s = "reclaim"
  /\ toIrcd' = Append(toIrcd, NickLine(rx.want))
  /\ rx' = NoRx
  /\ UNCHANGED <<given, reg, ses, current, rec, loop, client, toUs, ircd, taken, moves, refused>>

\* Mutant: only a return to the primary nick is noted.
handleSelfNickChangePrimaryOnly ==
  LET m == Head(toUs)
  IN /\ Takes("NICK")
     /\ IF Same(m.from, CurrentNick) /\ OnPrimary(m.nick)
        THEN /\ current' = m.nick
             /\ rec' = stopNickRecovery(rec)
             /\ rx' = [s |-> "clear", want |-> <<>>]
             /\ UNCHANGED loop
        ELSE UNCHANGED <<current, rec, loop, rx>>
     /\ UNCHANGED <<given, reg, ses, client, toIrcd, ircd, taken, moves, refused>>

\* Our own NICK: back on the primary nick recovery stops, on any other it starts.
handleSelfNickChange ==
  LET m == Head(toUs)
  IN /\ Takes("NICK")
     /\ CASE ~Same(m.from, CurrentNick) -> UNCHANGED <<current, rec, loop, rx>>
          [] Same(m.from, CurrentNick) /\ OnPrimary(m.nick) ->
               /\ current' = m.nick
               /\ rec' = stopNickRecovery(rec)
               /\ rx' = [s |-> "clear", want |-> <<>>]
               /\ UNCHANGED loop
          [] OTHER -> /\ current' = m.nick
                      /\ startNickRecoveryIfNeeded(m.nick)
                      /\ UNCHANGED rx
     /\ UNCHANGED <<given, reg, ses, client, toIrcd, ircd, taken, moves, refused>>

clearNickRecoveryHold ==
  /\ rx.s = "clear"
  /\ rec' = [rec EXCEPT !.held = FALSE]
  /\ rx' = NoRx
  /\ UNCHANGED <<given, reg, ses, current, loop, client, wire, ircd, taken, moves, refused>>

-----------------------------------------------------------------------------
(* The ircd and everyone else on it (external).                            *)

Reply(t)    == [t |-> t]
Outcome(ok) == [t |-> "SASL", ok |-> ok]

\* CAP LS 302 on one line, or with sasl on a second one.
CapList ==
  LET ls(caps, more) == [t |-> "LS", caps |-> caps, mechs |-> srv.mechs, more |-> more]
  IN IF ~srv.cap THEN <<>>
     ELSE IF srv.split THEN <<ls(srv.caps \ {"sasl"}, TRUE), ls(srv.caps \intersect {"sasl"}, FALSE)>>
     ELSE <<ls(srv.caps, FALSE)>>

Serve(t) ==
  /\ toIrcd # <<>> /\ Head(toIrcd).t = t
  /\ toIrcd' = Tail(toIrcd)
  /\ UNCHANGED <<given, reg, recVars, taken, moves>>

IrcdCap ==
  \/ /\ Serve("CAP LS")
     /\ ircd' = [ircd EXCEPT !.neg = srv.cap]
     /\ toUs' = toUs \o CapList /\ UNCHANGED refused
  \/ /\ Serve("CAP END")
     /\ ircd' = [ircd EXCEPT !.neg = FALSE]
     /\ UNCHANGED <<toUs, refused>>
  \/ /\ Serve("USER")
     /\ ircd' = [ircd EXCEPT !.user = TRUE]
     /\ UNCHANGED <<toUs, refused>>
  \/ /\ Serve("CAP REQ")
     /\ \/ /\ toUs' = Append(toUs, [t |-> "ACK", caps |-> Head(toIrcd).caps])
           /\ ircd' = [ircd EXCEPT !.sasl = @ \/ "sasl" \in Head(toIrcd).caps,
                                   !.acked = @ \/ (~ircd.welcome /\ "sasl" \in Head(toIrcd).caps)]
        \/ toUs' = Append(toUs, Reply("NAK")) /\ UNCHANGED ircd
     /\ UNCHANGED refused

\* A nick is cut to the ircd's length; one that somebody has is refused.
IrcdNick ==
  LET bad  == Head(toIrcd).nick
      nick == Prefix(bad, srv.nickLen)
  IN /\ Serve("NICK")
     /\ IF Fold(nick) \in taken
        THEN /\ toUs' = Append(toUs, [t |-> "433", bad |-> bad])
             /\ refused' = IF ircd.welcome THEN refused ELSE refused \union {Fold(bad)}
             /\ UNCHANGED ircd
        ELSE /\ ircd' = [ircd EXCEPT !.nick = nick]
             /\ toUs' = IF ircd.welcome /\ nick # ircd.nick
                        THEN Append(toUs, [t |-> "NICK", from |-> ircd.nick, nick |-> nick]) ELSE toUs
             /\ UNCHANGED refused

IrcdISON ==
  LET m == Head(toIrcd)
      present == taken \union {Fold(ircd.nick)}
  IN /\ Serve("ISON")
     /\ toUs' = Append(toUs, [t |-> "303", own |-> m.own,
                              online |-> {Fold(n) : n \in m.nicks} \intersect present])
     /\ UNCHANGED <<ircd, refused>>

\* The SASL agent's answer to a complete message, or to the choice of mechanism.
Verdicts ==
  {<<ircd.authed, <<Outcome(FALSE)>>>>, <<ircd.authed, <<Auth("*"), Outcome(FALSE)>>>>,
   <<TRUE, <<Outcome(TRUE)>>>>}

IrcdAuthenticate ==
  LET m == Head(toIrcd)
      ended == [ircd EXCEPT !.mech = "none", !.round = 0]
  IN /\ Serve("AUTHENTICATE")
     /\ CASE ~ircd.sasl -> UNCHANGED <<ircd, toUs>>
          [] ircd.sasl /\ m.arg = "*" -> ircd' = ended /\ toUs' = Append(toUs, Outcome(FALSE))
          [] ircd.sasl /\ m.arg # "*" /\ ircd.mech = "none" ->
               IF m.arg \in srv.mechs \/ (srv.mechs = {} /\ m.arg \in Mechs)
               THEN ircd' = [ircd EXCEPT !.mech = m.arg] /\ toUs' = Append(toUs, Auth("+"))
               ELSE UNCHANGED ircd /\ toUs' = Append(toUs, Outcome(FALSE))
          [] ircd.sasl /\ m.arg = "chunk" /\ m.n = ChunkSize /\ ircd.mech # "none" -> UNCHANGED <<ircd, toUs>>
          [] OTHER ->
               \/ /\ ircd.mech = "SCRAM-SHA-256" /\ ircd.round < 2
                  /\ ircd' = [ircd EXCEPT !.round = @ + 1]
                  /\ \E arg \in {"challenge", "bad"} : toUs' = Append(toUs, Auth(arg))
               \/ \E v \in Verdicts :
                    /\ v[2] = <<Outcome(TRUE)>> => ircd.mech # "SCRAM-SHA-256" \/ ircd.round = 2
                    /\ ircd' = [ended EXCEPT !.authed = v[1]]
                    /\ toUs' = toUs \o v[2]
     /\ UNCHANGED refused

\* The welcome, from 001 to the end of the MOTD.
IrcdWelcome ==
  /\ ~ircd.neg /\ ircd.user /\ ircd.nick # <<>> /\ ~ircd.welcome
  /\ ircd' = [ircd EXCEPT !.welcome = TRUE]
  /\ toUs' = toUs \o <<[t |-> "001", nick |-> ircd.nick], Reply("376")>>
  /\ UNCHANGED <<given, reg, recVars, toIrcd, taken, moves, refused>>

Move == moves < MaxMoves /\ moves' = moves + 1

\* The ircd gives up on a connection that is not welcome.
IrcdError ==
  /\ ~ircd.welcome /\ reg.phase # "failed" /\ Move
  /\ toUs' = Append(toUs, Reply("ERROR"))
  /\ UNCHANGED <<given, reg, recVars, toIrcd, ircd, taken, refused>>

\* Services rename us.
IrcdRename(nick) ==
  /\ ircd.welcome /\ Fold(nick) \notin taken /\ nick # ircd.nick /\ Move
  /\ ircd' = [ircd EXCEPT !.nick = nick]
  /\ toUs' = Append(toUs, [t |-> "NICK", from |-> ircd.nick, nick |-> nick])
  /\ UNCHANGED <<given, reg, recVars, toIrcd, taken, refused>>

\* Services go away: sasl is withdrawn, an exchange forgotten.
IrcdCapDel ==
  /\ ircd.welcome /\ ircd.sasl /\ Move
  /\ ~Withdraws => ircd.mech = "none" /\ reg.mech = "none" /\ \A i \in DOMAIN toUs : toUs[i].t # "ACK"
  /\ ircd' = [ircd EXCEPT !.sasl = FALSE, !.mech = "none", !.round = 0]
  /\ toUs' = Append(toUs, Reply("DEL"))
  /\ UNCHANGED <<given, reg, recVars, toIrcd, taken, refused>>

\* Services come back.
IrcdCapNew ==
  /\ ircd.welcome /\ srv.cap /\ Move
  /\ toUs' = Append(toUs, [t |-> "NEW", mechs |-> srv.mechs])
  /\ UNCHANGED <<given, reg, recVars, toIrcd, ircd, taken, refused>>

\* Another user takes a nick or gives it up.
OtherUser(nick) ==
  /\ reg.phase # "failed" /\ ~Same(nick, ircd.nick) /\ Move
  /\ taken' = IF Fold(nick) \in taken THEN taken \ {Fold(nick)} ELSE taken \union {Fold(nick)}
  /\ UNCHANGED <<given, reg, recVars, wire, ircd, refused>>

-----------------------------------------------------------------------------
Init ==
  /\ \E n \in Networks : cfg = n.cfg /\ srv = n.srv
  /\ reg = NewState /\ ses = [up |-> FALSE, pending |-> FALSE] /\ current = <<>>
  /\ rec = [stop |-> 0, pending |-> FALSE, held |-> FALSE]
  /\ loop = [i \in Loops |-> Off]
  /\ rx = NoRx /\ client = <<>>
  /\ toIrcd = Start(cfg.primary) /\ toUs = <<>>
  /\ ircd = [neg |-> FALSE, user |-> FALSE, nick |-> <<>>, welcome |-> FALSE, acked |-> FALSE,
             sasl |-> FALSE, authed |-> FALSE, mech |-> "none", round |-> 0]
  /\ taken \in SUBSET {Fold(n) : n \in Range(Ladder)}
  /\ moves = 0 /\ refused = {}

Run  == HandleLine \/ handleRecoveryISON \/ Reclaim
        \/ handleSelfNickChange \/ clearNickRecoveryHold
Loop(i) == TickCheck(i) \/ TickPend(i) \/ TickSend(i)
Ircd == IrcdCap \/ IrcdNick \/ IrcdISON \/ IrcdAuthenticate \/ IrcdWelcome
Others ==
  \/ IrcdError \/ IrcdCapDel \/ IrcdCapNew
  \/ IrcdRename(Guest) \/ ClientISON(Guest)
  \/ \E n \in {Guest, cfg.primary} : StopNickRecovery(n)
  \/ \E n \in Range(Ladder) : OtherUser(n)

Next == Run \/ ClientNick \/ Ircd \/ Others \/ \E i \in Loops : Loop(i) \/ LoopExit(i)

Spec == Init /\ [][Next]_vars

\* Run, the loops and a client's write are never blocked for good, and the ircd
\* answers; a select with two channels ready does not pass over a closed one for
\* ever.  Nothing is assumed of the others.
Fairness ==
  /\ WF_vars(Run) /\ WF_vars(ClientNick) /\ WF_vars(Ircd)
  /\ \A i \in Loops : WF_vars(Loop(i)) /\ SF_vars(LoopExit(i))

FairSpec == Spec /\ Fairness

-----------------------------------------------------------------------------
(* Properties.                                                             *)

\* The type of the state the Driver keeps for a connection (Driver.states,
\* currentNick and the nickRec maps).
TypeOK ==
  /\ reg.phase \in {"cap", "authenticating", "awaiting", "complete", "failed"}
  /\ reg.mech \in Mechs \union {"none"} /\ reg.conv \in 0 .. 3
  /\ rec.stop \in 0 .. MaxLoops /\ {rec.pending, rec.held} \subseteq BOOLEAN
  /\ \A i \in Loops : loop[i].s \in {"off", "new", "idle", "checked", "sending"}
  /\ rec.stop # 0 => loop[rec.stop] # Off
  /\ rx.s \in {"idle", "reclaim", "clear"}
  /\ moves \in 0 .. MaxMoves

\* A registration with nick recovery fails over its nick only when the ircd
\* has refused every rung of the ladder, a primary nick longer than the ladder
\* allows having been refused in full (stepNickError, nextNickInLadder).
LadderExhausted ==
  reg.why = "nick" /\ cfg.recovery =>
    \A i \in DOMAIN Ladder :
      Fold(Ladder[i]) \in refused \/ (i = 1 /\ Fold(cfg.primary) \in refused)

\* A network that requires SASL, on an ircd that granted the capability, is
\* never registered without having authenticated, whichever way the exchange
\* ends (stepSASLOutcome, startSASL, abortSASL).
SASLHonoured ==
  cfg.required /\ ircd.acked /\ reg.phase = "complete" => ircd.authed

\* Once every line has been handled the Driver knows the nick the ircd knows,
\* however the client, services, the ladder and recovery have changed it
\* (handleSelfNickChange, the 001's nick in Step).
NickTracked ==
  reg.phase = "complete" /\ toUs = <<>> => current = ircd.nick

\* While a client's NICK holds recovery back there is no recovery loop to be
\* ticking and no reply to react to (StopNickRecovery, startNickRecoveryIfNeeded,
\* nickRecoveryTick).
HeldIsIdle ==
  rec.held => rec.stop = 0 /\ ~rec.pending

\* Recovery goes by the right nick, and not at all while a client's choice
\* stands (handleSelfNickChange, StopNickRecovery).
NickSound == NickTracked /\ HeldIsIdle

\* An ircd that answers gets every attempt to an end: registered or failed, with
\* any set of capabilities, mechanisms and nicks in use and any length of SASL
\* payload (Step, stepCAP, sendAuthenticate, nextNickInLadder).
RegistrationEnds == <>(reg.phase \in {"complete", "failed"})

\* A SASL exchange ends, after registration as well as before, so that a later
\* CAP NEW can start another one (stepSASLOutcome, abortSASL, StepPost); as
\* upstream.go:444-447 says, also when the ircd pulls sasl out from under it.
ExchangeEnds == reg.mech # "none" ~> (reg.mech = "none" \/ reg.phase = "failed")

\* No dialogue with the ircd is left hanging, the registration's or SASL's, and
\* none is given up over the nick before there is no other (Step, stepNickError).
ExchangesEnd == RegistrationEnds /\ ExchangeEnds /\ []LadderExhausted

\* A registered network with nick recovery gets its primary nick when it is free
\* for good, is not too long for the ircd and no client's NICK holds recovery
\* back (nickRecoveryTick, handleRecoveryISON, handleSelfNickChange).
Reclaims ==
  <>[](/\ reg.phase = "complete" /\ cfg.recovery /\ Len(cfg.primary) <= srv.nickLen
       /\ Fold(cfg.primary) \notin taken /\ ~rec.held)
    => <>[](OnPrimary(ircd.nick))

\* As driver.go:879-881 says of the replies to its own ISONs: they are consumed
\* and not republished to the clients (handleRecoveryISON).
OwnReplyConsumed ==
  [][toUs # <<>> /\ toUs' = Tail(toUs) /\ Head(toUs).t = "303" /\ Head(toUs).own
       => rec.pending]_vars

\* As nickrecovery.go:90-93 says of a client's NICK: it suppresses the automatic
\* reclaim (StopNickRecovery, handleRecoveryISON).
ClientNickStands ==
  [][rx.s = "reclaim" /\ rx'.s = "idle" => ~rec.held]_vars

=============================================================================
