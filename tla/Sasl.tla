-------------------------------- MODULE Sasl --------------------------------
(***************************************************************************)
(* Who may authenticate over the shared uplink: the bouncer with its own   *)
(* credentials (Network.SASL) or a client through it (internal/session:    *)
(* sasl.go, and handleCAPLine, HandleRegistrationLine, completeRegistration *)
(* and HandleDisconnect of upstream.go).                                   *)
(*                                                                         *)
(* Of the capabilities only sasl is kept, of its mechanisms only whether   *)
(* the bouncer can use one.  The demux is one goroutine that works through *)
(* the ircd's lines, a critical section of Session.mu at a time; each      *)
(* client has its own.  The driver sees a line before the session does.    *)
(***************************************************************************)
EXTENDS Naturals, Sequences, FiniteSets

CONSTANTS Clients,
          Bouncer,     \* the other party that may authenticate
          MaxNews,     \* bound on CAP NEW and DEL and 901 after registration
          MaxAuths,    \* bound on the AUTHENTICATEs of clients
          MaxTroubles  \* bound on the kinds of trouble one behaviour meets

ASSUME SaslAssumption ==
    /\ Bouncer \notin Clients /\ "none" \notin Clients
    /\ MaxNews \in Nat /\ MaxAuths \in Nat /\ MaxTroubles \in Nat

VARIABLES own,         \* Network.SASL
          able,        \* whether the driver has the password or the certificate for it
          registered,  \* Session.registered
          avail,       \* upSASLAvailable
          mechs,       \* whether the bouncer can use one of upSASLMechs
          upCap,       \* upCaps["sasl"]
          offer,       \* saslOffer # ""
          waiters,     \* saslWaiters
          reqPending,  \* saslReqPending
          saslClient,  \* saslClient: a client or "none"
          bPending,    \* bouncerSASLPending
          bFailed,     \* bouncerSASLFailed
          loggedIn,    \* loggedIn
          downlinks,   \* clients attached
          capped,      \* clients with sasl enabled
          demux,       \* steps the demux has still to take for the line in hand
          job,         \* where each client's goroutine is
          q,           \* the ircd's lines on the way to the session
          driving,     \* the driver's saslMech # ""
          usable,      \* whether the driver can use one of the mechanisms it heard of
          offers,      \* external: sasl at the ircd, "none", "offered" or "granted", or
                       \* "off" while there is no connection
          reqs,        \* external: CAP REQs of sasl on the way to the ircd
          mix,         \* external: whose AUTHENTICATE the ircd has since the last outcome
          news, auths, \* counted against the bounds
          unanswered,  \* history: clients whose CAP REQ has no answer yet
          told,        \* history: clients that were last told sasl is there
          misled,      \* history: clients sent the CAP NEW of their attach after a CAP DEL
          outcome,     \* history: of an outcome in hand, whose it was and who was sent it
          met          \* history: the kinds of trouble met so far, out of Kinds

flags == <<avail, mechs, upCap, offer, bPending, bFailed, loggedIn, registered>>
wait == <<waiters, reqPending, unanswered>>
ircd == <<offers, mix, news>>
cfg == <<own, able>>
vars == <<met, cfg, flags, wait, saslClient, downlinks, capped, demux, job, q, driving, usable, reqs,
          ircd, auths, told, misled, outcome>>

\* The kinds of trouble that ExchangeOwned, WaitersAnswered and HeldBackForReason name;
\* k is met if p holds.
Kinds == {"nak", "del", "leave", "race", "ack", "late", "lost"}
Trouble(p, k) == IF p THEN {k} ELSE {}
Meets(kinds) == met' = met \cup kinds /\ Cardinality(met') <= MaxTroubles

Line(t) == [t |-> t, of |-> {}]

----------------------------------------------------------------------------
(* Operators of sasl.go. *)

bouncerOwnsSASL == own /\ ~bFailed

\* noteBouncerSASLOutcomeLocked.
PendingAfter(t) == IF t \in {"900", "903", "904"} THEN FALSE ELSE bPending
FailedAfter(t) == CASE t \in {"900", "903"} -> FALSE [] t = "904" -> TRUE [] OTHER -> bFailed

\* Mutant of refreshSASLOffer: a withdrawn offer is not announced.
OfferQuietlyWithdrawn ==
    LET now == ~bouncerOwnsSASL /\ avail IN
    /\ offer' = now
    /\ told' = IF now /\ ~offer THEN downlinks ELSE told
    /\ UNCHANGED <<capped, misled>>

\* refreshSASLOffer and notifySASLOfferChange: all clients negotiated cap-notify.
refreshSASLOffer ==
    LET now == ~bouncerOwnsSASL /\ avail IN
    /\ offer' = now
    /\ told' = IF now = offer THEN told ELSE IF now THEN downlinks ELSE told \ downlinks
    /\ misled' = IF now = offer THEN misled ELSE IF now THEN {} ELSE {c \in downlinks : job[c] = "tell"}
    /\ capped' = IF offer /\ ~now THEN capped \ downlinks ELSE capped

\* Mutant of finishSASLWaiters: the request stays pending, so nobody asks again.
FinishKeepsPending(ok) ==
    /\ waiters' = {} /\ UNCHANGED reqPending
    /\ unanswered' = unanswered \ (waiters \cap downlinks)
    /\ capped' = IF ok THEN capped \cup (waiters \cap downlinks) ELSE capped

\* finishSASLWaiters: those who still are here are told.
finishSASLWaiters(ok) ==
    /\ waiters' = {} /\ reqPending' = FALSE
    /\ unanswered' = unanswered \ (waiters \cap downlinks)
    /\ capped' = IF ok THEN capped \cup (waiters \cap downlinks) ELSE capped

----------------------------------------------------------------------------
(* The demux. *)

\* The steps a line takes.
StepsOf(t) ==
    CASE t \in {"LS", "LSx"} -> <<"note">>
      [] t = "ACK" /\ ~registered -> <<"caps", "owner">>
      [] t = "ACK" /\ registered -> <<"caps", "owner", "offer", "ackwaiters">>
      [] t = "NAK" /\ registered -> <<"waiters">>
      [] t \in {"NEW", "NEWx"} -> <<"new", "offer", "req">>
      [] t = "DEL" -> <<"del", "offer", "delwaiters">>
      [] t \in {"900", "901", "903", "904"} /\ ~registered -> <<"account">>
      [] t \in {"900", "901"} /\ registered -> <<"account">>
      [] t \in {"903", "904"} /\ registered -> <<"outcome", "offer">>
      [] t = "376" -> <<"complete", "offer">>
      [] OTHER -> <<>>

Take ==
    /\ demux = [line |-> Line(""), todo |-> <<>>, had |-> FALSE] /\ q # <<>>
    /\ demux' = [line |-> Head(q), todo |-> StepsOf(Head(q).t), had |-> FALSE]
    /\ q' = Tail(q)
    /\ UNCHANGED <<met, cfg, flags, wait, saslClient, downlinks, capped, job, driving, usable, reqs,
                   ircd, auths, told, misled, outcome>>

Rest == [demux EXCEPT !.todo = Tail(@)]

Done ==
    /\ demux.line.t # "" /\ demux.todo = <<>>
    /\ demux' = [line |-> Line(""), todo |-> <<>>, had |-> FALSE]
    /\ outcome' = [of |-> {}, to |-> {}]
    /\ UNCHANGED <<met, cfg, flags, wait, saslClient, downlinks, capped, job, q, driving, usable, reqs,
                   ircd, auths, told, misled>>

At(s) == demux.todo # <<>> /\ Head(demux.todo) = s

\* noteSASLOfferLocked, of a CAP LS.
Note ==
    /\ At("note") /\ demux' = Rest
    /\ avail' = TRUE /\ mechs' = (demux.line.t = "LS")
    /\ UNCHANGED <<met, cfg, upCap, offer, bPending, bFailed, loggedIn, registered, wait, saslClient,
                   downlinks, capped, job, q, driving, usable, reqs, ircd, auths, told, misled, outcome>>

\* CAP ACK: sasl is on; whether it is new decides the rest.
AckCaps ==
    /\ At("caps")
    /\ demux' = [Rest EXCEPT !.had = upCap]
    /\ upCap' = TRUE
    /\ UNCHANGED <<met, cfg, avail, mechs, offer, bPending, bFailed, loggedIn, registered, wait,
                   saslClient, downlinks, capped, job, q, driving, usable, reqs, ircd, auths, told, misled, outcome>>

\* Whose REQ this was.
AckOwner ==
    /\ At("owner") /\ demux' = Rest
    /\ bPending' = (bPending \/ (own /\ ~demux.had /\ ~registered))
    /\ UNCHANGED <<met, cfg, avail, mechs, upCap, offer, bFailed, loggedIn, registered, wait, saslClient,
                   downlinks, capped, job, q, driving, usable, reqs, ircd, auths, told, misled, outcome>>

\* The last step of an ACK of sasl that was not on before, of a DEL that took it
\* away, and of a NAK.
Waiters ==
    /\ At("ackwaiters") \/ At("delwaiters") \/ At("waiters")
    /\ demux' = Rest
    /\ \/ /\ At("ackwaiters") /\ ~demux.had /\ finishSASLWaiters(TRUE)
       \/ /\ At("delwaiters") /\ demux.had /\ finishSASLWaiters(FALSE)
       \/ /\ At("waiters") /\ finishSASLWaiters(FALSE)
       \/ /\ \/ At("ackwaiters") /\ demux.had
             \/ At("delwaiters") /\ ~demux.had
          /\ UNCHANGED <<wait, capped>>
    /\ UNCHANGED <<met, cfg, flags, saslClient, downlinks, job, q, driving, usable, reqs, ircd, auths, told, misled,
                   outcome>>

\* CAP NEW: whether the bouncer is to log in now.
BouncerTries == own /\ ~loggedIn /\ ~bPending /\ saslClient = "none" /\ ~upCap

New ==
    LET good == demux.line.t = "NEW"
        try == BouncerTries /\ good
    IN  /\ At("new")
        /\ demux' = [Rest EXCEPT !.had = ~try]
        /\ avail' = TRUE /\ mechs' = good
        /\ bPending' = (bPending \/ try)
        /\ bFailed' = IF BouncerTries THEN ~good ELSE bFailed
        /\ IF try THEN finishSASLWaiters(FALSE) ELSE UNCHANGED <<wait, capped>>
        /\ UNCHANGED <<met, cfg, upCap, offer, loggedIn, registered, saslClient, downlinks, job, q,
                       driving, usable, reqs, ircd, auths, told, misled, outcome>>

\* And its REQ.
NewReq ==
    /\ At("req") /\ demux' = Rest
    /\ reqs' = IF demux.had \/ upCap THEN reqs ELSE reqs + 1
    /\ UNCHANGED <<met, cfg, flags, wait, saslClient, downlinks, capped, job, q, driving, usable, ircd, auths,
                   told, misled, outcome>>

Del ==
    /\ At("del")
    /\ demux' = [Rest EXCEPT !.had = upCap]
    /\ upCap' = FALSE /\ avail' = FALSE /\ mechs' = TRUE /\ bPending' = FALSE
    /\ UNCHANGED <<met, cfg, offer, bFailed, loggedIn, registered, wait, saslClient, downlinks, capped,
                   job, q, driving, usable, reqs, ircd, auths, told, misled, outcome>>

\* refreshSASLOffer, with the CAP NEW or DEL that says what changed.
Offer ==
    /\ At("offer") /\ demux' = Rest
    /\ refreshSASLOffer
    /\ UNCHANGED <<met, cfg, avail, mechs, upCap, bPending, bFailed, loggedIn, registered, wait,
                   saslClient, downlinks, job, q, driving, usable, reqs, ircd, auths, outcome>>

\* 900 and 901, and every outcome before the registration is complete.
Account ==
    LET t == demux.line.t IN
    /\ At("account") /\ demux' = Rest
    /\ loggedIn' = CASE t = "900" -> TRUE [] t = "901" -> FALSE [] OTHER -> loggedIn
    /\ \/ /\ ~registered /\ own
          /\ bPending' = PendingAfter(t) /\ bFailed' = FailedAfter(t)
       \/ /\ ~registered /\ ~own
          /\ UNCHANGED <<bPending, bFailed>>
       \/ /\ registered
          /\ bFailed' = IF t = "900" THEN FALSE ELSE bFailed
          /\ UNCHANGED bPending
    /\ UNCHANGED <<met, cfg, avail, mechs, upCap, offer, registered, wait, saslClient, downlinks, capped,
                   job, q, driving, usable, reqs, ircd, auths, told, misled, outcome>>

\* routeSASLTraffic for 903 and 904.
Outcome ==
    LET t == demux.line.t IN
    /\ At("outcome")
    /\ \/ /\ own /\ bPending
          /\ bPending' = PendingAfter(t) /\ bFailed' = FailedAfter(t)
          /\ outcome' = [of |-> demux.line.of, to |-> {}]
          /\ demux' = Rest
          /\ UNCHANGED saslClient
       \/ /\ ~(own /\ bPending) /\ saslClient \in downlinks
          /\ outcome' = [of |-> demux.line.of, to |-> {saslClient}]
          /\ saslClient' = "none"
          /\ demux' = Rest
          /\ UNCHANGED <<bPending, bFailed>>
       \/ /\ ~(own /\ bPending) /\ saslClient \notin downlinks
          /\ outcome' = [of |-> demux.line.of, to |-> {}]
          /\ demux' = [demux EXCEPT !.todo = <<>>]
          /\ UNCHANGED <<bPending, bFailed, saslClient>>
    /\ UNCHANGED <<met, cfg, avail, mechs, upCap, offer, loggedIn, registered, wait, downlinks, capped,
                   job, q, driving, usable, reqs, ircd, auths, told, misled>>

\* Mutant of completeRegistration: an exchange that never began stays pending.
CompleteKeepsPending ==
    /\ At("complete") /\ demux' = Rest
    /\ registered' = TRUE
    /\ UNCHANGED <<met, cfg, avail, mechs, upCap, offer, bPending, bFailed, loggedIn, wait,
                   saslClient, downlinks, capped, job, q, driving, usable, reqs, ircd, auths, told, misled,
                   outcome>>

completeRegistration ==
    /\ At("complete") /\ demux' = Rest
    /\ registered' = TRUE
    /\ bPending' = FALSE /\ bFailed' = (bFailed \/ bPending)
    /\ UNCHANGED <<met, cfg, avail, mechs, upCap, offer, loggedIn, wait, saslClient, downlinks, capped,
                   job, q, driving, usable, reqs, ircd, auths, told, misled, outcome>>

HandleDisconnect ==
    /\ offers # "off" /\ offers' = "off" /\ demux.line.t = ""
    /\ Meets(Trouble(\E c \in Clients : job[c] # "idle", "lost"))
    /\ avail' = FALSE /\ mechs' = TRUE /\ upCap' = FALSE /\ offer' = FALSE
    /\ bPending' = FALSE /\ bFailed' = FALSE /\ loggedIn' = FALSE /\ registered' = FALSE
    /\ waiters' = {} /\ reqPending' = FALSE /\ saslClient' = "none"
    /\ downlinks' = {} /\ capped' = {} /\ told' = {} /\ misled' = {} /\ unanswered' = {}
    /\ q' = <<>> /\ reqs' = 0 /\ mix' = {} /\ driving' = FALSE
    /\ UNCHANGED <<cfg, usable, demux, job, news, auths, outcome>>

----------------------------------------------------------------------------
(* Clients. *)

\* No change of what the ircd offers is on its way or being handled.
Settled ==
    /\ offers \in {"offered", "granted"}
    /\ \A t \in {"NEW", "NEWx", "DEL"} : demux.line.t # t /\ \A i \in 1 .. Len(q) : q[i].t # t

Attach(c) ==
    /\ registered /\ c \notin downlinks /\ job[c] = "idle"
    /\ downlinks' = downlinks \cup {c}
    /\ job' = [job EXCEPT ![c] = "announce"]
    /\ UNCHANGED <<met, cfg, flags, wait, saslClient, capped, demux, q, driving, usable, reqs, ircd, auths,
                   told, misled, outcome>>

\* notifyAttachCaps, at the end of Attach: the look at what is on offer and not yet
\* announced to this client.
notifyAttachCaps(c) ==
    /\ job[c] = "announce"
    /\ job' = [job EXCEPT ![c] = IF offer /\ c \notin told THEN "tell" ELSE "idle"]
    /\ UNCHANGED <<met, cfg, flags, wait, saslClient, downlinks, capped, demux, q, driving, usable, reqs, ircd,
                   auths, told, misled, outcome>>

\* And its CAP NEW.
SendNew(c) ==
    /\ job[c] = "tell"
    /\ told' = told \cup ({c} \cap downlinks)
    /\ job' = [job EXCEPT ![c] = "idle"]
    /\ UNCHANGED <<met, cfg, flags, wait, saslClient, downlinks, capped, demux, q, driving, usable, reqs, ircd,
                   auths, misled, outcome>>

\* RequestClientSASL up to the lock: an answer, or else the client has to wait.
RequestClientSASL(c) ==
    /\ c \in downlinks \ (capped \cup unanswered) /\ job[c] = "idle" /\ c \in told
    /\ Meets(Trouble(~Settled, "race"))
    /\ \/ /\ ~offer
          /\ UNCHANGED <<capped, job, unanswered>>
       \/ /\ offer /\ upCap
          /\ capped' = capped \cup {c}
          /\ UNCHANGED <<job, unanswered>>
       \/ /\ offer /\ ~upCap
          /\ job' = [job EXCEPT ![c] = "wait"]
          /\ unanswered' = unanswered \cup {c}
          /\ UNCHANGED capped
    /\ UNCHANGED <<cfg, flags, waiters, reqPending, saslClient, downlinks, demux, q, driving, usable, reqs,
                   ircd, auths, told, misled, outcome>>

\* Joins the waiters; the first of them writes the REQ.
WaitForAck(c) ==
    /\ job[c] = "wait"
    /\ Meets(Trouble(upCap, "ack"))
    /\ job' = [job EXCEPT ![c] = "idle"]
    /\ waiters' = waiters \cup {c}
    /\ reqPending' = TRUE
    /\ reqs' = IF reqPending \/ offers = "off" THEN reqs ELSE reqs + 1
    /\ UNCHANGED <<cfg, flags, unanswered, saslClient, downlinks, capped, demux, q, driving, usable, ircd,
                   auths, told, misled, outcome>>

\* Mutant of MayDrive: another client's exchange keeps nobody back.
MayDriveAnyone(c) == ~bouncerOwnsSASL

MayDrive(c) == ~bouncerOwnsSASL /\ saslClient \in {"none", c}

\* forwardClientAuthenticate: claimed under the lock, written after it.
forwardClientAuthenticate(c) ==
    /\ c \in downlinks \cap capped /\ job[c] = "idle" /\ auths < MaxAuths
    /\ Meets(Trouble(~Settled, "race") \cup Trouble(saslClient = c /\ c \notin mix, "late"))
    /\ MayDrive(c)
    /\ saslClient' = c
    /\ job' = [job EXCEPT ![c] = "write"]
    /\ auths' = auths + 1
    /\ UNCHANGED <<cfg, flags, wait, downlinks, capped, demux, q, driving, usable, reqs, ircd, told, misled, outcome>>

Authenticate(c) ==
    /\ job[c] = "write"
    /\ job' = [job EXCEPT ![c] = "idle"]
    /\ mix' = IF offers = "granted" THEN mix \cup {c} ELSE mix
    /\ UNCHANGED <<met, cfg, flags, wait, saslClient, downlinks, capped, demux, q, driving, usable, reqs,
                   offers, news, auths, told, misled, outcome>>

Detach(c) ==
    /\ c \in downlinks /\ job[c] = "idle"
    /\ Meets(Trouble(saslClient = c, "leave"))
    /\ downlinks' = downlinks \ {c}
    /\ saslClient' = IF saslClient = c THEN "none" ELSE saslClient
    /\ capped' = capped \ {c} /\ told' = told \ {c} /\ misled' = misled \ {c}
    /\ unanswered' = unanswered \ {c}
    /\ UNCHANGED <<cfg, flags, waiters, reqPending, demux, job, q, driving, usable, reqs, ircd, auths, outcome>>

----------------------------------------------------------------------------
(* The ircd: external.  And the driver, which runs the bouncer's exchange:   *)
(* a new ACK of sasl starts it, an outcome ends it.                          *)

\* Nothing is on its way to or from the session.
Quiet == q = <<>> /\ reqs = 0 /\ demux.line.t = "" /\ \A c \in Clients : job[c] = "idle"

MaxQueue == 2

Say(ls) == Len(q) < MaxQueue /\ q' = q \o ls

\* A registration as the session hears of it.
Registration ==
    {<<"376">>, <<"LS", "376">>}
    \cup (IF own THEN {<<"LSx", "ACK", "376">>} ELSE {})
    \cup (IF own /\ able THEN {<<"LS", "ACK", "900", "903", "376">>, <<"LS", "ACK", "904", "376">>} ELSE {})
    \cup (IF own /\ ~able THEN {<<"LS", "ACK", "376">>} ELSE {})

Connect ==
    /\ offers = "off"
    /\ \E s \in Registration :
          /\ q' = [i \in 1 .. Len(s) |-> Line(s[i])]
          /\ offers' = CASE Len(s) = 1 -> "none" [] Len(s) = 2 -> "offered" [] OTHER -> "granted"
          /\ usable' = (s[1] # "LSx")
    /\ UNCHANGED <<met, cfg, flags, wait, saslClient, downlinks, capped, demux, job, driving, reqs, mix,
                   news, auths, told, misled, outcome>>

\* What the driver does with an ACK (registration.StepPost).
StepPost(ls) ==
    LET starts == own /\ able /\ usable /\ ~driving IN
    /\ driving' = (driving \/ starts)
    /\ mix' = IF starts THEN mix \cup {Bouncer} ELSE mix
    /\ Say(ls)

AnswerReq ==
    /\ reqs > 0 /\ reqs' = reqs - 1
    /\ \/ /\ offers # "none" /\ offers' = "granted" /\ StepPost(<<Line("ACK")>>)
          /\ UNCHANGED met
       \/ /\ Say(<<Line("NAK")>>)
          /\ Meets(Trouble(offers # "none", "nak"))
          /\ UNCHANGED <<driving, mix, offers>>
    /\ UNCHANGED <<cfg, flags, wait, saslClient, downlinks, capped, demux, job, usable, news, auths,
                   told, misled, outcome>>

EndExchange ==
    /\ mix # {}
    /\ Meets(Trouble(\E c \in mix \cap Clients : job[c] = "write", "late"))
    /\ \E ls \in {<<"900", "903">>, <<"904">>} : Say([i \in 1 .. Len(ls) |-> [t |-> ls[i], of |-> mix]])
    /\ mix' = {} /\ driving' = FALSE
    /\ UNCHANGED <<cfg, flags, wait, saslClient, downlinks, capped, demux, job, usable, reqs, offers, news,
                   auths, told, misled, outcome>>

\* Services come and go; with them an exchange that is under way.
Services ==
    /\ registered /\ news < MaxNews /\ news' = news + 1
    /\ \/ /\ offers = "none" /\ offers' = "offered" /\ UNCHANGED mix
          /\ \E t \in {"NEW", "NEWx"} : Say(<<Line(t)>>) /\ usable' = (t = "NEW")
          /\ UNCHANGED met
       \/ /\ offers \in {"offered", "granted"} /\ offers' = "none" /\ mix' = {}
          /\ Meets(Trouble(mix # {} \/ saslClient # "none" \/ unanswered # {} \/ ~Quiet, "del"))
          /\ Say(<<Line("901"), Line("DEL")>>)
          /\ UNCHANGED usable
    /\ UNCHANGED <<cfg, flags, wait, saslClient, downlinks, capped, demux, job, driving, reqs, auths,
                   told, misled, outcome>>

----------------------------------------------------------------------------
Init ==
    /\ met = {} /\ own \in BOOLEAN /\ able \in BOOLEAN /\ (own \/ ~able)
    /\ registered = FALSE /\ avail = FALSE /\ mechs = TRUE /\ upCap = FALSE /\ offer = FALSE
    /\ waiters = {} /\ reqPending = FALSE /\ saslClient = "none" /\ bPending = FALSE
    /\ bFailed = FALSE /\ loggedIn = FALSE /\ downlinks = {} /\ capped = {}
    /\ demux = [line |-> Line(""), todo |-> <<>>, had |-> FALSE]
    /\ job = [c \in Clients |-> "idle"]
    /\ q = <<>> /\ driving = FALSE /\ usable = TRUE /\ offers = "off" /\ reqs = 0 /\ mix = {}
    /\ news = 0 /\ auths = 0 /\ unanswered = {} /\ told = {} /\ misled = {}
    /\ outcome = [of |-> {}, to |-> {}]

Next ==
    \/ Take \/ Done \/ Note \/ AckCaps \/ AckOwner \/ Waiters \/ New \/ NewReq \/ Del
    \/ Offer \/ Account \/ Outcome \/ completeRegistration \/ HandleDisconnect
    \/ \E c \in Clients : \/ Attach(c) \/ notifyAttachCaps(c) \/ SendNew(c) \/ RequestClientSASL(c)
                          \/ WaitForAck(c) \/ forwardClientAuthenticate(c) \/ Authenticate(c)
                          \/ Detach(c)
    \/ Connect \/ AnswerReq \/ EndExchange \/ Services

Spec == Init /\ [][Next]_vars

----------------------------------------------------------------------------
\* "Two AUTHENTICATE exchanges can't interleave on one uplink" (sasl.go:49).
NeverInterleaved == Cardinality(mix) <= 1

\* Only the client whose exchange it was is sent the outcome.
OutcomeToItsClient == outcome.to \subseteq outcome.of

\* An exchange is one client's, from its first AUTHENTICATE to the outcome.  Five things
\* break this: sasl is withdrawn while an exchange or a REQ is under way ("del"), a client
\* leaves in the middle of its exchange ("leave"), a client's REQ or AUTHENTICATE overlaps
\* a CAP NEW or DEL ("race"), its AUTHENTICATE overlaps the outcome ("late"), or one of
\* these is written after the uplink was lost ("lost").
ExchangeOwned ==
    met \cap {"del", "leave", "race", "late", "lost"} = {} => NeverInterleaved /\ OutcomeToItsClient

\* A client that asked for sasl is told yes or no (RequestClientSASL, finishSASLWaiters).
AllAnswered == Quiet => unanswered = {}

\* It is, unless the ACK or the loss of the uplink overtakes it between the check and the
\* queue of waiters.
WaitersAnswered == met \cap {"ack", "lost"} = {} => AllAnswered

\* Clients that watch for it know whether sasl is on offer, whoever took it or gave it
\* back (rules 1 to 4 of bouncerOwnsSASLLocked).
AlwaysTold == (Quiet /\ registered) => told = (IF offer THEN downlinks ELSE {})

\* They do, but for a client whose attach found sasl on offer and which was sent that only
\* after the CAP DEL.
OfferTold == (Quiet /\ registered) => told \ misled = (IF offer THEN downlinks \ misled ELSE {})

\* sasl is held back for a login of the bouncer only while there is one.
PendingIsReal == (Quiet /\ registered /\ bPending) => Bouncer \in mix

\* It is, if the driver can log in at all, and unless the ircd refuses the bouncer's REQ
\* or withdraws sasl under a login.
HeldBackForReason == able /\ met \cap {"nak", "del"} = {} => PendingIsReal
=============================================================================
