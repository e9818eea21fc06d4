------------------------------ MODULE Tracker ------------------------------
(***************************************************************************)
(* The reply tracker of a session (internal/session/tracker.go) between    *)
(* the clients that ask (forwardSolicitous, Detach) and the ircd that      *)
(* answers (HandleMessage).  Clients share one uplink, so a numeric has to *)
(* be given back to whoever asked for it.                                  *)
(*                                                                         *)
(* The tracker's maps of queues are one set of pending requests: a request *)
(* names its map and its key, and the order in a queue is the order of     *)
(* ids.  Labels and WHOX tokens are ids.  What a reply says is abstract:   *)
(* its numeric, the one parameter that routing reads, and, for the         *)
(* properties only, the request it answers.                                *)
(***************************************************************************)
EXTENDS Naturals, Sequences, FiniteSets

CONSTANTS Clients,    \* downlinks
          Commands,   \* what a client may ask: [cmd, on, letters, remote]
          Uplinks,    \* kinds of uplink: "labels", "plain", "ircu"
          Refusals,   \* whether servers refuse: 402, 403, 482
          MaxReq      \* bound on requests

ASSUME TrackerAssumption ==
    /\ MaxReq \in Nat /\ Refusals \in BOOLEAN
    /\ Uplinks \subseteq {"labels", "plain", "ircu"}

VARIABLES up,        \* the kind of uplink
          attached,  \* Session.downlinks
          reqs,      \* the pending requests of all maps
          ready,     \* RequestTracker.ready: lines that may be written now
          sticky,    \* follow-up routes: [on, by]
          pend,      \* the line of a client's goroutine between Begin and WriteMessage
          n,         \* ids given out
          aged,      \* requests up to this id are older than requestTTL
          asked,     \* history: who is to have the answer to a request
          wire,      \* lines written to the ircd and not fully answered
          mixed,     \* history: requests that an ambiguous reply may have answered
          last,      \* history: the last routed reply and who was sent it
          late       \* history: <<client, id>> that joined an exchange half answered

vars == <<up, attached, reqs, ready, sticky, pend, n, aged, asked, wire, last, mixed, late>>

----------------------------------------------------------------------------
(* Tables. *)

\* Mutant of whoisEndCodes: a WHOIS is over at its 401.
WhoisEnds401 == {318, 401}

whoisEndCodes == {318}

endCodesFor(cmd) ==
    CASE cmd \in {"WHO", "WHOX"} -> {315, 403, 402}
      [] cmd = "WHOIS" -> whoisEndCodes
      [] cmd = "WHOWAS" -> {369, 431}
      [] cmd = "STATS" -> {219, 402}
      [] cmd = "LIST" -> {323, 402}
      [] cmd = "NAMES" -> {366, 401, 403}
      [] cmd = "LINKS" -> {365, 402}
      [] cmd = "ISON" -> {303, 461}
      [] cmd = "USERHOST" -> {302, 461}
      [] cmd = "LUSERS" -> IF up = "ircu" THEN {255} ELSE {266}
      [] cmd = "TIME" -> {391, 402}
      [] cmd = "TRACE" -> {262, 402, 481, 421}
      [] cmd = "ADMIN" -> {259, 402}
      [] cmd = "MODE" -> {221, 324, 368, 349, 347, 729, 401, 403, 442, 461, 472, 482}
      [] cmd = "TOPIC" -> {331, 333, 401, 403, 442, 461}
      [] cmd = "SILENCE" -> {272}

replyCodesFor(cmd) ==
    CASE cmd \in {"WHO", "WHOX"} -> {352, 315, 354, 402, 403}
      [] cmd = "WHOWAS" -> {314, 312, 330, 338, 406, 369, 431}
      [] cmd = "LIST" -> {321, 322, 323, 402}
      [] cmd = "NAMES" -> {353, 366, 401, 403}
      [] cmd = "LINKS" -> {364, 365, 402}
      [] cmd = "STATS" -> (211 .. 219) \cup (241 .. 250) \cup {402}
      [] cmd = "LUSERS" -> (250 .. 255) \cup {265, 266}
      [] cmd = "TRACE" -> (200 .. 208) \cup {261, 262, 402, 481, 421}
      [] cmd = "ADMIN" -> (256 .. 259) \cup {402}
      [] cmd = "MODE" -> {221, 324, 329, 367, 368, 348, 349, 346, 347, 728, 729,
                          401, 403, 442, 461, 472, 482}
      [] cmd = "TOPIC" -> {331, 332, 333, 401, 403, 442, 461}
      [] cmd = "SILENCE" -> {271, 272}
      [] OTHER -> endCodesFor(cmd)

IsWHOISReply == {301, 311, 312, 313, 317, 318, 319, 401}

holdWrite(cmd) ==
    cmd \in {"LIST", "WHO", "WHOX", "NAMES", "LINKS", "LUSERS", "TRACE",
             "ADMIN", "SILENCE", "WHOWAS"}

takesServerTarget(cmd) ==
    cmd \in {"TIME", "ADMIN", "TRACE", "LIST", "LINKS", "LUSERS", "WHOWAS"}

\* Which kind's head is asked first whether a numeric is its.
serialKindOrder ==
    <<"LIST", "WHO", "WHOX", "NAMES", "ISON", "USERHOST", "LUSERS", "LINKS",
      "WHOWAS", "TIME", "TRACE", "ADMIN", "SILENCE">>

isModeEnquiryError == {401, 403, 442, 461, 472, 482}

modeNumericLetter(num) ==
    CASE num \in {221, 324, 329} -> {}
      [] num \in {367, 368} -> {"b"}
      [] num \in {348, 349} -> {"e"}
      [] num \in {346, 347} -> {"I"}
      [] num \in {728, 729} -> {"q"}

\* The numerics whose parameter names the channel or nick asked about.
modeEnquiryNumericTarget ==
    {221, 324, 329, 367, 368, 348, 349, 346, 347, 728, 729, 403, 442, 472, 482, 401, 461}
topicEnquiryNumericTarget == {331, 332, 333, 401, 403, 442, 461}
namesNumericTarget == {353, 366, 401, 403}
isSTATSNumeric == (211 .. 219) \cup (241 .. 250)

----------------------------------------------------------------------------
(* Queues.  A tracker is [reqs, ready]. *)

T == [reqs |-> reqs, ready |-> ready]

Line(id, q) == [id |-> id, q |-> q]
NoLine == [id |-> 0]

SameQueue(r, s) == r.map = s.map /\ r.key = s.key

Heads(S) == {r \in S : \A s \in S : SameQueue(s, r) => r.id <= s.id}

\* Mutant of Forget: a client that leaves takes its requests and releases nothing.
ForgetHeld(t, gone) == [t EXCEPT !.reqs = @ \ gone]

\* dropQueueClient, expireQueue and popWaiters alike: when the head of a queue
\* goes, the write held behind it is released.
Forget(t, gone) ==
    LET kept == t.reqs \ gone
        freed == {r \in Heads(kept) : r.hold /\ \E g \in gone \cap Heads(t.reqs) : SameQueue(g, r)}
    IN  [reqs  |-> (kept \ freed) \cup {[r EXCEPT !.hold = FALSE] : r \in freed},
         ready |-> t.ready \cup {Line(r.id, r.q) : r \in freed}]

popWaiters(t, rs) == Forget(t, rs)

expireLocked(t) == Forget(t, {r \in t.reqs : r.id <= aged})

\* A request with other waiters goes on without the client, one without is dropped.
DropClient(t, c) ==
    Forget([t EXCEPT !.reqs = {IF r.by = {c} THEN r ELSE [r EXCEPT !.by = @ \ {c}] : r \in @}],
           {r \in t.reqs : r.by = {c}})

----------------------------------------------------------------------------
(* Begin: a client asks. *)

MapOf(q) ==
    CASE up = "labels" -> "label"
      [] up # "labels" /\ q.cmd = "WHOX" -> "whox"
      [] up # "labels" /\ q.cmd = "WHOIS" -> "whois"
      [] up # "labels" /\ q.cmd = "STATS" /\ q.on # "" -> "stats"
      [] up # "labels" /\ q.cmd = "TOPIC" -> "topic"
      [] up # "labels" /\ q.cmd = "MODE" -> "mode"
      [] up # "labels" /\ q.cmd = "NAMES" /\ q.on # "" -> "names"
      [] OTHER -> "serial"

KeyOf(q, id) ==
    CASE MapOf(q) \in {"label", "whox"} -> <<id>>
      [] MapOf(q) = "mode" -> <<q.on, q.letters>>
      [] MapOf(q) = "serial" -> <<q.cmd>>
      [] OTHER -> <<q.on>>

Waiting(t, q) == {r \in t.reqs : r.map = MapOf(q) /\ r.key = KeyOf(q, 0)}

\* The exchange in flight an identical enquiry joins instead of being written.
Coalesces(t, q) ==
    CASE MapOf(q) = "whox" ->
             {r \in t.reqs : r.map = "whox" /\ r.q.on = q.on /\ r.q.letters = q.letters}
      [] MapOf(q) \in {"whois", "stats", "names"} ->
             {r \in Waiting(t, q) : r.q.remote = q.remote}
      [] MapOf(q) = "mode" -> Waiting(t, q) \cap Heads(t.reqs)
      [] OTHER -> {}

Holds(t, q) ==
    /\ Waiting(t, q) # {}
    /\ \/ MapOf(q) \in {"whois", "stats", "names"}
       \/ /\ MapOf(q) = "serial"
          /\ \/ holdWrite(q.cmd)
             \/ takesServerTarget(q.cmd) /\ \E r \in Waiting(t, q) : r.q.remote # q.remote

Begun(id) == \E i \in 1 .. Len(wire) : wire[i].id = id /\ wire[i].begun

\* forwardSolicitous up to the write, for a client that asks q.
Begin(c, q) ==
    LET t == expireLocked(T)
        id == n + 1
        new == [id |-> id, map |-> MapOf(q), key |-> KeyOf(q, id), q |-> q,
                by |-> {c}, hold |-> Holds(t, q)]
    IN  /\ c \in attached
        /\ pend[c] = NoLine
        /\ n < MaxReq
        /\ ready' = t.ready
        /\ \/ /\ Coalesces(t, q) = {}
              /\ reqs' = t.reqs \cup {new}
              /\ n' = id
              /\ asked' = [asked EXCEPT ![id] = {c}]
              /\ pend' = [pend EXCEPT ![c] = IF new.hold THEN NoLine ELSE Line(id, q)]
              /\ UNCHANGED late
           \/ /\ n > 0
              /\ \E r \in Coalesces(t, q) :
                   /\ reqs' = (t.reqs \ {r}) \cup {[r EXCEPT !.by = @ \cup {c}]}
                   /\ asked' = [asked EXCEPT ![r.id] = @ \cup {c}]
                   /\ late' = late \cup (IF c \notin r.by /\ Begun(r.id) THEN {<<c, r.id>>} ELSE {})
              /\ UNCHANGED <<n, pend>>
        /\ UNCHANGED <<up, attached, sticky, aged, wire, last, mixed>>

----------------------------------------------------------------------------
(* The uplink: external.  An ircd answers its own commands in the order they *)
(* come; a remote server, and a LIST, which is sent as the queue allows,     *)
(* answer when they can; a remote server may never answer.                   *)

Answers(q) ==
    LET local ==
          CASE q.cmd = "WHOIS" -> {<<311, 318>>, <<401, 318>>}
            [] q.cmd = "STATS" -> {<<249, 219>>}
            [] q.cmd = "TIME" -> {<<391>>}
            [] q.cmd = "LIST" -> {<<322, 323>>}
            [] q.cmd = "ISON" -> {<<303>>}
            [] q.cmd = "LUSERS" -> {IF up = "ircu" THEN <<251, 255>> ELSE <<251, 266>>}
            [] q.cmd = "WHO" -> {<<352, 315>>}
            [] q.cmd = "WHOX" -> {<<354, 315>>}
            [] q.cmd = "NAMES" -> {<<353, 366>>}
            [] q.cmd = "TOPIC" -> {<<331>>, <<332, 333>>}
            [] q.cmd = "MODE" /\ q.letters = {} -> {<<324, 329>>}
            [] q.cmd = "MODE" /\ q.letters = {"b"} -> {<<367, 368>>}
        refused ==
          CASE ~Refusals -> {}
            [] Refusals /\ q.cmd = "MODE" -> {<<403>>, <<482>>}
            [] Refusals /\ q.remote # "" /\ q.cmd # "WHOIS" -> {<<402>>}
            [] OTHER -> {}
    IN  local \cup refused \cup (IF q.remote # "" THEN {<<>>} ELSE {})

Detached(q) == q.remote # "" \/ q.cmd = "LIST"

\* What the wire shows of a reply: the parameter its numeric carries (some ircds
\* rewrite the mask of a 315), and the label or WHOX token, 0 when there is none.
Shows(q, num) ==
    CASE num = 402 -> q.remote
      [] num = 315 /\ up = "ircu" -> "normalised"
      [] num \in {315, 219} \cup IsWHOISReply \cup modeEnquiryNumericTarget
              \cup topicEnquiryNumericTarget \cup namesNumericTarget -> q.on
      [] OTHER -> ""

Token(id, num) == IF up = "labels" \/ (num = 354 /\ up # "ircu") THEN id ELSE 0

\* WriteMessage of a line, and what the ircd will make of it.
Put(l) ==
    \E a \in Answers(l.q) :
        wire' = IF a = <<>> THEN wire
                ELSE Append(wire, [id |-> l.id, q |-> l.q, todo |-> a, begun |-> FALSE])

----------------------------------------------------------------------------
(* Routing.  Each route gives the set of its hits: who is served, and whether *)
(* the exchange ends.  The first route with a hit decides.                    *)

Hit(rs, ends) == [rs |-> rs, ends |-> ends]

Oldest(S) == {r \in S : \A s \in S : r.id <= s.id}

EndsWith(r, num) == num \in endCodesFor(r.q.cmd)

ByKey(t, map, key, num) ==
    {Hit({r}, EndsWith(r, num)) : r \in {h \in Heads(t.reqs) : h.map = map /\ h.key = key}}

LabelRoute(t, m) == {Hit({r}, EndsWith(r, m.num)) : r \in
                        {x \in t.reqs : x.map = "label" /\ x.id = m.token}}

\* routeModeLocked: an error ends every enquiry about the target; a list
\* numeric goes to the enquiry for that list, else to one that includes it,
\* else to the oldest about the target.
ModeRoute(t, m) ==
    LET heads == {h \in Heads(t.reqs) : h.map = "mode" /\ h.q.on = m.shows
                                        /\ m.num \in replyCodesFor("MODE")}
        exact == {h \in heads : h.q.letters = modeNumericLetter(m.num)}
        within == {h \in heads : modeNumericLetter(m.num) # {}
                                 /\ modeNumericLetter(m.num) \subseteq h.q.letters}
        found == IF exact # {} THEN exact ELSE IF within # {} THEN Oldest(within) ELSE Oldest(heads)
    IN  IF m.num \notin modeEnquiryNumericTarget \/ heads = {} THEN {}
        ELSE IF m.num \in isModeEnquiryError THEN {Hit(heads, TRUE)}
        ELSE {Hit({r}, EndsWith(r, m.num)) : r \in found}

\* routeTargetQueue for TOPIC and NAMES.
TargetRoute(t, m, map, nums) ==
    IF m.num \in nums THEN ByKey(t, map, <<m.shows>>, m.num) ELSE {}

WhoisRoute(t, m) == IF m.num \in IsWHOISReply THEN ByKey(t, "whois", <<m.shows>>, m.num) ELSE {}

\* 402 by the server it names, 219 by its letter, the rest when only one letter
\* is pending.
StatsRoute(t, m) ==
    LET heads == {h \in Heads(t.reqs) : h.map = "stats"}
    IN  CASE m.num = 402 -> {Hit({r}, TRUE) : r \in {h \in heads : h.q.remote # "" /\ h.q.remote = m.shows}}
          [] m.num = 219 -> {Hit({r}, TRUE) : r \in {h \in heads : h.q.on = m.shows}}
          [] m.num \in isSTATSNumeric /\ m.num # 219 /\ Cardinality(heads) = 1 ->
                 {Hit(heads, FALSE)}
          [] OTHER -> {}

\* A 354 is routed by its token and never guessed at, except on ircds that
\* send 0; a 315 by its mask, there by age.
WhoxRoute(t, m) ==
    LET whox == {r \in t.reqs : r.map = "whox"}
        mask == {r \in whox : r.q.on = m.shows}
    IN  CASE m.num = 354 /\ m.token # 0 -> {Hit({r \in whox : r.id = m.token}, FALSE)}
          [] m.num = 315 /\ mask # {} -> {Hit(Oldest(mask), TRUE)}
          [] m.num = 315 /\ mask = {} /\ up = "ircu" /\ whox # {} -> {Hit(Oldest(whox), TRUE)}
          [] m.num = 354 /\ m.token = 0 /\ Cardinality(whox) = 1 -> {Hit(whox, FALSE)}
          [] OTHER -> {}

\* serialHeadFor: the first kind, in the fixed order, whose head knows the numeric.
SerialRoute(t, m) ==
    LET heads == {h \in Heads(t.reqs) : h.map = "serial" /\ m.num \in replyCodesFor(h.q.cmd)
                                        /\ \E i \in DOMAIN serialKindOrder : serialKindOrder[i] = h.q.cmd}
        at(h) == CHOOSE i \in 1 .. Len(serialKindOrder) : serialKindOrder[i] = h.q.cmd
    IN  {Hit({h}, EndsWith(h, m.num)) : h \in {x \in heads : \A y \in heads : at(x) <= at(y)}}

Routes(t, m) ==
    <<LabelRoute(t, m), ModeRoute(t, m),
      TargetRoute(t, m, "topic", topicEnquiryNumericTarget),
      TargetRoute(t, m, "names", namesNumericTarget),
      WhoisRoute(t, m), StatsRoute(t, m), WhoxRoute(t, m), SerialRoute(t, m)>>

FirstHits(t, m) ==
    LET rs == Routes(t, m)
        some == {i \in DOMAIN rs : rs[i] # {}}
    IN  IF some = {} THEN {Hit({}, FALSE)}
        ELSE rs[CHOOSE i \in some : \A j \in some : i <= j]

By(rs) == UNION {r.by : r \in rs}

\* HandleMessage after RouteAll: the dests that are still attached; with no
\* dest a stray 354 or 315 is dropped and anything else goes to everyone.
Delivered(m, dests) ==
    CASE dests # {} -> dests \cap attached
      [] dests = {} /\ m.num \in {354, 315} -> {}
      [] OTHER -> attached

\* routeLocked on reply m, after the sweep that precedes it.
RouteAll(m) ==
    LET t == expireLocked(T)
        stuck == {s \in sticky : m.num = 329 /\ s.on = m.shows}
        fresh == {s \in sticky : s.id > aged}
    IN  \/ /\ stuck \cap fresh # {}
           /\ LabelRoute(t, m) = {}
           /\ \E s \in stuck \cap fresh : last' = [id |-> m.id, num |-> m.num, to |-> Delivered(m, s.by)]
           /\ sticky' = fresh \ stuck
           /\ reqs' = t.reqs /\ ready' = t.ready
        \/ /\ stuck \cap fresh = {} \/ LabelRoute(t, m) # {}
           /\ \E h \in FirstHits(t, m) :
                LET u == IF h.ends THEN popWaiters(t, h.rs) ELSE t IN
                /\ reqs' = u.reqs /\ ready' = u.ready
                /\ sticky' = IF m.num = 324 /\ h.ends
                             THEN {s \in fresh : s.on # m.shows}
                                  \cup {[on |-> m.shows, by |-> By(h.rs), id |-> m.id]}
                             ELSE fresh
                /\ last' = [id |-> m.id, num |-> m.num, to |-> Delivered(m, By(h.rs))]

----------------------------------------------------------------------------
(* Steps. *)

\* The client's goroutine writes what Begin said to write, whatever has become
\* of the request since.
Write(c) ==
    /\ pend[c] # NoLine
    /\ Put(pend[c])
    /\ pend' = [pend EXCEPT ![c] = NoLine]
    /\ UNCHANGED <<up, attached, reqs, ready, sticky, n, aged, asked, last, mixed, late>>

\* flushTrackerWrites, by whoever released the line.
TakeReady ==
    /\ \E l \in ready : ready' = ready \ {l} /\ Put(l)
    /\ UNCHANGED <<up, attached, reqs, sticky, pend, n, aged, asked, last, mixed, late>>

\* The requests, on the wire or taken for written after the sweep, that could have caused the
\* next reply to line i, by what the wire shows of it.
CanCause(l, i) ==
    \E a \in Answers(l.q) : \E k \in DOMAIN a :
        /\ a[k] = Head(wire[i].todo)
        /\ Shows(l.q, a[k]) = Shows(wire[i].q, a[k])
        /\ Token(l.id, a[k]) = Token(wire[i].id, a[k])

Suspects(i) ==
    {wire[j].id : j \in {k \in DOMAIN wire : CanCause(wire[k], i)}}
    \cup {r.id : r \in {x \in expireLocked(T).reqs : ~x.hold /\ CanCause(x, i)}}

\* A late reply: its request was dropped, by age or with its client, but what it
\* set off on the wire goes on.
Stray(i) ==
    ~ \E r \in expireLocked(T).reqs \cup sticky : r.id = wire[i].id

\* The next reply to line i, taken by the demux.
Reply(i) ==
    LET w == wire[i]
        num == Head(w.todo)
        m == [id |-> w.id, num |-> num, shows |-> Shows(w.q, num), token |-> Token(w.id, num)]
    IN  /\ Detached(w.q) \/ \A j \in 1 .. i - 1 : Detached(wire[j].q)
        /\ RouteAll(m)
        /\ wire' = IF Len(w.todo) = 1
                   THEN SubSeq(wire, 1, i - 1) \o SubSeq(wire, i + 1, Len(wire))
                   ELSE [wire EXCEPT ![i].todo = Tail(@), ![i].begun = TRUE]
        /\ mixed' = mixed \cup (IF Cardinality(Suspects(i)) > 1 THEN Suspects(i) ELSE {})
                          \cup (IF Stray(i) THEN {r.id : r \in reqs} ELSE {})
        /\ UNCHANGED <<up, attached, pend, n, aged, asked, late>>

\* A line nobody asked for: it is swept like any other.
Chatter ==
    /\ LET t == expireLocked(T) IN t # T /\ reqs' = t.reqs /\ ready' = t.ready
    /\ sticky' = {s \in sticky : s.id > aged}
    /\ UNCHANGED <<up, attached, pend, n, aged, asked, wire, last, mixed, late>>

\* requestTTL passes for the requests up to some id.
Age ==
    /\ \E k \in aged + 1 .. n : aged' = k
    /\ UNCHANGED <<up, attached, reqs, ready, sticky, pend, n, asked, wire, last, mixed, late>>

\* Detach, from the goroutine that serves the client.
Detach(c) ==
    LET t == DropClient(T, c)
        left == {[s EXCEPT !.by = @ \ {c}] : s \in sticky}
    IN  /\ c \in attached
        /\ pend[c] = NoLine
        /\ attached' = attached \ {c}
        /\ reqs' = t.reqs /\ ready' = t.ready
        /\ sticky' = {s \in left : s.by # {}}
        /\ UNCHANGED <<up, pend, n, aged, asked, wire, last, mixed, late>>

\* HandleDisconnect of a registered session: a new tracker, and no clients.
HandleDisconnect ==
    /\ attached # {}
    /\ attached' = {} /\ reqs' = {} /\ ready' = {} /\ sticky' = {} /\ wire' = <<>>
    /\ pend' = [c \in Clients |-> NoLine]
    /\ UNCHANGED <<up, n, aged, asked, last, mixed, late>>

Nothing == [id |-> 0, num |-> 0, to |-> {}]

Init ==
    /\ up \in Uplinks
    /\ attached = Clients
    /\ reqs = {} /\ ready = {} /\ sticky = {} /\ wire = <<>> /\ late = {} /\ mixed = {}
    /\ pend = [c \in Clients |-> NoLine]
    /\ n = 0 /\ aged = 0
    /\ asked = [i \in 1 .. MaxReq |-> {}]
    /\ last = Nothing

Next ==
    \/ \E c \in Clients, q \in Commands : Begin(c, q)
    \/ \E c \in Clients : Write(c) \/ Detach(c)
    \/ \E i \in 1 .. Len(wire) : Reply(i)
    \/ TakeReady \/ Chatter \/ Age \/ HandleDisconnect

Spec == Init /\ [][Next]_vars

----------------------------------------------------------------------------
TypeOK ==
    /\ up \in Uplinks /\ attached \subseteq Clients
    /\ n \in 0 .. MaxReq /\ aged \in 0 .. n
    /\ \A r \in reqs : r.id \in 1 .. n /\ r.q \in Commands /\ r.by # {}
                       /\ r.by \subseteq attached /\ r.hold \in BOOLEAN
    /\ \A l \in ready : l.id \in 1 .. n
    /\ \A c \in Clients : pend[c] = NoLine \/ pend[c].id \in 1 .. n

\* A write is held only behind an exchange that is in flight: the head of a
\* queue is never itself on hold, whether heads go by an end numeric, by a
\* client that leaves or by age.  Else the whole queue waits for nothing.
NoHeldHead == \A r \in Heads(reqs) : ~r.hold

\* "RequestTracker routes solicitous replies to the originating downlink":
\* a reply that only one request in flight can have caused goes to those of its
\* askers who are still there, and to no one else.  (A reply that two requests
\* could have caused, or that comes when its own request was given up, may end
\* the wrong exchange: the property says nothing more of the others then.)
TellableIsRouted ==
    [][\A i \in DOMAIN wire :
          LET id == wire[i].id IN
          (/\ Reply(i)
           /\ Suspects(i) = {id}
           /\ id > aged
           /\ id \notin mixed
           /\ asked[id] \cap attached # {})
          => last'.to = asked[id] \cap attached]_vars

\* Everyone who shares an exchange has heard it from its first reply on.
NoLateJoin == late = {}
=============================================================================
