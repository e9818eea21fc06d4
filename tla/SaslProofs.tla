----------------------------- MODULE SaslProofs -----------------------------
(***************************************************************************)
(* Proofs about Sasl, for any number of clients, of exchanges, of changes  *)
(* of what the ircd offers and of kinds of trouble met.                    *)
(*                                                                         *)
(* OffersAreTold needs only what clients know (OfferInv).  The others need *)
(* what holds whatever goes wrong (Base): which line the demux has in hand *)
(* at each of its steps, and that before a registration there are no       *)
(* clients, REQs or exchanges (Alone).  AskersAnswered follows a client's  *)
(* REQ through the waiters to its answer (Waiting, Awaited).               *)
(* HeldBackForALogin follows a login of the bouncer from the CAP NEW or    *)
(* the ACK it begins with through its REQ and its exchange to the outcome  *)
(* (Tries, Pends), for which the driver has to agree with the session on   *)
(* what was last offered (Came) and with the ircd on whether there is an   *)
(* exchange (Driven).                                                      *)
(*                                                                         *)
(* ExchangesAreOwned says that whoever has an exchange with the ircd is    *)
(* whom saslClient names, or the bouncer when it names nobody (Held).  The *)
(* session's two checks, of saslClient and of the bouncer's own login, see *)
(* only the lines handled so far; they suffice because the lines of a      *)
(* withdrawal and of a new offer are handled in their order (Announced),   *)
(* because by the time sasl is offered anew the session has forgotten all  *)
(* that was of the old one (Forgotten), and because a bouncer whose login  *)
(* failed, after which clients may have theirs, was granted sasl before,   *)
(* so that its driver does not ask again (Granted).  A step that meets one *)
(* of the kinds of trouble a claim excepts leaves nothing to show for it,  *)
(* as met only grows (KindsKept).                                          *)
(***************************************************************************)
EXTENDS Sasl, FiniteSetTheorems, TLAPS

Parties == Clients \cup {Bouncer}

LineTypes == {"", "LS", "LSx", "ACK", "NAK", "NEW", "NEWx", "DEL", "900", "901", "903", "904", "376"}
Lines == [t : LineTypes, of : SUBSET Parties]

\* What the demux may have left to do.
Todos ==
  {<<>>, <<"note">>, <<"caps", "owner">>, <<"owner">>,
   <<"caps", "owner", "offer", "ackwaiters">>, <<"owner", "offer", "ackwaiters">>,
   <<"offer", "ackwaiters">>, <<"ackwaiters">>, <<"waiters">>,
   <<"new", "offer", "req">>, <<"offer", "req">>, <<"req">>,
   <<"del", "offer", "delwaiters">>, <<"offer", "delwaiters">>, <<"delwaiters">>,
   <<"account">>, <<"outcome", "offer">>, <<"complete", "offer">>, <<"offer">>}

TypeOK ==
  /\ met \subseteq Kinds /\ own \in BOOLEAN /\ able \in BOOLEAN
  /\ registered \in BOOLEAN /\ avail \in BOOLEAN /\ mechs \in BOOLEAN /\ upCap \in BOOLEAN
  /\ offer \in BOOLEAN /\ bPending \in BOOLEAN /\ bFailed \in BOOLEAN /\ loggedIn \in BOOLEAN
  /\ waiters \subseteq Clients /\ reqPending \in BOOLEAN
  /\ saslClient \in Clients \cup {"none"}
  /\ downlinks \subseteq Clients /\ capped \subseteq Clients
  /\ unanswered \subseteq Clients /\ told \subseteq Clients /\ misled \subseteq Clients
  /\ demux \in [line : Lines, todo : Todos, had : BOOLEAN]
  /\ job \in [Clients -> {"idle", "announce", "tell", "wait", "write"}]
  /\ q \in Seq(Lines)
  /\ driving \in BOOLEAN /\ usable \in BOOLEAN /\ offers \in {"off", "none", "offered", "granted"}
  /\ reqs \in Nat /\ mix \subseteq Parties /\ news \in Nat /\ auths \in Nat
  /\ outcome \in [of : SUBSET Parties, to : SUBSET Clients]

-----------------------------------------------------------------------------
(* The steps a line takes, and the queue.                                  *)

LEMMA Rests ==
  /\ Tail(<<"note">>) = <<>> /\ Tail(<<"caps", "owner">>) = <<"owner">> /\ Tail(<<"owner">>) = <<>>
  /\ Tail(<<"caps", "owner", "offer", "ackwaiters">>) = <<"owner", "offer", "ackwaiters">>
  /\ Tail(<<"owner", "offer", "ackwaiters">>) = <<"offer", "ackwaiters">>
  /\ Tail(<<"offer", "ackwaiters">>) = <<"ackwaiters">> /\ Tail(<<"ackwaiters">>) = <<>>
  /\ Tail(<<"waiters">>) = <<>> /\ Tail(<<"new", "offer", "req">>) = <<"offer", "req">>
  /\ Tail(<<"offer", "req">>) = <<"req">> /\ Tail(<<"req">>) = <<>>
  /\ Tail(<<"del", "offer", "delwaiters">>) = <<"offer", "delwaiters">>
  /\ Tail(<<"offer", "delwaiters">>) = <<"delwaiters">> /\ Tail(<<"delwaiters">>) = <<>>
  /\ Tail(<<"account">>) = <<>> /\ Tail(<<"outcome", "offer">>) = <<"offer">>
  /\ Tail(<<"complete", "offer">>) = <<"offer">> /\ Tail(<<"offer">>) = <<>>
OBVIOUS

LEMMA RestTyped == ASSUME NEW x \in Todos, x # <<>> PROVE Tail(x) \in Todos
BY Rests, Zenon DEF Todos

\* What the demux is at determines what it has left.
LEMMA AtStage ==
  ASSUME demux.todo \in Todos
  PROVE  /\ At("note") => demux.todo = <<"note">>
         /\ At("caps") => demux.todo \in {<<"caps", "owner">>, <<"caps", "owner", "offer", "ackwaiters">>}
         /\ At("owner") => demux.todo \in {<<"owner">>, <<"owner", "offer", "ackwaiters">>}
         /\ At("ackwaiters") => demux.todo = <<"ackwaiters">>
         /\ At("waiters") => demux.todo = <<"waiters">>
         /\ At("new") => demux.todo = <<"new", "offer", "req">>
         /\ At("req") => demux.todo = <<"req">>
         /\ At("del") => demux.todo = <<"del", "offer", "delwaiters">>
         /\ At("delwaiters") => demux.todo = <<"delwaiters">>
         /\ At("account") => demux.todo = <<"account">>
         /\ At("outcome") => demux.todo = <<"outcome", "offer">>
         /\ At("complete") => demux.todo = <<"complete", "offer">>
         /\ At("offer") => demux.todo \in {<<"offer", "ackwaiters">>, <<"offer", "req">>,
                                           <<"offer", "delwaiters">>, <<"offer">>}
BY DEF Todos, At

LEMMA StepsTyped == ASSUME NEW t PROVE StepsOf(t) \in Todos
BY DEF StepsOf, Todos

\* A line of one of the types T is in the queue s.
Has(s, T) == \E i \in 1 .. Len(s) : s[i].t \in T

LEMMA HasTail ==
  ASSUME NEW s \in Seq(Lines), s # <<>>
  PROVE  /\ Head(s) \in Lines /\ Tail(s) \in Seq(Lines)
         /\ \A T : Has(s, T) <=> (Head(s).t \in T \/ Has(Tail(s), T))
<1>1. /\ Head(s) = s[1] /\ Head(s) \in Lines /\ Tail(s) \in Seq(Lines) /\ Len(s) \in Nat /\ Len(s) > 0
      /\ Len(Tail(s)) = Len(s) - 1 /\ \A i \in 1 .. Len(s) - 1 : Tail(s)[i] = s[i + 1]
  OBVIOUS
<1>2. ASSUME NEW T, Has(s, T) PROVE Head(s).t \in T \/ Has(Tail(s), T)
  <2>1. PICK i \in 1 .. Len(s) : s[i].t \in T
    BY <1>2 DEF Has
  <2>2. CASE i = 1
    BY <1>1, <2>1, <2>2
  <2>3. CASE i # 1
    <3>1. i - 1 \in 1 .. Len(s) - 1 /\ (i - 1) + 1 = i
      BY <1>1, <2>3
    <3> QED
      BY <1>1, <2>1, <3>1 DEF Has
  <2> QED
    BY <2>2, <2>3
<1>3. ASSUME NEW T, Head(s).t \in T \/ Has(Tail(s), T) PROVE Has(s, T)
  <2>1. CASE Head(s).t \in T
    BY <1>1, <2>1 DEF Has
  <2>2. CASE Has(Tail(s), T)
    <3>1. PICK i \in 1 .. Len(s) - 1 : Tail(s)[i].t \in T
      BY <1>1, <2>2 DEF Has
    <3>2. i + 1 \in 1 .. Len(s)
      BY <1>1
    <3> QED
      BY <1>1, <3>1, <3>2 DEF Has
  <2> QED
    BY <1>3, <2>1, <2>2
<1> QED
  BY <1>1, <1>2, <1>3

LEMMA HasJoin ==
  ASSUME NEW s \in Seq(Lines), NEW u \in Seq(Lines)
  PROVE  s \o u \in Seq(Lines) /\ \A T : Has(s \o u, T) <=> (Has(s, T) \/ Has(u, T))
<1>1. /\ s \o u \in Seq(Lines) /\ Len(s \o u) = Len(s) + Len(u) /\ Len(s) \in Nat /\ Len(u) \in Nat
      /\ \A i \in 1 .. Len(s) : (s \o u)[i] = s[i]
      /\ \A i \in 1 .. Len(u) : (s \o u)[Len(s) + i] = u[i]
  OBVIOUS
<1>2. ASSUME NEW T, Has(s \o u, T) PROVE Has(s, T) \/ Has(u, T)
  <2>1. PICK i \in 1 .. Len(s \o u) : (s \o u)[i].t \in T
    BY <1>2 DEF Has
  <2>2. CASE i <= Len(s)
    BY <1>1, <2>1, <2>2 DEF Has
  <2>3. CASE i > Len(s)
    <3>1. i - Len(s) \in 1 .. Len(u) /\ Len(s) + (i - Len(s)) = i
      BY <1>1, <2>3
    <3> QED
      BY <1>1, <2>1, <3>1 DEF Has
  <2> QED
    BY <1>1, <2>2, <2>3
<1>3. ASSUME NEW T, Has(s, T) \/ Has(u, T) PROVE Has(s \o u, T)
  <2>1. CASE Has(s, T)
    BY <1>1, <2>1 DEF Has
  <2>2. CASE Has(u, T)
    <3>1. PICK i \in 1 .. Len(u) : u[i].t \in T
      BY <2>2 DEF Has
    <3>2. Len(s) + i \in 1 .. Len(s \o u)
      BY <1>1
    <3> QED
      BY <1>1, <3>1, <3>2 DEF Has
  <2> QED
    BY <1>3, <2>1, <2>2
<1> QED
  BY <1>1, <1>2, <1>3

LEMMA HasOne ==
  ASSUME NEW x \in Lines
  PROVE  <<x>> \in Seq(Lines) /\ \A T : Has(<<x>>, T) <=> x.t \in T
BY DEF Has

LEMMA HasTwo ==
  ASSUME NEW x \in Lines, NEW y \in Lines
  PROVE  <<x, y>> \in Seq(Lines) /\ \A T : Has(<<x, y>>, T) <=> (x.t \in T \/ y.t \in T)
<1>1. Len(<<x, y>>) = 2 /\ <<x, y>>[1] = x /\ <<x, y>>[2] = y
  OBVIOUS
<1>2. 1 .. 2 = {1, 2}
  OBVIOUS
<1> QED
  BY <1>1, <1>2 DEF Has

LEMMA HasNone == \A T : ~Has(<<>>, T)
BY DEF Has

LEMMA LineTyped ==
  ASSUME NEW t \in LineTypes
  PROVE  Line(t) \in Lines /\ Line(t).t = t /\ Line(t).of = {}
BY DEF Line, Lines

\* The lines of a registration.
LEMMA Hello ==
  ASSUME NEW s \in Registration
  PROVE  [i \in 1 .. Len(s) |-> Line(s[i])] \in Seq(Lines)
<1>0. s \in {<<"376">>, <<"LS", "376">>, <<"LS", "ACK", "900", "903", "376">>, <<"LS", "ACK", "904", "376">>,
            <<"LSx", "ACK", "376">>, <<"LS", "ACK", "376">>}
  BY Zenon DEF Registration
<1>1. s \in Seq(LineTypes)
  <2>1. /\ <<"376">> \in Seq(LineTypes) /\ <<"LS", "376">> \in Seq(LineTypes)
        /\ <<"LSx", "ACK", "376">> \in Seq(LineTypes) /\ <<"LS", "ACK", "904", "376">> \in Seq(LineTypes)
        /\ <<"LS", "ACK", "376">> \in Seq(LineTypes)
        /\ <<"LS", "ACK", "900", "903", "376">> \in Seq(LineTypes)
    BY DEF LineTypes
  <2> QED
    BY <1>0, <2>1, Zenon
<1>2. Len(s) \in Nat /\ \A i \in 1 .. Len(s) : s[i] \in LineTypes
  BY <1>1
<1>3. \A i \in 1 .. Len(s) : Line(s[i]) \in Lines
  BY <1>2, LineTyped
<1> DEFINE u == [i \in 1 .. Len(s) |-> Line(s[i])]
<1>4. u \in [1 .. Len(s) -> Lines]
  BY <1>3
<1> QED
  BY <1>2, <1>4

LEMMA HelloTypes ==
  ASSUME NEW s \in Registration
  PROVE  ~Has([i \in 1 .. Len(s) |-> Line(s[i])], {"NAK", "NEW", "NEWx", "DEL", "901"})
<1>0. s \in {<<"376">>, <<"LS", "376">>, <<"LS", "ACK", "900", "903", "376">>, <<"LS", "ACK", "904", "376">>,
            <<"LSx", "ACK", "376">>, <<"LS", "ACK", "376">>}
  BY Zenon DEF Registration
<1>1. Len(s) \in Nat /\ \A i \in 1 .. Len(s) : s[i] \in {"376", "LS", "LSx", "ACK", "900", "903", "904"}
  BY <1>0
<1> DEFINE u == [i \in 1 .. Len(s) |-> Line(s[i])]
<1>2. Len(u) = Len(s) /\ \A i \in 1 .. Len(s) : u[i].t = s[i]
  BY <1>1 DEF Line
<1> QED
  BY <1>1, <1>2 DEF Has

\* An outcome carries whose it was.
LEMMA Ending ==
  ASSUME NEW ls \in {<<"900", "903">>, <<"904">>}, NEW m
  PROVE  \/ [i \in 1 .. Len(ls) |-> [t |-> ls[i], of |-> m]] = <<[t |-> "900", of |-> m], [t |-> "903", of |-> m]>>
         \/ [i \in 1 .. Len(ls) |-> [t |-> ls[i], of |-> m]] = <<[t |-> "904", of |-> m]>>
<1>1. 1 .. 2 = {1, 2} /\ 1 .. 1 = {1}
  OBVIOUS
<1>2. CASE ls = <<"900", "903">>
  <2>1. Len(ls) = 2 /\ ls[1] = "900" /\ ls[2] = "903"
    BY <1>2
  <2> QED
    BY <1>1, <2>1
<1>3. CASE ls = <<"904">>
  <2>1. Len(ls) = 1 /\ ls[1] = "904"
    BY <1>3
  <2> QED
    BY <1>1, <2>1
<1> QED
  BY <1>2, <1>3

\* What a step adds to the queue.
Adds(u) == q' = q \o u /\ q' \in Seq(Lines) /\ \A T : Has(q', T) <=> (Has(q, T) \/ Has(u, T))

LEMMA Said ==
  ASSUME TypeOK, NEW u \in Seq(Lines), Say(u)
  PROVE  Adds(u)
BY HasJoin DEF Say, Adds, TypeOK

LEMMA OneLine ==
  ASSUME NEW t \in LineTypes
  PROVE  <<Line(t)>> \in Seq(Lines) /\ \A T : Has(<<Line(t)>>, T) <=> t \in T
<1>1. Line(t) \in Lines /\ Line(t).t = t
  BY LineTyped
<1> QED
  BY <1>1, HasOne

LEMMA TwoLines ==
  ASSUME NEW t \in LineTypes, NEW v \in LineTypes
  PROVE  <<Line(t), Line(v)>> \in Seq(Lines) /\ \A T : Has(<<Line(t), Line(v)>>, T) <=> (t \in T \/ v \in T)
<1>1. Line(t) \in Lines /\ Line(t).t = t /\ Line(v) \in Lines /\ Line(v).t = v
  BY LineTyped
<1> QED
  BY <1>1, HasTwo

LEMMA AnswerSaid ==
  ASSUME TypeOK, AnswerReq
  PROVE  \E t \in {"ACK", "NAK"} : /\ Adds(<<Line(t)>>) /\ \A T : Has(<<Line(t)>>, T) <=> t \in T
                                   /\ t = "ACK" => /\ offers # "none" /\ offers' = "granted"
                                                   /\ StepPost(<<Line("ACK")>>)
                                   /\ t = "NAK" => /\ offers = "none" \/ "nak" \in met'
                                                   /\ UNCHANGED <<driving, mix, offers>>
<1>0. \A t \in {"ACK", "NAK"} : t \in LineTypes
  BY DEF LineTypes
<1>1. \A t \in {"ACK", "NAK"} : /\ <<Line(t)>> \in Seq(Lines) /\ \A T : Has(<<Line(t)>>, T) <=> t \in T
  BY <1>0, OneLine
<1>2. CASE /\ offers # "none" /\ offers' = "granted" /\ StepPost(<<Line("ACK")>>)
  <2>1. Say(<<Line("ACK")>>)
    BY <1>2 DEF StepPost
  <2> QED
    BY <1>1, <1>2, <2>1, Said
<1>3. CASE /\ Say(<<Line("NAK")>>)
           /\ Meets(Trouble(offers # "none", "nak"))
           /\ UNCHANGED <<driving, mix, offers>>
  <2>1. offers = "none" \/ "nak" \in met'
    BY <1>3 DEF Meets, Trouble
  <2> QED
    BY <1>1, <1>3, <2>1, Said
<1> QED
  BY <1>2, <1>3 DEF AnswerReq

LEMMA EndSaid ==
  ASSUME TypeOK, EndExchange
  PROVE  \E a, b \in {"900", "903", "904"} :
           LET x == [t |-> a, of |-> mix]
               y == [t |-> b, of |-> mix]
           IN  /\ x \in Lines /\ y \in Lines
               /\ \/ a = "900" /\ b = "903" /\ Adds(<<x, y>>) /\ \A T : Has(<<x, y>>, T) <=> (a \in T \/ b \in T)
                  \/ a = "904" /\ b = "904" /\ Adds(<<x>>) /\ \A T : Has(<<x>>, T) <=> a \in T
<1>1. \A a \in {"900", "903", "904"} : [t |-> a, of |-> mix] \in Lines
  BY DEF Lines, LineTypes, TypeOK
<1>2. PICK ls \in {<<"900", "903">>, <<"904">>} : Say([i \in 1 .. Len(ls) |-> [t |-> ls[i], of |-> mix]])
  BY DEF EndExchange
<1> DEFINE x == [t |-> "900", of |-> mix]
           y == [t |-> "903", of |-> mix]
           z == [t |-> "904", of |-> mix]
<1>3. x \in Lines /\ y \in Lines /\ z \in Lines /\ x.t = "900" /\ y.t = "903" /\ z.t = "904"
  BY <1>1
<1>4. Say(<<x, y>>) \/ Say(<<z>>)
  BY <1>2, Ending
<1>5. CASE Say(<<x, y>>)
  <2>1. <<x, y>> \in Seq(Lines) /\ \A T : Has(<<x, y>>, T) <=> ("900" \in T \/ "903" \in T)
    <3>1. \A T : Has(<<x, y>>, T) <=> (x.t \in T \/ y.t \in T)
      BY <1>3, HasTwo
    <3> QED
      BY <1>3, <3>1, HasTwo
  <2>2. Adds(<<x, y>>)
    BY <1>5, <2>1, Said
  <2> QED
    BY <1>3, <2>1, <2>2
<1>6. CASE Say(<<z>>)
  <2>1. <<z>> \in Seq(Lines) /\ \A T : Has(<<z>>, T) <=> "904" \in T
    BY <1>3, HasOne, Zenon
  <2>2. Adds(<<z>>)
    BY <1>6, <2>1, Said
  <2> QED
    BY <1>3, <2>1, <2>2
<1> QED
  BY <1>4, <1>5, <1>6

LEMMA ServicesSaid ==
  ASSUME TypeOK, Services
  PROVE  \/ /\ offers = "none" /\ offers' = "offered" /\ UNCHANGED mix
            /\ \E t \in {"NEW", "NEWx"} : /\ Adds(<<Line(t)>>) /\ usable' = (t = "NEW")
                                          /\ \A T : Has(<<Line(t)>>, T) <=> t \in T
         \/ /\ offers # "none" /\ offers' = "none" /\ mix' = {} /\ UNCHANGED usable
            /\ "del" \in met' \/ (mix = {} /\ saslClient = "none" /\ unanswered = {} /\ Quiet)
            /\ Adds(<<Line("901"), Line("DEL")>>)
            /\ \A T : Has(<<Line("901"), Line("DEL")>>, T) <=> ("901" \in T \/ "DEL" \in T)
<1>0. \A t \in {"NEW", "NEWx"} : t \in LineTypes
  BY DEF LineTypes
<1>1. \A t \in {"NEW", "NEWx"} : <<Line(t)>> \in Seq(Lines) /\ \A T : Has(<<Line(t)>>, T) <=> t \in T
  BY <1>0, OneLine
<1>2. /\ <<Line("901"), Line("DEL")>> \in Seq(Lines)
      /\ \A T : Has(<<Line("901"), Line("DEL")>>, T) <=> ("901" \in T \/ "DEL" \in T)
  BY TwoLines DEF LineTypes
<1>3. CASE /\ offers = "none" /\ offers' = "offered" /\ UNCHANGED mix
           /\ \E t \in {"NEW", "NEWx"} : Say(<<Line(t)>>) /\ usable' = (t = "NEW")
  BY <1>1, <1>3, Said
<1>4. CASE /\ offers \in {"offered", "granted"} /\ offers' = "none" /\ mix' = {}
           /\ Meets(Trouble(mix # {} \/ saslClient # "none" \/ unanswered # {} \/ ~Quiet, "del"))
           /\ Say(<<Line("901"), Line("DEL")>>)
           /\ UNCHANGED usable
  <2>1. "del" \in met' \/ (mix = {} /\ saslClient = "none" /\ unanswered = {} /\ Quiet)
    BY <1>4, Zenon DEF Meets, Trouble
  <2>2. offers # "none"
    BY <1>4
  <2> QED
    BY <1>2, <1>4, <2>1, <2>2, Said
<1> QED
  BY <1>3, <1>4 DEF Services

-----------------------------------------------------------------------------
(* What a step meets.                                                      *)

\* Troubles met are not forgotten.
LEMMA Fixed == [Next]_vars => own' = own /\ able' = able /\ met \subseteq met'
BY DEF Next, vars, cfg, Take, Done, Note, AckCaps, AckOwner, Waiters, New, NewReq, Del, Offer, Account, Outcome,
       completeRegistration, HandleDisconnect, Attach, notifyAttachCaps, SendNew, RequestClientSASL, WaitForAck,
       forwardClientAuthenticate, Authenticate, Detach, Connect, AnswerReq, EndExchange, Services, Meets

LEMMA KindsKept == met \subseteq Kinds /\ [Next]_vars => met' \subseteq Kinds
<1> SUFFICES ASSUME met \subseteq Kinds, [Next]_vars PROVE met' \subseteq Kinds
  OBVIOUS
<1>1. CASE met' = met
  BY <1>1
<1>2. ASSUME NEW p, NEW k \in Kinds, Meets(Trouble(p, k)) PROVE met' \subseteq Kinds
  BY <1>2 DEF Meets, Trouble
<1>3. ASSUME NEW p, NEW r, NEW k \in Kinds, NEW l \in Kinds, Meets(Trouble(p, k) \cup Trouble(r, l))
      PROVE  met' \subseteq Kinds
  BY <1>3 DEF Meets, Trouble
<1>4. {"nak", "del", "leave", "race", "ack", "late", "lost"} \subseteq Kinds
  BY DEF Kinds
<1>5. CASE HandleDisconnect \/ EndExchange \/ Services
  BY <1>1, <1>2, <1>4, <1>5 DEF HandleDisconnect, EndExchange, Services
<1>6. CASE AnswerReq
  BY <1>1, <1>2, <1>4, <1>6 DEF AnswerReq
<1>7. ASSUME NEW c \in Clients, RequestClientSASL(c) \/ WaitForAck(c) \/ Detach(c) PROVE met' \subseteq Kinds
  BY <1>2, <1>4, <1>7 DEF RequestClientSASL, WaitForAck, Detach
<1>8. ASSUME NEW c \in Clients, forwardClientAuthenticate(c) PROVE met' \subseteq Kinds
  BY <1>3, <1>4, <1>8 DEF forwardClientAuthenticate
<1> QED
  BY <1>1, <1>5, <1>6, <1>7, <1>8 DEF Next, vars, Take, Done, Note, AckCaps, AckOwner, Waiters, New, NewReq, Del, Offer,
     Account, Outcome, completeRegistration, Attach, notifyAttachCaps, SendNew, Authenticate, Connect

\* A step that meets no trouble of a kind.
LEMMA Untroubled ==
  /\ \A c \in Clients :
       /\ RequestClientSASL(c) /\ "race" \notin met' => Settled
       /\ WaitForAck(c) /\ "ack" \notin met' => ~upCap
       /\ forwardClientAuthenticate(c) /\ "race" \notin met' => Settled
       /\ forwardClientAuthenticate(c) /\ "late" \notin met' => (saslClient = c => c \in mix)
       /\ Detach(c) /\ "leave" \notin met' => saslClient # c
  /\ EndExchange /\ "late" \notin met' => \A c \in mix \cap Clients : job[c] # "write"
  /\ HandleDisconnect /\ "lost" \notin met' => \A c \in Clients : job[c] = "idle"
BY DEF RequestClientSASL, WaitForAck, forwardClientAuthenticate, Detach, EndExchange, HandleDisconnect, Meets, Trouble

-----------------------------------------------------------------------------
(* Types.                                                                  *)

\* The demux moves on in its line.
LEMMA RestFacts ==
  ASSUME TypeOK, demux.todo # <<>>
  PROVE  /\ Rest \in [line : Lines, todo : Todos, had : BOOLEAN]
         /\ Rest.line = demux.line /\ Rest.todo = Tail(demux.todo) /\ Rest.had = demux.had
         /\ \A b \in BOOLEAN : /\ [Rest EXCEPT !.had = b] \in [line : Lines, todo : Todos, had : BOOLEAN]
                               /\ [Rest EXCEPT !.had = b].line = demux.line
                               /\ [Rest EXCEPT !.had = b].todo = Tail(demux.todo)
                               /\ [Rest EXCEPT !.had = b].had = b
<1>1. demux \in [line : Lines, todo : Todos, had : BOOLEAN] /\ Tail(demux.todo) \in Todos
  BY RestTyped DEF TypeOK
<1>2. Rest = [line |-> demux.line, todo |-> Tail(demux.todo), had |-> demux.had]
  BY <1>1 DEF Rest
<1> QED
  BY <1>1, <1>2

LEMMA NoTodo == Line("") \in Lines /\ <<>> \in Todos /\ <<>> \in Seq(Lines)
<1>1. "" \in LineTypes
  BY DEF LineTypes
<1>2. <<>> \in Seq(Lines)
  OBVIOUS
<1>3. <<>> \in Todos
  BY DEF Todos
<1> QED
  BY <1>1, <1>2, <1>3, LineTyped

LEMMA TypeInit == Init => TypeOK
<1> SUFFICES ASSUME Init PROVE TypeOK
  OBVIOUS
<1>1. Line("") \in Lines /\ <<>> \in Todos /\ <<>> \in Seq(Lines)
  BY NoTodo
<1>2. demux \in [line : Lines, todo : Todos, had : BOOLEAN] /\ outcome \in [of : SUBSET Parties, to : SUBSET Clients]
  BY <1>1 DEF Init
<1> QED
  BY <1>1, <1>2, SaslAssumption DEF Init, TypeOK

LEMMA TypeStep == TypeOK /\ [Next]_vars => TypeOK'
<1> SUFFICES ASSUME TypeOK, [Next]_vars PROVE TypeOK'
  OBVIOUS
<1>0. met' \subseteq Kinds
  BY KindsKept DEF TypeOK
<1> USE <1>0 DEF TypeOK, flags, wait, ircd, cfg
<1>1. CASE Take
  <2>1. Head(q) \in Lines /\ q' \in Seq(Lines)
    BY <1>1, HasTail DEF Take
  <2>2. demux' \in [line : Lines, todo : Todos, had : BOOLEAN]
    BY <1>1, <2>1, StepsTyped DEF Take
  <2>3. UNCHANGED <<met, cfg, flags, wait, saslClient, downlinks, capped, job, driving, usable, reqs,
                    ircd, auths, told, misled, outcome>>
    BY <1>1 DEF Take
  <2>4. UNCHANGED <<own, able, registered, avail, mechs, upCap, offer, bPending, bFailed, loggedIn>>
    BY <2>3
  <2>5. UNCHANGED <<waiters, reqPending, unanswered, saslClient, downlinks, capped, job, driving, usable, reqs,
                    offers, mix, news, auths, told, misled, outcome>>
    BY <2>3
  <2> QED
    BY <2>1, <2>2, <2>4, <2>5
<1>2. CASE Done
  <2>1. demux' = [line |-> Line(""), todo |-> <<>>, had |-> FALSE]
    BY <1>2 DEF Done
  <2>2. demux' \in [line : Lines, todo : Todos, had : BOOLEAN]
    BY <2>1, NoTodo
  <2>3. UNCHANGED <<own, able, registered, avail, mechs, upCap, offer, bPending, bFailed, loggedIn>>
    BY <1>2 DEF Done
  <2>4. UNCHANGED <<waiters, reqPending, unanswered, saslClient, downlinks, capped, job, q, driving, usable, reqs>>
    BY <1>2 DEF Done
  <2>5. UNCHANGED <<offers, mix, news, auths, told, misled>> /\ outcome' = [of |-> {}, to |-> {}]
    BY <1>2 DEF Done
  <2> QED
    BY <2>2, <2>3, <2>4, <2>5
<1>3. CASE Note
  BY <1>3, RestFacts DEF Note, At
<1>4. CASE AckCaps
  BY <1>4, RestFacts DEF AckCaps, At
<1>5. CASE AckOwner
  BY <1>5, RestFacts DEF AckOwner, At
<1>6. CASE Waiters
  <2>1. demux' \in [line : Lines, todo : Todos, had : BOOLEAN]
    BY <1>6, RestFacts DEF Waiters, At
  <2>2. waiters' \subseteq Clients /\ reqPending' \in BOOLEAN /\ unanswered' \subseteq Clients /\ capped' \subseteq Clients
    BY <1>6 DEF Waiters, finishSASLWaiters
  <2> QED
    BY <1>6, <2>1, <2>2 DEF Waiters
<1>7. CASE New
  <2>1. demux' \in [line : Lines, todo : Todos, had : BOOLEAN]
    BY <1>7, RestFacts DEF New, At
  <2>2. waiters' \subseteq Clients /\ reqPending' \in BOOLEAN /\ unanswered' \subseteq Clients /\ capped' \subseteq Clients
    BY <1>7 DEF New, finishSASLWaiters
  <2>3. bPending' \in BOOLEAN /\ bFailed' \in BOOLEAN /\ avail' \in BOOLEAN /\ mechs' \in BOOLEAN
    BY <1>7 DEF New
  <2> QED
    BY <1>7, <2>1, <2>2, <2>3 DEF New
<1>8. CASE NewReq
  BY <1>8, RestFacts DEF NewReq, At
<1>9. CASE Del
  <2>1. demux' \in [line : Lines, todo : Todos, had : BOOLEAN]
    BY <1>9, RestFacts DEF Del, At
  <2>2. upCap' \in BOOLEAN /\ avail' \in BOOLEAN /\ mechs' \in BOOLEAN /\ bPending' \in BOOLEAN
    BY <1>9, Zenon DEF Del
  <2> QED
    BY <1>9, <2>1, <2>2 DEF Del
<1>10. CASE Offer
  BY <1>10, RestFacts DEF Offer, At, refreshSASLOffer, bouncerOwnsSASL
<1>11. CASE Account
  <2>1. demux' \in [line : Lines, todo : Todos, had : BOOLEAN]
    BY <1>11, RestFacts DEF Account, At
  <2>2. bPending' \in BOOLEAN /\ bFailed' \in BOOLEAN /\ loggedIn' \in BOOLEAN
    BY <1>11, Zenon DEF Account, PendingAfter, FailedAfter
  <2>3. UNCHANGED <<met, cfg, avail, mechs, upCap, offer, registered, wait, saslClient, downlinks, capped,
                    job, q, driving, usable, reqs, ircd, auths, told, misled, outcome>>
    BY <1>11 DEF Account
  <2> QED
    BY <2>1, <2>2, <2>3
<1>12. CASE Outcome
  <2>1. Rest \in [line : Lines, todo : Todos, had : BOOLEAN]
        /\ [demux EXCEPT !.todo = <<>>] \in [line : Lines, todo : Todos, had : BOOLEAN]
    BY <1>12, RestFacts, NoTodo DEF Outcome, At
  <2>2. demux' \in [line : Lines, todo : Todos, had : BOOLEAN]
    BY <1>12, <2>1 DEF Outcome
  <2>3. bPending' \in BOOLEAN /\ bFailed' \in BOOLEAN
    BY <1>12, Zenon DEF Outcome, PendingAfter, FailedAfter
  <2>4. saslClient' \in Clients \cup {"none"} /\ outcome' \in [of : SUBSET Parties, to : SUBSET Clients]
    BY <1>12 DEF Outcome, Lines
  <2> QED
    BY <1>12, <2>2, <2>3, <2>4 DEF Outcome
<1>13. CASE completeRegistration
  <2>1. demux' \in [line : Lines, todo : Todos, had : BOOLEAN]
    BY <1>13, RestFacts DEF completeRegistration, At
  <2>2. registered' \in BOOLEAN /\ bPending' \in BOOLEAN /\ bFailed' \in BOOLEAN
    BY <1>13, Zenon DEF completeRegistration
  <2> QED
    BY <1>13, <2>1, <2>2 DEF completeRegistration
<1>14. CASE HandleDisconnect
  <2>1. <<>> \in Seq(Lines)
    BY NoTodo
  <2> QED
    BY <1>14, <2>1 DEF HandleDisconnect
<1>15. ASSUME NEW c \in Clients, Attach(c) PROVE TypeOK'
  BY <1>15 DEF Attach
<1>16. ASSUME NEW c \in Clients, notifyAttachCaps(c) \/ SendNew(c) PROVE TypeOK'
  BY <1>16 DEF notifyAttachCaps, SendNew
<1>17. ASSUME NEW c \in Clients, RequestClientSASL(c) PROVE TypeOK'
  BY <1>17 DEF RequestClientSASL
<1>18. ASSUME NEW c \in Clients, WaitForAck(c) PROVE TypeOK'
  BY <1>18 DEF WaitForAck
<1>19. ASSUME NEW c \in Clients, forwardClientAuthenticate(c) PROVE TypeOK'
  BY <1>19 DEF forwardClientAuthenticate
<1>20. ASSUME NEW c \in Clients, Authenticate(c) PROVE TypeOK'
  BY <1>20 DEF Authenticate, Parties
<1>21. ASSUME NEW c \in Clients, Detach(c) PROVE TypeOK'
  BY <1>21 DEF Detach
<1>22. CASE Connect
  <2>1. q' \in Seq(Lines)
    <3>1. PICK s \in Registration : q' = [i \in 1 .. Len(s) |-> Line(s[i])]
      BY <1>22 DEF Connect
    <3> QED
      BY <3>1, Hello
  <2>2. offers' \in {"none", "offered", "granted"} /\ usable' \in BOOLEAN
    BY <1>22 DEF Connect
  <2>3. UNCHANGED <<met, cfg, flags, wait, saslClient, downlinks, capped, demux, job, driving, reqs, mix,
                   news, auths, told, misled, outcome>>
    BY <1>22 DEF Connect
  <2> QED
    BY <2>1, <2>2, <2>3
<1>23. CASE AnswerReq
  <2>1. PICK t \in {"ACK", "NAK"} : Adds(<<Line(t)>>) /\ (t = "ACK" => StepPost(<<Line("ACK")>>) /\ offers' = "granted")
                                   /\ (t = "NAK" => UNCHANGED <<driving, mix, offers>>)
    BY <1>23, AnswerSaid
  <2>2. driving' \in BOOLEAN /\ mix' \in SUBSET Parties /\ offers' \in {"off", "none", "offered", "granted"}
    BY <2>1 DEF StepPost, Parties
  <2> QED
    BY <1>23, <2>1, <2>2 DEF AnswerReq, Adds
<1>24. CASE EndExchange
  <2>1. q' \in Seq(Lines) /\ mix' \in SUBSET Parties /\ driving' \in BOOLEAN
    BY <1>24, EndSaid DEF Adds, EndExchange
  <2> QED
    BY <1>24, <2>1 DEF EndExchange
<1>25. CASE Services
  <2>1. q' \in Seq(Lines) /\ mix' \in SUBSET Parties /\ offers' \in {"none", "offered", "granted"} /\ usable' \in BOOLEAN
    BY <1>25, ServicesSaid DEF Adds
  <2> QED
    BY <1>25, <2>1 DEF Services
<1>26. CASE UNCHANGED vars
  BY <1>26 DEF vars
<1> QED
  BY <1>1, <1>2, <1>3, <1>4, <1>5, <1>6, <1>7, <1>8, <1>9, <1>10, <1>11, <1>12, <1>13, <1>14, <1>15, <1>16, <1>17, <1>18,
     <1>19, <1>20, <1>21, <1>22, <1>23, <1>24, <1>25, <1>26 DEF Next

\* The variables keep their types: the demux works through the steps of handleCAPLine and
\* its like in their order, and what it has left to do is always an end of such a row.
THEOREM TypeCorrect == Spec => []TypeOK
BY TypeInit, TypeStep, PTL DEF Spec

-----------------------------------------------------------------------------
(* What clients are told of the offer.                                     *)

\* Those attached know of an offer, or have yet to be told by notifyAttachCaps; of no
\* offer nobody thinks otherwise.
OfferInv ==
  /\ told \subseteq downlinks
  /\ offer => \A c \in downlinks : c \in told \/ job[c] \in {"announce", "tell"}
  /\ ~offer => told \subseteq misled
  /\ ~offer => \A c \in downlinks : job[c] = "tell" => c \in misled

LEMMA OfferInvStep == TypeOK /\ OfferInv /\ [Next]_vars => OfferInv'
<1> SUFFICES ASSUME TypeOK, OfferInv, [Next]_vars PROVE OfferInv'
  OBVIOUS
<1> USE DEF OfferInv
<1>0. job \in [Clients -> {"idle", "announce", "tell", "wait", "write"}] /\ downlinks \subseteq Clients /\ offer \in BOOLEAN
  BY DEF TypeOK
<1>1. CASE UNCHANGED <<offer, downlinks, told, misled, job>>
  BY <1>1
<1>2. CASE Take \/ Done \/ Note \/ AckCaps \/ AckOwner \/ Waiters \/ New \/ NewReq \/ Del
  BY <1>1, <1>2 DEF Take, Done, Note, AckCaps, AckOwner, Waiters, New, NewReq, Del, flags
<1>3. CASE Account \/ Outcome \/ completeRegistration \/ Connect \/ AnswerReq \/ EndExchange \/ Services
  BY <1>1, <1>3 DEF Account, Outcome, completeRegistration, Connect, AnswerReq, EndExchange, Services, flags
<1>4. CASE Offer
  BY <1>0, <1>4 DEF Offer, refreshSASLOffer
<1>5. CASE HandleDisconnect
  BY <1>5 DEF HandleDisconnect
<1>6. ASSUME NEW c \in Clients, Attach(c) PROVE OfferInv'
  BY <1>0, <1>6 DEF Attach, flags
<1>7. ASSUME NEW c \in Clients, notifyAttachCaps(c) \/ SendNew(c) PROVE OfferInv'
  BY <1>0, <1>7 DEF notifyAttachCaps, SendNew, flags
<1>8. ASSUME NEW c \in Clients, RequestClientSASL(c) \/ WaitForAck(c) \/ forwardClientAuthenticate(c) \/ Authenticate(c)
      PROVE  OfferInv'
  BY <1>0, <1>8 DEF RequestClientSASL, WaitForAck, forwardClientAuthenticate, Authenticate, flags
<1>9. ASSUME NEW c \in Clients, Detach(c) PROVE OfferInv'
  BY <1>0, <1>9 DEF Detach, flags
<1>10. CASE UNCHANGED vars
  BY <1>1, <1>10 DEF vars, flags
<1> QED
  BY <1>2, <1>3, <1>4, <1>5, <1>6, <1>7, <1>8, <1>9, <1>10 DEF Next

\* Clients that watch for it know whether sasl is on offer, once nothing is on its way:
\* refreshSASLOffer tells those attached of every change, and notifyAttachCaps tells
\* whoever attaches of the offer as it is by then; but for a client whose CAP NEW that
\* look led to came after the CAP DEL (misled).
THEOREM OffersAreTold == Spec => []OfferTold
<1>1. Init => OfferInv
  BY DEF Init, OfferInv
<1>2. TypeOK /\ OfferInv => OfferTold
  BY DEF TypeOK, OfferInv, OfferTold, Quiet
<1> QED
  BY <1>1, <1>2, OfferInvStep, TypeCorrect, PTL DEF Spec

-----------------------------------------------------------------------------
(* Who waits for an answer to CAP REQ.                                     *)

\* What the demux does for which line; some lines mean something else before the
\* registration is complete.
DemuxOK ==
  \/ demux.todo = <<>>
  \/ demux.line.t \in {"LS", "LSx"} /\ demux.todo = <<"note">>
  \/ /\ demux.line.t = "ACK" /\ ~registered
     /\ demux.todo \in {<<"caps", "owner">>, <<"owner">>}
  \/ /\ demux.line.t = "ACK" /\ registered
     /\ demux.todo \in {<<"caps", "owner", "offer", "ackwaiters">>, <<"owner", "offer", "ackwaiters">>,
                        <<"offer", "ackwaiters">>, <<"ackwaiters">>}
  \/ demux.line.t = "NAK" /\ registered /\ demux.todo = <<"waiters">>
  \/ /\ demux.line.t \in {"NEW", "NEWx"}
     /\ demux.todo \in {<<"new", "offer", "req">>, <<"offer", "req">>, <<"req">>}
  \/ /\ demux.line.t = "DEL"
     /\ demux.todo \in {<<"del", "offer", "delwaiters">>, <<"offer", "delwaiters">>, <<"delwaiters">>}
  \/ demux.line.t \in {"900", "901"} /\ demux.todo = <<"account">>
  \/ demux.line.t \in {"903", "904"} /\ ~registered /\ demux.todo = <<"account">>
  \/ demux.line.t \in {"903", "904"} /\ registered /\ demux.todo \in {<<"outcome", "offer">>, <<"offer">>}
  \/ demux.line.t = "376" /\ demux.todo = <<"complete", "offer">>
  \/ demux.line.t = "376" /\ registered /\ demux.todo = <<"offer">>

\* Before the registration is complete nobody is attached; and nothing is asked, unless
\* by a client that was in the middle of it when the uplink was lost.
Alone ==
  /\ demux.line.t = "" => demux.todo = <<>>
  /\ offers = "off" => /\ ~registered /\ demux.line.t = "" /\ q = <<>>
                       /\ reqs = 0 /\ mix = {} /\ ~driving
  /\ ~registered => /\ downlinks = {} /\ saslClient = "none"
                    /\ ~Has(q, {"NEW", "NEWx", "DEL", "901"})
                    /\ demux.line.t \notin {"NEW", "NEWx", "DEL", "901"}
  /\ "lost" \notin met =>
       /\ \A c \in Clients : job[c] # "idle" => c \in downlinks
       /\ ~registered => /\ waiters = {} /\ reqs = 0 /\ mix = {} /\ ~driving
                         /\ ~Has(q, {"NAK"}) /\ demux.line.t # "NAK"

\* Which line the demux is at, and what it means, from what is left to do.
LEMMA StageLine ==
  ASSUME DemuxOK
  PROVE  /\ demux.todo = <<"note">> => demux.line.t \in {"LS", "LSx"}
         /\ demux.todo = <<"caps", "owner">> \/ demux.todo = <<"owner">> => demux.line.t = "ACK" /\ ~registered
         /\ \/ demux.todo = <<"caps", "owner", "offer", "ackwaiters">>
            \/ demux.todo = <<"owner", "offer", "ackwaiters">>
            \/ demux.todo = <<"offer", "ackwaiters">> \/ demux.todo = <<"ackwaiters">>
            => demux.line.t = "ACK" /\ registered
         /\ demux.todo = <<"waiters">> => demux.line.t = "NAK" /\ registered
         /\ \/ demux.todo = <<"new", "offer", "req">> \/ demux.todo = <<"offer", "req">> \/ demux.todo = <<"req">>
            => demux.line.t \in {"NEW", "NEWx"}
         /\ \/ demux.todo = <<"del", "offer", "delwaiters">> \/ demux.todo = <<"offer", "delwaiters">>
            \/ demux.todo = <<"delwaiters">>
            => demux.line.t = "DEL"
         /\ demux.todo = <<"account">> =>
              demux.line.t \in {"900", "901", "903", "904"} /\ (demux.line.t \in {"903", "904"} => ~registered)
         /\ demux.todo = <<"outcome", "offer">> => demux.line.t \in {"903", "904"} /\ registered
         /\ demux.todo = <<"offer">> => demux.line.t \in {"903", "904", "376"} /\ registered
         /\ demux.todo = <<"complete", "offer">> => demux.line.t = "376"
<1>1. CASE demux.todo = <<>>
  BY <1>1
<1>2. CASE demux.line.t \in {"LS", "LSx"} /\ demux.todo = <<"note">>
  BY <1>2
<1>3. CASE demux.line.t = "ACK" /\ ~registered /\ demux.todo \in {<<"caps", "owner">>, <<"owner">>}
  BY <1>3
<1>4. CASE /\ demux.line.t = "ACK" /\ registered
           /\ demux.todo \in {<<"caps", "owner", "offer", "ackwaiters">>, <<"owner", "offer", "ackwaiters">>,
                              <<"offer", "ackwaiters">>, <<"ackwaiters">>}
  BY <1>4
<1>5. CASE demux.line.t = "NAK" /\ registered /\ demux.todo = <<"waiters">>
  BY <1>5
<1>6. CASE /\ demux.line.t \in {"NEW", "NEWx"}
           /\ demux.todo \in {<<"new", "offer", "req">>, <<"offer", "req">>, <<"req">>}
  BY <1>6
<1>7. CASE /\ demux.line.t = "DEL"
           /\ demux.todo \in {<<"del", "offer", "delwaiters">>, <<"offer", "delwaiters">>, <<"delwaiters">>}
  BY <1>7
<1>8. CASE demux.line.t \in {"900", "901"} /\ demux.todo = <<"account">>
  BY <1>8
<1>9. CASE demux.line.t \in {"903", "904"} /\ ~registered /\ demux.todo = <<"account">>
  BY <1>9
<1>10. CASE demux.line.t \in {"903", "904"} /\ registered /\ demux.todo \in {<<"outcome", "offer">>, <<"offer">>}
  BY <1>10
<1>11. CASE demux.line.t = "376" /\ demux.todo = <<"complete", "offer">>
  BY <1>11
<1>12. CASE demux.line.t = "376" /\ registered /\ demux.todo = <<"offer">>
  BY <1>12
<1> QED
  BY <1>1, <1>2, <1>3, <1>4, <1>5, <1>6, <1>7, <1>8, <1>9, <1>10, <1>11, <1>12, Zenon DEF DemuxOK

LEMMA DemuxStep ==
  ASSUME TypeOK, Alone, DemuxOK, [Next]_vars
  PROVE  DemuxOK'
<1>0. demux.todo \in Todos /\ demux \in [line : Lines, todo : Todos, had : BOOLEAN]
  BY DEF TypeOK
<1>1. CASE UNCHANGED <<demux, registered>>
  BY <1>1 DEF DemuxOK
<1>2. CASE Take
  <2>1. demux'.line = Head(q) /\ demux'.todo = StepsOf(Head(q).t) /\ registered' = registered
    BY <1>2 DEF Take, flags
  <2> QED
    BY ZenonT(60), <2>1 DEF DemuxOK, StepsOf
<1>3. CASE Done \/ HandleDisconnect
  <2>1. ASSUME Done PROVE demux'.todo = <<>>
    <3>1. demux' = [line |-> Line(""), todo |-> <<>>, had |-> FALSE]
      BY <2>1 DEF Done
    <3> QED
      BY <3>1
  <2>2. HandleDisconnect => demux'.todo = <<>>
    BY DEF HandleDisconnect, Alone
  <2>3. demux'.todo = <<>>
    BY <1>3, <2>1, <2>2
  <2> QED
    BY <2>3 DEF DemuxOK
<1>4. ASSUME At("note") \/ At("req") \/ At("ackwaiters") \/ At("waiters") \/ At("delwaiters") \/ At("account"),
             demux' = Rest
      PROVE  DemuxOK'
  <2>1. demux.todo \in {<<"note">>, <<"req">>, <<"ackwaiters">>, <<"waiters">>, <<"delwaiters">>, <<"account">>}
    BY <1>0, <1>4, AtStage
  <2>2. demux'.todo = Tail(demux.todo)
    BY <1>4, RestFacts DEF At
  <2>3. demux'.todo = <<>>
    BY <2>1, <2>2, Rests
  <2> QED
    BY <2>3 DEF DemuxOK
<1>5. CASE Note \/ NewReq \/ Waiters \/ Account
  BY <1>4, <1>5 DEF Note, NewReq, Waiters, Account
<1>6. CASE AckCaps
  <2>1. demux.todo \in {<<"caps", "owner">>, <<"caps", "owner", "offer", "ackwaiters">>} /\ demux.todo # <<>>
    BY <1>0, <1>6, AtStage DEF AckCaps, At
  <2>2. demux'.line = demux.line /\ demux'.todo = Tail(demux.todo) /\ registered' = registered
    BY <1>6, <2>1, RestFacts DEF AckCaps, TypeOK
  <2>3. CASE demux.todo = <<"caps", "owner">>
    <3>1. demux'.todo = <<"owner">> /\ demux'.line.t = "ACK" /\ ~registered'
      BY <2>2, <2>3, Rests, StageLine
    <3> QED
      BY <3>1 DEF DemuxOK
  <2>4. CASE demux.todo = <<"caps", "owner", "offer", "ackwaiters">>
    <3>1. demux'.todo = <<"owner", "offer", "ackwaiters">> /\ demux'.line.t = "ACK" /\ registered'
      BY <2>2, <2>4, Rests, StageLine
    <3> QED
      BY <3>1 DEF DemuxOK
  <2> QED
    BY <2>1, <2>3, <2>4
<1>7. CASE AckOwner
  <2>1. demux.todo \in {<<"owner">>, <<"owner", "offer", "ackwaiters">>} /\ demux.todo # <<>>
    BY <1>0, <1>7, AtStage DEF AckOwner, At
  <2>2. demux'.line = demux.line /\ demux'.todo = Tail(demux.todo) /\ registered' = registered
    BY <1>7, <2>1, RestFacts DEF AckOwner, TypeOK
  <2>3. CASE demux.todo = <<"owner">>
    <3>1. demux'.todo = <<>>
      BY <2>2, <2>3, Rests
    <3> QED
      BY <3>1 DEF DemuxOK
  <2>4. CASE demux.todo = <<"owner", "offer", "ackwaiters">>
    <3>1. demux'.todo = <<"offer", "ackwaiters">> /\ demux'.line.t = "ACK" /\ registered'
      BY <2>2, <2>4, Rests, StageLine
    <3> QED
      BY <3>1 DEF DemuxOK
  <2> QED
    BY <2>1, <2>3, <2>4
<1>8. CASE Offer
  <2>1. /\ demux.todo \in {<<"offer", "ackwaiters">>, <<"offer", "req">>, <<"offer", "delwaiters">>, <<"offer">>}
        /\ demux.todo # <<>>
    BY <1>0, <1>8, AtStage DEF Offer, At
  <2>2. demux'.line = demux.line /\ demux'.todo = Tail(demux.todo) /\ registered' = registered
    BY <1>8, <2>1, RestFacts DEF Offer, TypeOK
  <2>3. CASE demux.todo = <<"offer", "ackwaiters">>
    <3>1. demux'.todo = <<"ackwaiters">> /\ demux'.line.t = "ACK" /\ registered'
      BY <2>2, <2>3, Rests, StageLine
    <3> QED
      BY <3>1 DEF DemuxOK
  <2>4. CASE demux.todo = <<"offer", "req">>
    <3>1. demux'.todo = <<"req">> /\ demux'.line.t \in {"NEW", "NEWx"}
      BY <2>2, <2>4, Rests, StageLine
    <3> QED
      BY <3>1 DEF DemuxOK
  <2>5. CASE demux.todo = <<"offer", "delwaiters">>
    <3>1. demux'.todo = <<"delwaiters">> /\ demux'.line.t = "DEL"
      BY <2>2, <2>5, Rests, StageLine
    <3> QED
      BY <3>1 DEF DemuxOK
  <2>6. CASE demux.todo = <<"offer">>
    <3>1. demux'.todo = <<>>
      BY <2>2, <2>6, Rests
    <3> QED
      BY <3>1 DEF DemuxOK
  <2> QED
    BY <2>1, <2>3, <2>4, <2>5, <2>6
<1>9. CASE New
  <2>1. demux.todo = <<"new", "offer", "req">> /\ demux.todo # <<>>
    BY <1>0, <1>9, AtStage DEF New, At
  <2>2. demux'.line = demux.line /\ demux'.todo = Tail(demux.todo) /\ registered' = registered
    BY <1>9, <2>1, RestFacts DEF New, TypeOK
  <2> QED
    BY <2>1, <2>2 DEF DemuxOK
<1>10. CASE Del
  <2>1. demux.todo = <<"del", "offer", "delwaiters">> /\ demux.todo # <<>>
    BY <1>0, <1>10, AtStage DEF Del, At
  <2>2. demux'.line = demux.line /\ demux'.todo = Tail(demux.todo) /\ registered' = registered
    BY <1>10, <2>1, RestFacts DEF Del, TypeOK
  <2> QED
    BY <2>1, <2>2 DEF DemuxOK
<1>11. CASE Outcome
  <2>1. demux.todo = <<"outcome", "offer">> /\ demux.todo # <<>>
    BY <1>0, <1>11, AtStage DEF Outcome, At
  <2>2. /\ demux'.line = demux.line /\ registered' = registered
        /\ demux'.todo \in {Tail(demux.todo), <<>>}
    <3>1. demux' = Rest \/ demux' = [demux EXCEPT !.todo = <<>>]
      BY <1>11 DEF Outcome
    <3>2. registered' = registered
      BY <1>11 DEF Outcome
    <3> QED
      BY <1>0, <2>1, <3>1, <3>2, RestFacts
  <2> QED
    BY <2>1, <2>2 DEF DemuxOK
<1>12. CASE completeRegistration
  <2>1. demux.todo = <<"complete", "offer">> /\ demux.todo # <<>>
    BY <1>0, <1>12, AtStage DEF completeRegistration, At
  <2>2. demux'.line = demux.line /\ demux'.todo = Tail(demux.todo) /\ registered'
    BY <1>12, <2>1, RestFacts DEF completeRegistration, TypeOK
  <2> QED
    BY <2>1, <2>2 DEF DemuxOK
<1>13. CASE Connect \/ AnswerReq \/ EndExchange \/ Services
  BY <1>1, <1>13 DEF Connect, AnswerReq, EndExchange, Services, flags
<1>14. ASSUME NEW c \in Clients, Attach(c) \/ notifyAttachCaps(c) \/ SendNew(c) \/ RequestClientSASL(c) \/ WaitForAck(c)
                 \/ forwardClientAuthenticate(c) \/ Authenticate(c) \/ Detach(c)
       PROVE  DemuxOK'
  BY <1>1, <1>14
     DEF Attach, notifyAttachCaps, SendNew, RequestClientSASL, WaitForAck, forwardClientAuthenticate, Authenticate, Detach, flags
<1>15. CASE UNCHANGED vars
  BY <1>1, <1>15 DEF vars, flags
<1> QED
  BY <1>2, <1>3, <1>5, <1>6, <1>7, <1>8, <1>9, <1>10, <1>11, <1>12, <1>13, <1>14, <1>15 DEF Next

LEMMA Asked == TypeOK /\ AnswerReq => reqs # 0
<1>1. TypeOK => reqs \in Nat
  BY DEF TypeOK
<1>2. AnswerReq => reqs > 0
  BY Zenon DEF AnswerReq
<1>3. reqs \in Nat /\ reqs > 0 => reqs # 0
  OBVIOUS
<1> QED
  BY <1>1, <1>2, <1>3

LEMMA AloneStep ==
  ASSUME TypeOK, Alone, DemuxOK, [Next]_vars
  PROVE  Alone'
<1>0. /\ demux \in [line : Lines, todo : Todos, had : BOOLEAN] /\ q \in Seq(Lines) /\ registered \in BOOLEAN
      /\ job \in [Clients -> {"idle", "announce", "tell", "wait", "write"}] /\ downlinks \subseteq Clients /\ reqs \in Nat
      /\ demux.todo \in Todos
  BY DEF TypeOK
<1>a. "lost" \notin met' => "lost" \notin met
  BY Fixed
<1>b. /\ demux.line.t = "" => demux.todo = <<>>
      /\ offers = "off" => ~registered /\ demux.line.t = "" /\ q = <<>> /\ reqs = 0 /\ mix = {} /\ ~driving
      /\ ~registered => /\ downlinks = {} /\ saslClient = "none"
                        /\ ~Has(q, {"NEW", "NEWx", "DEL", "901"})
                        /\ demux.line.t \notin {"NEW", "NEWx", "DEL", "901"}
  BY DEF Alone
<1>c. "lost" \notin met' =>
        /\ \A c \in Clients : job[c] # "idle" => c \in downlinks
        /\ ~registered => /\ waiters = {} /\ reqs = 0 /\ mix = {} /\ ~driving
                          /\ ~Has(q, {"NAK"}) /\ demux.line.t # "NAK"
  BY <1>a DEF Alone
\* A step of the demux in a line.
<1>1. ASSUME UNCHANGED <<registered, saslClient, downlinks, job, q, reqs, mix, driving, offers>>,
             waiters' \subseteq waiters, demux'.line = demux.line, demux.line.t = "" => demux'.todo = <<>>
      PROVE  Alone'
  BY <1>1, <1>b, <1>c DEF Alone
<1>2. CASE Take
  <2>1. q # <<>> /\ demux'.line = Head(q) /\ demux'.todo = StepsOf(Head(q).t) /\ q' = Tail(q)
        /\ UNCHANGED <<registered, waiters, saslClient, downlinks, job, reqs, mix, driving, offers>>
    BY <1>2 DEF Take, flags, wait, ircd
  <2>2. \A T : Has(q, T) <=> (Head(q).t \in T \/ Has(q', T))
    BY <1>0, <2>1, HasTail
  <2>3. StepsOf("") = <<>>
    BY DEF StepsOf
  <2> QED
    BY <2>1, <2>2, <2>3, <1>b, <1>c DEF Alone
<1>3. CASE Done
  <2>1. demux'.line = Line("") /\ demux'.todo = <<>>
        /\ UNCHANGED <<registered, waiters, saslClient, downlinks, job, q, reqs, mix, driving, offers>>
    BY <1>3 DEF Done, flags, wait, ircd
  <2>2. Line("").t = ""
    BY DEF Line
  <2> QED
    BY <2>1, <2>2, <1>b, <1>c DEF Alone
<1>4. CASE Note \/ AckCaps \/ AckOwner \/ Offer \/ Account \/ Del
  <2>1. demux.todo # <<>> /\ UNCHANGED <<registered, waiters, saslClient, downlinks, job, q, reqs, mix, driving, offers>>
        /\ \E b \in BOOLEAN : demux' = Rest \/ demux' = [Rest EXCEPT !.had = b]
    BY <1>4 DEF Note, AckCaps, AckOwner, Offer, Account, Del, At, wait, ircd, TypeOK
  <2>2. demux'.line = demux.line /\ demux.line.t # ""
    BY <2>1, <1>b, RestFacts
  <2> QED
    BY <1>1, <2>1, <2>2
<1>5. CASE Waiters \/ New
  <2>1. demux.todo # <<>> /\ UNCHANGED <<registered, saslClient, downlinks, job, q, reqs, mix, driving, offers>>
        /\ waiters' \subseteq waiters
    BY <1>5 DEF Waiters, New, At, wait, ircd, finishSASLWaiters, flags
  <2>2. \E b \in BOOLEAN : demux' = Rest \/ demux' = [Rest EXCEPT !.had = b]
    BY <1>5 DEF Waiters, New
  <2>3. demux'.line = demux.line /\ demux.line.t # ""
    BY <2>1, <2>2, <1>b, RestFacts
  <2> QED
    BY <1>1, <2>1, <2>3
<1>6. CASE NewReq
  <2>1. demux.todo = <<"req">> /\ demux.todo # <<>>
    BY <1>0, <1>6, AtStage DEF NewReq, At
  <2>2. registered /\ demux.line.t # ""
    <3>1. demux.line.t \in {"NEW", "NEWx"}
      BY <2>1, StageLine
    <3> QED
      BY <3>1, <1>b
  <2>3. demux'.line = demux.line /\ UNCHANGED <<registered, downlinks, job, offers>>
    BY <1>6, <2>1, RestFacts DEF NewReq, flags, ircd
  <2> QED
    BY <2>2, <2>3, <1>b, <1>c DEF Alone
<1>7. CASE Outcome
  <2>1. demux.todo = <<"outcome", "offer">> /\ demux.todo # <<>>
    BY <1>0, <1>7, AtStage DEF Outcome, At
  <2>2. registered /\ demux.line.t # ""
    BY <2>1, StageLine, <1>b
  <2>3. UNCHANGED <<registered, downlinks, job, offers>> /\ (demux' = Rest \/ demux' = [demux EXCEPT !.todo = <<>>])
    BY <1>7 DEF Outcome, ircd
  <2>4. demux'.line = demux.line
    BY <1>0, <2>1, <2>3, RestFacts
  <2> QED
    BY <2>2, <2>3, <2>4, <1>b, <1>c DEF Alone
<1>8. CASE completeRegistration
  <2>1. demux.todo # <<>> /\ registered' /\ UNCHANGED <<downlinks, job, offers>> /\ demux' = Rest
    BY <1>8 DEF completeRegistration, At, ircd
  <2>2. demux'.line = demux.line /\ demux.line.t # ""
    BY <2>1, <1>b, RestFacts
  <2> QED
    BY <2>1, <2>2, <1>b, <1>c DEF Alone
<1>9. CASE HandleDisconnect
  <2>1. /\ ~registered' /\ demux' = demux /\ demux.line.t = "" /\ q' = <<>> /\ reqs' = 0 /\ mix' = {} /\ driving' = FALSE
        /\ downlinks' = {} /\ saslClient' = "none" /\ waiters' = {} /\ job' = job
    BY <1>9 DEF HandleDisconnect
  <2>2. "lost" \notin met' => \A c \in Clients : job[c] = "idle"
    BY <1>9, Untroubled
  <2>3. \A T : ~Has(q', T)
    BY <2>1, HasNone
  <2> QED
    BY <2>1, <2>2, <2>3, <1>b DEF Alone
<1>10. ASSUME NEW c \in Clients,
              Attach(c) \/ notifyAttachCaps(c) \/ SendNew(c) \/ RequestClientSASL(c) \/ Detach(c)
       PROVE  Alone'
  <2>1. /\ UNCHANGED <<registered, waiters, demux, q, reqs, mix, driving, offers>>
        /\ ~registered => downlinks' \subseteq downlinks
        /\ saslClient' \in {saslClient, "none"}
    BY <1>10 DEF Attach, notifyAttachCaps, SendNew, RequestClientSASL, Detach, flags, wait, ircd
  <2>2. "lost" \notin met' => \A d \in Clients : job'[d] # "idle" => d \in downlinks'
    BY <1>0, <1>c, <1>10 DEF Attach, notifyAttachCaps, SendNew, RequestClientSASL, Detach
  <2> QED
    BY <2>1, <2>2, <1>b, <1>c DEF Alone
<1>11. ASSUME NEW c \in Clients, WaitForAck(c) \/ Authenticate(c) PROVE Alone'
  <2>1. /\ UNCHANGED <<registered, saslClient, downlinks, demux, q, driving, offers>>
        /\ offers = "off" => UNCHANGED <<reqs, mix>>
        /\ job[c] # "idle" /\ job' = [job EXCEPT ![c] = "idle"]
    BY <1>11 DEF WaitForAck, Authenticate, flags, wait, ircd
  <2>2. "lost" \notin met' => registered
    BY <2>1, <1>b, <1>c
  <2>3. "lost" \notin met' => \A d \in Clients : job'[d] # "idle" => d \in downlinks'
    BY <1>0, <1>c, <2>1
  <2> QED
    BY <2>1, <2>2, <2>3, <1>b DEF Alone
<1>15. ASSUME NEW c \in Clients, forwardClientAuthenticate(c) PROVE Alone'
  <2>1. /\ UNCHANGED <<registered, waiters, downlinks, demux, q, reqs, mix, driving, offers>>
        /\ c \in downlinks /\ job' = [job EXCEPT ![c] = "write"]
    BY <1>15 DEF forwardClientAuthenticate, flags, wait, ircd
  <2>2. registered
    BY <2>1, <1>b, <1>0
  <2>3. "lost" \notin met' => \A d \in Clients : job'[d] # "idle" => d \in downlinks'
    BY <1>0, <1>c, <2>1
  <2> QED
    BY <2>1, <2>2, <2>3, <1>b, <1>0 DEF Alone
<1>12. CASE Connect
  <2>1. PICK s \in Registration :
             /\ q' = [i \in 1 .. Len(s) |-> Line(s[i])]
             /\ offers' = CASE Len(s) = 1 -> "none" [] Len(s) = 2 -> "offered" [] OTHER -> "granted"
    BY <1>12 DEF Connect
  <2>2. ~Has(q', {"NAK", "NEW", "NEWx", "DEL", "901"})
    BY <2>1, HelloTypes
  <2>4. ~Has(q', {"NAK"}) /\ ~Has(q', {"NEW", "NEWx", "DEL", "901"})
    BY <2>2 DEF Has
  <2>3. UNCHANGED <<registered, waiters, saslClient, downlinks, job, reqs, mix, driving, demux>>
    BY <1>12 DEF Connect, flags, wait
  <2>5. offers' # "off"
    BY <2>1
  <2> QED
    BY <2>3, <2>4, <2>5, <1>b, <1>c DEF Alone
<1>13. CASE AnswerReq \/ EndExchange \/ Services
  <2>1. (AnswerReq => reqs # 0) /\ (EndExchange => mix # {}) /\ (Services => registered)
    <3>1. ASSUME AnswerReq PROVE reqs # 0
      BY <3>1, Asked
    <3>2. (EndExchange => mix # {}) /\ (Services => registered)
      BY Zenon DEF EndExchange, Services
    <3> QED
      BY <3>1, <3>2
  <2>2. UNCHANGED <<registered, waiters, saslClient, downlinks, job, demux>>
    BY <1>13 DEF AnswerReq, EndExchange, Services, flags, wait
  <2>3. offers # "off" /\ ("lost" \notin met' => registered)
    BY <1>13, <2>1, <1>b, <1>c
  <2>4. offers' # "off"
    <3>1. ASSUME AnswerReq PROVE offers' # "off"
      BY <2>3, <3>1 DEF AnswerReq
    <3>2. ASSUME EndExchange \/ Services PROVE offers' # "off"
      BY <2>3, <3>2 DEF EndExchange, Services
    <3> QED
      BY <1>13, <3>1, <3>2
  <2>5. ASSUME ~registered PROVE ~Has(q', {"NEW", "NEWx", "DEL", "901"})
    <3>1. CASE AnswerReq
      <4>1. PICK t \in {"ACK", "NAK"} : Adds(<<Line(t)>>) /\ \A T : Has(<<Line(t)>>, T) <=> t \in T
        BY <3>1, AnswerSaid
      <4>2. ~Has(<<Line(t)>>, {"NEW", "NEWx", "DEL", "901"})
        BY <4>1
      <4> QED
        BY <2>5, <4>1, <4>2, <1>b DEF Adds
    <3>2. CASE EndExchange
      BY <2>5, <3>2, <1>b, EndSaid DEF Adds
    <3> QED
      BY <1>13, <2>1, <2>5, <3>1, <3>2
  <2> QED
    BY <2>2, <2>3, <2>4, <2>5, <1>b, <1>c DEF Alone
<1>14. CASE UNCHANGED vars
  BY <1>1, <1>14, <1>b DEF vars, flags, wait, ircd
<1> QED
  BY <1>2, <1>3, <1>4, <1>5, <1>6, <1>7, <1>8, <1>9, <1>10, <1>11, <1>12, <1>13, <1>14, <1>15 DEF Next

\* What holds whatever goes wrong.
Base == TypeOK /\ DemuxOK /\ Alone

LEMMA BaseHolds == Spec => []Base
<1>1. Init => DemuxOK
  <2> SUFFICES ASSUME Init PROVE demux.todo = <<>>
    BY DEF DemuxOK
  <2>1. demux = [line |-> Line(""), todo |-> <<>>, had |-> FALSE]
    BY Zenon DEF Init
  <2> QED
    BY <2>1
<1>2. Init => Alone
  <2> SUFFICES ASSUME Init PROVE Alone
    OBVIOUS
  <2>1. demux.line = Line("") /\ demux.todo = <<>> /\ job = [c \in Clients |-> "idle"] /\ q = <<>>
    <3>1. demux = [line |-> Line(""), todo |-> <<>>, had |-> FALSE]
      BY Zenon DEF Init
    <3>2. job = [c \in Clients |-> "idle"] /\ q = <<>>
      BY Zenon DEF Init
    <3> QED
      BY <3>1, <3>2
  <2>2. downlinks = {} /\ waiters = {} /\ saslClient = "none" /\ reqs = 0 /\ mix = {} /\ ~driving /\ ~registered
    BY DEF Init
  <2>3. Line("").t = ""
    BY DEF Line
  <2>4. \A T : ~Has(q, T)
    BY <2>1, HasNone
  <2>5. \A c \in Clients : job[c] = "idle"
    BY <2>1
  <2> QED
    BY <2>1, <2>2, <2>3, <2>4, <2>5 DEF Alone
<1>3. TypeOK /\ Alone /\ DemuxOK /\ [Next]_vars => DemuxOK'
  BY DemuxStep
<1>4. TypeOK /\ Alone /\ DemuxOK /\ [Next]_vars => Alone'
  BY AloneStep
<1> QED
  BY <1>1, <1>2, <1>3, <1>4, TypeCorrect, PTL DEF Spec, Base

\* The demux is about to answer the waiters.
Finishing ==
  \/ /\ demux.todo \in {<<"owner", "offer", "ackwaiters">>, <<"offer", "ackwaiters">>, <<"ackwaiters">>}
     /\ ~demux.had
  \/ demux.todo = <<"waiters">>

\* An answer to a CAP REQ is still to come.
AnswerComes ==
  \/ reqs > 0 \/ Has(q, {"ACK", "NAK"})
  \/ demux.todo = <<"caps", "owner", "offer", "ackwaiters">>

\* Whoever has no answer waits for one, or is about to; and those who wait wait for
\* something that comes.
Waiting ==
  /\ unanswered \subseteq downlinks
  /\ \A c \in unanswered : c \in waiters \/ job[c] = "wait"
  /\ reqPending <=> waiters # {}

Awaited == met \cap {"ack", "lost"} = {} /\ waiters # {} => Finishing \/ (~upCap /\ AnswerComes)

LEMMA WaitingStep ==
  ASSUME Base, Waiting, [Next]_vars
  PROVE  Waiting'
<1> USE DEF Waiting
<1>0. /\ job \in [Clients -> {"idle", "announce", "tell", "wait", "write"}] /\ downlinks \subseteq Clients
      /\ unanswered \subseteq Clients /\ waiters \subseteq Clients /\ reqPending \in BOOLEAN
  BY DEF Base, TypeOK
<1>1. CASE UNCHANGED <<wait, downlinks, job>>
  BY <1>1 DEF wait
<1>2. CASE Take \/ Done \/ Note \/ AckCaps \/ AckOwner \/ NewReq \/ Del \/ Offer \/ Account
  BY <1>1, <1>2 DEF Take, Done, Note, AckCaps, AckOwner, NewReq, Del, Offer, Account
<1>3. CASE Outcome \/ completeRegistration \/ Connect \/ AnswerReq \/ EndExchange \/ Services
  BY <1>1, <1>3 DEF Outcome, completeRegistration, Connect, AnswerReq, EndExchange, Services
<1>4. CASE Waiters \/ New
  <2>1. /\ UNCHANGED <<downlinks, job>>
        /\ \/ UNCHANGED wait
           \/ waiters' = {} /\ reqPending' = FALSE /\ unanswered' = unanswered \ (waiters \cap downlinks)
    BY <1>4 DEF Waiters, New, finishSASLWaiters
  <2> QED
    BY <1>0, <2>1 DEF wait
<1>5. CASE HandleDisconnect
  BY <1>5 DEF HandleDisconnect
<1>6. ASSUME NEW c \in Clients, Attach(c) PROVE Waiting'
  BY <1>0, <1>6 DEF Attach, wait
<1>7. ASSUME NEW c \in Clients, notifyAttachCaps(c) \/ SendNew(c) PROVE Waiting'
  BY <1>0, <1>7 DEF notifyAttachCaps, SendNew, wait
<1>8. ASSUME NEW c \in Clients, RequestClientSASL(c) PROVE Waiting'
  BY <1>0, <1>8 DEF RequestClientSASL
<1>9. ASSUME NEW c \in Clients, WaitForAck(c) PROVE Waiting'
  BY <1>0, <1>9 DEF WaitForAck
<1>10. ASSUME NEW c \in Clients, forwardClientAuthenticate(c) PROVE Waiting'
  BY <1>0, <1>10 DEF forwardClientAuthenticate, wait
<1>11. ASSUME NEW c \in Clients, Authenticate(c) PROVE Waiting'
  BY <1>0, <1>11 DEF Authenticate, wait
<1>12. ASSUME NEW c \in Clients, Detach(c) PROVE Waiting'
  BY <1>0, <1>12 DEF Detach
<1>13. CASE UNCHANGED vars
  BY <1>1, <1>13 DEF vars
<1> QED
  BY <1>2, <1>3, <1>4, <1>5, <1>6, <1>7, <1>8, <1>9, <1>10, <1>11, <1>12, <1>13 DEF Next

LEMMA AwaitedStep ==
  ASSUME Base, Waiting, Awaited, [Next]_vars
  PROVE  Awaited'
<1> SUFFICES ASSUME "ack" \notin met', "lost" \notin met', waiters' # {}
             PROVE  Finishing' \/ (~upCap' /\ AnswerComes')
  BY DEF Awaited
<1>a. "ack" \notin met /\ "lost" \notin met
  BY Fixed
<1>b. waiters # {} => Finishing \/ (~upCap /\ AnswerComes)
  BY <1>a DEF Awaited
<1>0. /\ demux \in [line : Lines, todo : Todos, had : BOOLEAN] /\ demux.todo \in Todos /\ q \in Seq(Lines)
      /\ reqs \in Nat /\ upCap \in BOOLEAN /\ waiters \subseteq Clients
  BY DEF Base, TypeOK
<1>c. waiters # {} => registered /\ offers # "off"
  BY <1>a DEF Base, Alone
<1>d. \A c \in Clients : job[c] # "idle" => registered /\ offers # "off"
  BY <1>a DEF Base, Alone
<1>1. CASE UNCHANGED <<upCap, waiters, reqs, q, demux>>
  BY <1>1, <1>b DEF Finishing, AnswerComes
<1>2. CASE Take
  <2>1. /\ demux.todo = <<>> /\ q # <<>> /\ q' = Tail(q) /\ demux'.todo = StepsOf(Head(q).t)
        /\ UNCHANGED <<upCap, waiters, reqs, registered>>
    BY <1>2 DEF Take, flags, wait
  <2>2. \A T : Has(q, T) <=> (Head(q).t \in T \/ Has(q', T))
    BY <1>0, <2>1, HasTail
  <2>3. ~upCap /\ (reqs > 0 \/ Has(q, {"ACK", "NAK"})) /\ registered
    BY <1>b, <1>c, <2>1 DEF Finishing, AnswerComes
  <2>4. CASE Head(q).t = "ACK"
    BY <2>1, <2>3, <2>4 DEF AnswerComes, StepsOf
  <2>5. CASE Head(q).t = "NAK"
    BY <2>1, <2>3, <2>5 DEF Finishing, StepsOf
  <2>6. CASE Head(q).t \notin {"ACK", "NAK"}
    BY <2>1, <2>2, <2>3, <2>6 DEF AnswerComes
  <2> QED
    BY <2>4, <2>5, <2>6
<1>3. CASE Done
  <2>1. demux.todo = <<>> /\ UNCHANGED <<upCap, waiters, reqs, q>>
    BY <1>3 DEF Done, flags, wait
  <2> QED
    BY <1>b, <2>1 DEF Finishing, AnswerComes
<1>4. CASE Note \/ Account \/ Outcome \/ completeRegistration
  <2>1. /\ demux.todo \in {<<"note">>, <<"account">>, <<"outcome", "offer">>, <<"complete", "offer">>}
        /\ UNCHANGED <<upCap, waiters, reqs, q>>
    <3>1. /\ At("note") \/ At("account") \/ At("outcome") \/ At("complete")
          /\ UNCHANGED <<upCap, waiters, reqs, q>>
      BY <1>4 DEF Note, Account, Outcome, completeRegistration, wait
    <3> QED
      BY <1>0, <3>1, AtStage
  <2> QED
    BY <1>b, <2>1 DEF Finishing, AnswerComes
<1>5. CASE AckCaps
  <2>1. demux.todo \in {<<"caps", "owner">>, <<"caps", "owner", "offer", "ackwaiters">>} /\ demux.todo # <<>>
    BY <1>0, <1>5, AtStage DEF AckCaps, At
  <2>2. demux'.had = upCap /\ demux'.todo = Tail(demux.todo) /\ waiters' = waiters
    BY <1>0, <1>5, <2>1, RestFacts DEF AckCaps, wait, Base
  <2>3. demux.todo # <<"caps", "owner">>
    BY <1>c, <2>2, StageLine DEF Base
  <2>4. ~upCap
    BY <1>b, <2>1, <2>2 DEF Finishing
  <2>5. demux'.todo = <<"owner", "offer", "ackwaiters">>
    BY <2>1, <2>2, <2>3, Rests
  <2>6. ~demux'.had
    BY <2>2, <2>4
  <2> QED
    BY <2>5, <2>6 DEF Finishing
<1>6. CASE AckOwner
  <2>1. demux.todo \in {<<"owner">>, <<"owner", "offer", "ackwaiters">>} /\ demux.todo # <<>>
    BY <1>0, <1>6, AtStage DEF AckOwner, At
  <2>2. demux'.had = demux.had /\ demux'.todo = Tail(demux.todo) /\ UNCHANGED <<upCap, waiters, reqs, q>>
    BY <1>6, <2>1, RestFacts DEF AckOwner, wait, Base
  <2>3. CASE demux.todo = <<"owner">>
    BY <1>b, <2>2, <2>3 DEF Finishing, AnswerComes
  <2>4. CASE demux.todo = <<"owner", "offer", "ackwaiters">>
    <3>1. demux'.todo = <<"offer", "ackwaiters">>
      BY <2>2, <2>4, Rests
    <3> QED
      BY <1>b, <2>2, <2>4, <3>1 DEF Finishing, AnswerComes
  <2> QED
    BY <2>1, <2>3, <2>4
<1>7. CASE Offer
  <2>1. /\ demux.todo \in {<<"offer", "ackwaiters">>, <<"offer", "req">>, <<"offer", "delwaiters">>, <<"offer">>}
        /\ demux.todo # <<>>
    BY <1>0, <1>7, AtStage DEF Offer, At
  <2>2. demux'.had = demux.had /\ demux'.todo = Tail(demux.todo) /\ UNCHANGED <<upCap, waiters, reqs, q>>
    BY <1>7, <2>1, RestFacts DEF Offer, wait, Base
  <2>3. CASE demux.todo \in {<<"offer", "req">>, <<"offer", "delwaiters">>, <<"offer">>}
    <3>1. ~Finishing /\ demux.todo # <<"caps", "owner", "offer", "ackwaiters">>
      BY <2>3 DEF Finishing
    <3> QED
      BY <1>b, <2>2, <3>1 DEF AnswerComes
  <2>4. CASE demux.todo = <<"offer", "ackwaiters">>
    <3>1. demux'.todo = <<"ackwaiters">>
      BY <2>2, <2>4, Rests
    <3> QED
      BY <1>b, <2>2, <2>4, <3>1 DEF Finishing, AnswerComes
  <2> QED
    BY <2>1, <2>3, <2>4
<1>8. CASE Waiters
  <2>1. /\ demux.todo \in {<<"ackwaiters">>, <<"delwaiters">>, <<"waiters">>}
        /\ UNCHANGED <<upCap, reqs, q>>
    <3>1. (At("ackwaiters") \/ At("delwaiters") \/ At("waiters")) /\ UNCHANGED <<upCap, reqs, q>>
      BY <1>8 DEF Waiters, flags
    <3> QED
      BY <1>0, <3>1, AtStage
  <2>2. /\ waiters' = waiters
        /\ (At("ackwaiters") /\ demux.had) \/ (At("delwaiters") /\ ~demux.had)
    BY <1>8 DEF Waiters, finishSASLWaiters, wait
  <2>3. ~Finishing
    BY <1>0, <2>2, AtStage DEF Finishing
  <2> QED
    BY <1>b, <2>1, <2>2, <2>3 DEF AnswerComes
<1>9. CASE New
  <2>1. demux.todo = <<"new", "offer", "req">>
    BY <1>0, <1>9, AtStage DEF New
  <2>2. UNCHANGED <<upCap, waiters, reqs, q>>
    BY <1>9 DEF New, finishSASLWaiters, wait
  <2> QED
    BY <1>b, <2>1, <2>2 DEF Finishing, AnswerComes
<1>10. CASE NewReq
  <2>1. demux.todo = <<"req">>
    BY <1>0, <1>10, AtStage DEF NewReq
  <2>2. UNCHANGED <<upCap, waiters, q>> /\ (reqs' = reqs \/ reqs' = reqs + 1)
    BY <1>10 DEF NewReq, flags, wait
  <2> QED
    BY <1>0, <1>b, <2>1, <2>2 DEF Finishing, AnswerComes
<1>11. CASE Del
  <2>1. demux.todo = <<"del", "offer", "delwaiters">>
    BY <1>0, <1>11, AtStage DEF Del
  <2>2. ~upCap' /\ UNCHANGED <<waiters, reqs, q>>
    BY <1>11 DEF Del, wait
  <2> QED
    BY <1>b, <2>1, <2>2 DEF Finishing, AnswerComes
<1>12. CASE HandleDisconnect
  BY <1>12 DEF HandleDisconnect
<1>13. ASSUME NEW c \in Clients, Attach(c) \/ notifyAttachCaps(c) \/ SendNew(c) \/ RequestClientSASL(c)
                 \/ forwardClientAuthenticate(c) \/ Authenticate(c) \/ Detach(c)
       PROVE  Finishing' \/ (~upCap' /\ AnswerComes')
  BY <1>1, <1>13
     DEF Attach, notifyAttachCaps, SendNew, RequestClientSASL, forwardClientAuthenticate, Authenticate, Detach, flags, wait
<1>14. ASSUME NEW c \in Clients, WaitForAck(c) PROVE Finishing' \/ (~upCap' /\ AnswerComes')
  <2>1. ~upCap
    BY <1>14, Untroubled
  <2>2. offers # "off"
    BY <1>d, <1>14 DEF WaitForAck
  <2>3. ~upCap' /\ UNCHANGED <<q, demux>> /\ reqs' = IF reqPending THEN reqs ELSE reqs + 1
    BY <1>14, <2>1, <2>2 DEF WaitForAck, flags
  <2>4. CASE reqPending
    BY <1>b, <2>3, <2>4 DEF Waiting, Finishing, AnswerComes
  <2>5. CASE ~reqPending
    BY <1>0, <2>3, <2>5 DEF AnswerComes
  <2> QED
    BY <2>4, <2>5
<1>15. CASE Connect
  <2>1. offers = "off" /\ waiters' = waiters
    BY <1>15 DEF Connect, wait
  <2> QED
    BY <1>c, <2>1
<1>16. CASE AnswerReq
  <2>1. PICK t \in {"ACK", "NAK"} : Adds(<<Line(t)>>) /\ \A T : Has(<<Line(t)>>, T) <=> t \in T
    BY <1>16, AnswerSaid DEF Base
  <2>2. Has(q', {"ACK", "NAK"}) /\ UNCHANGED <<upCap, waiters, demux>>
    BY <1>16, <2>1 DEF AnswerReq, Adds, flags, wait
  <2>3. Finishing \/ ~upCap
    BY <1>b, <2>2
  <2> QED
    BY <2>2, <2>3 DEF Finishing, AnswerComes
<1>17. CASE EndExchange \/ Services
  <2>1. UNCHANGED <<upCap, waiters, reqs, demux>>
    BY <1>17 DEF EndExchange, Services, flags, wait
  <2>2. Has(q, {"ACK", "NAK"}) => Has(q', {"ACK", "NAK"})
    <3>1. CASE EndExchange
      BY <3>1, EndSaid DEF Base, Adds
    <3>2. CASE Services
      BY <3>2, ServicesSaid DEF Base, Adds
    <3> QED
      BY <1>17, <3>1, <3>2
  <2> QED
    BY <1>b, <2>1, <2>2 DEF Finishing, AnswerComes
<1>18. CASE UNCHANGED vars
  BY <1>1, <1>18 DEF vars, flags, wait
<1> QED
  BY <1>2, <1>3, <1>4, <1>5, <1>6, <1>7, <1>8, <1>9, <1>10, <1>11, <1>12, <1>13, <1>14, <1>15, <1>16, <1>17, <1>18
     DEF Next

\* A client that asked for sasl is told yes or no (RequestClientSASL, finishSASLWaiters),
\* unless the ACK or the loss of the uplink overtakes it between the check and the queue
\* of waiters.
THEOREM AskersAnswered == Spec => []WaitersAnswered
<1>1. Init => Waiting /\ Awaited
  BY DEF Init, Waiting, Awaited
<1>2. Base /\ Waiting /\ Awaited => WaitersAnswered
  <2> SUFFICES ASSUME Base, Waiting, Awaited, met \cap {"ack", "lost"} = {}, Quiet PROVE unanswered = {}
    BY DEF WaitersAnswered, AllAnswered
  <2>1. ~Has(q, {"ACK", "NAK"}) /\ reqs = 0 /\ demux.todo = <<>>
    BY HasNone DEF Quiet, Base, Alone
  <2>2. waiters = {}
    BY <2>1 DEF Awaited, Finishing, AnswerComes
  <2> QED
    BY <2>2 DEF Waiting, Quiet, Base, TypeOK
<1>3. Base /\ Waiting /\ [Next]_vars => Waiting'
  BY WaitingStep
<1>4. Base /\ Waiting /\ Awaited /\ [Next]_vars => Awaited'
  BY AwaitedStep
<1> QED
  BY <1>1, <1>2, <1>3, <1>4, BaseHolds, PTL DEF Spec

-----------------------------------------------------------------------------
(* What sasl is held back for.                                             *)

\* What may be left when the first step of a line is done.
Moved == {<<>>, <<"owner">>, <<"owner", "offer", "ackwaiters">>, <<"offer", "ackwaiters">>, <<"ackwaiters">>,
          <<"offer", "req">>, <<"req">>, <<"offer", "delwaiters">>, <<"delwaiters">>, <<"offer">>}

LEMMA RestMoves == ASSUME NEW x \in Todos, x # <<>> PROVE Tail(x) \in Moved
BY Rests, Zenon DEF Todos, Moved

\* A CAP NEW of sasl is still to be handled; of one with a mechanism the bouncer can use.
NewComes == Has(q, {"NEW", "NEWx"}) \/ demux.todo = <<"new", "offer", "req">>
GoodComes == Has(q, {"NEW"}) \/ (demux.todo = <<"new", "offer", "req">> /\ demux.line.t = "NEW")

\* The bouncer is about to ask for sasl, after a CAP NEW.
Trying == demux.todo \in {<<"offer", "req">>, <<"req">>} /\ ~demux.had

\* The outcome of an exchange is still to be handled.
OutcomeComes == Has(q, {"903", "904"}) \/ demux.todo = <<"outcome", "offer">>

\* The driver runs an exchange while the ircd has the bouncer's AUTHENTICATE.
Driven == "del" \notin met => (driving <=> Bouncer \in mix)

\* Of the offer that is announced.
Came ==
  /\ "del" \notin met /\ registered /\ NewComes => offers # "none"
  /\ "del" \notin met /\ registered /\ GoodComes => usable

Tries == Trying => ~upCap /\ bPending

\* A login that is pending is about to be asked for, under way, or has its outcome.
Pends ==
  able /\ met \cap {"nak", "del"} = {} /\ registered /\ bPending =>
    /\ own
    /\ \/ offers # "none" /\ usable /\ (Trying \/ reqs > 0)
       \/ Bouncer \in mix \/ OutcomeComes

LEMMA DrivenStep ==
  ASSUME Base, Driven, [Next]_vars
  PROVE  Driven'
<1> USE DEF Driven
<1>0. met \subseteq met' /\ mix \subseteq Parties /\ driving \in BOOLEAN /\ own \in BOOLEAN /\ usable \in BOOLEAN
  BY Fixed DEF Base, TypeOK
<1>1. CASE UNCHANGED <<mix, driving>>
  BY <1>0, <1>1
<1>2. CASE Take \/ Done \/ Note \/ AckCaps \/ AckOwner \/ Waiters \/ New \/ NewReq \/ Del
  BY <1>1, <1>2 DEF Take, Done, Note, AckCaps, AckOwner, Waiters, New, NewReq, Del, ircd
<1>3. CASE Offer \/ Account \/ Outcome \/ completeRegistration \/ Connect
  BY <1>1, <1>3 DEF Offer, Account, Outcome, completeRegistration, Connect, ircd
<1>4. CASE HandleDisconnect \/ EndExchange
  <2>1. mix' = {} /\ driving' = FALSE
    BY <1>4 DEF HandleDisconnect, EndExchange
  <2> QED
    BY <2>1
<1>5. ASSUME NEW c \in Clients, Attach(c) \/ notifyAttachCaps(c) \/ SendNew(c) \/ RequestClientSASL(c) \/ WaitForAck(c)
                \/ forwardClientAuthenticate(c) \/ Detach(c)
      PROVE  Driven'
  BY <1>1, <1>5
     DEF Attach, notifyAttachCaps, SendNew, RequestClientSASL, WaitForAck, forwardClientAuthenticate, Detach, ircd
<1>6. ASSUME NEW c \in Clients, Authenticate(c) PROVE Driven'
  <2>1. driving' = driving /\ (mix' = mix \cup {c} \/ mix' = mix)
    BY <1>6 DEF Authenticate
  <2> QED
    BY <1>0, <2>1, SaslAssumption
<1>7. CASE AnswerReq
  <2>1. PICK t \in {"ACK", "NAK"} : /\ t = "ACK" => StepPost(<<Line("ACK")>>)
                                    /\ t = "NAK" => UNCHANGED <<driving, mix>>
    BY <1>7, AnswerSaid DEF Base
  <2>2. CASE t = "NAK"
    BY <1>1, <2>1, <2>2
  <2>3. CASE t = "ACK"
    <3>1. \/ driving' /\ mix' = mix \cup {Bouncer}
          \/ driving' = driving /\ mix' = mix
      BY <1>0, <2>1, <2>3 DEF StepPost
    <3> QED
      BY <1>0, <3>1
  <2> QED
    BY <2>1, <2>2, <2>3
<1>8. CASE Services
  <2>1. driving' = driving /\ (mix' = mix \/ (mix' = {} /\ ("del" \in met' \/ mix = {})))
    BY <1>8, ServicesSaid DEF Services, Base
  <2> QED
    BY <1>0, <2>1
<1>9. CASE UNCHANGED vars
  BY <1>1, <1>9 DEF vars, ircd
<1> QED
  BY <1>2, <1>3, <1>4, <1>5, <1>6, <1>7, <1>8, <1>9 DEF Next

\* A step that neither brings nor takes away a CAP NEW.
LEMMA NewStays ==
  ASSUME UNCHANGED <<registered, offers, usable>>, met \subseteq met', Came,
         NewComes' => NewComes, GoodComes' => GoodComes
  PROVE  Came'
BY DEF Came

LEMMA CameStep ==
  ASSUME Base, Came, [Next]_vars
  PROVE  Came'
<1>0. /\ met \subseteq met' /\ registered \in BOOLEAN /\ q \in Seq(Lines) /\ demux.todo \in Todos
      /\ demux \in [line : Lines, todo : Todos, had : BOOLEAN]
  BY Fixed DEF Base, TypeOK
<1>1. ASSUME UNCHANGED <<registered, offers, usable, q>>, demux' = demux
      PROVE  Came'
  BY <1>0, <1>1, NewStays DEF NewComes, GoodComes
<1>2. ASSUME UNCHANGED <<registered, offers, usable, q>>, demux'.todo # <<"new", "offer", "req">>
      PROVE  Came'
  BY <1>0, <1>2, NewStays DEF NewComes, GoodComes
<1>3. CASE Take
  <2>1. /\ q # <<>> /\ q' = Tail(q) /\ demux'.todo = StepsOf(Head(q).t) /\ demux'.line = Head(q)
        /\ UNCHANGED <<registered, offers, usable>>
    BY <1>3 DEF Take, flags, ircd
  <2>2. \A T : Has(q, T) <=> (Head(q).t \in T \/ Has(q', T))
    BY <1>0, <2>1, HasTail
  <2>3. StepsOf(Head(q).t) = <<"new", "offer", "req">> => Head(q).t \in {"NEW", "NEWx"}
    BY DEF StepsOf
  <2>4. NewComes' => Has(q, {"NEW", "NEWx"})
    BY <2>1, <2>2, <2>3 DEF NewComes
  <2>5. GoodComes' => Has(q, {"NEW"})
    BY <2>1, <2>2, <2>3 DEF GoodComes
  <2> QED
    BY <1>0, <2>1, <2>4, <2>5, NewStays DEF NewComes, GoodComes
<1>4. CASE Done
  <2>1. demux' = [line |-> Line(""), todo |-> <<>>, had |-> FALSE] /\ UNCHANGED <<registered, offers, usable, q>>
    BY <1>4 DEF Done, flags, ircd
  <2>2. demux'.todo = <<>>
    BY <2>1
  <2> QED
    BY <1>2, <2>1, <2>2
<1>5. ASSUME demux.todo # <<>>, UNCHANGED <<registered, offers, usable, q>>, demux'.todo \in {Tail(demux.todo), <<>>}
      PROVE  Came'
  <2>1. demux'.todo # <<"new", "offer", "req">>
    <3>1. <<>> \in Moved /\ <<"new", "offer", "req">> \notin Moved
      BY DEF Moved
    <3>2. Tail(demux.todo) \in Moved
      BY <1>0, <1>5, RestMoves
    <3> QED
      BY <1>5, <3>1, <3>2
  <2> QED
    BY <1>2, <1>5, <2>1
<1>6. CASE Note \/ AckCaps \/ AckOwner \/ Waiters \/ New \/ NewReq \/ Del \/ Offer \/ Account
  <2>1. demux.todo # <<>>
    BY <1>6 DEF Note, AckCaps, AckOwner, Waiters, New, NewReq, Del, Offer, Account, At
  <2>2. UNCHANGED <<registered, offers, usable, q>>
    BY <1>6 DEF Note, AckCaps, AckOwner, Waiters, New, NewReq, Del, Offer, Account, flags, ircd
  <2>3. \E b \in BOOLEAN : demux' = Rest \/ demux' = [Rest EXCEPT !.had = b]
    BY <1>6 DEF Note, AckCaps, AckOwner, Waiters, New, NewReq, Del, Offer, Account, Base, TypeOK
  <2>4. demux'.todo = Tail(demux.todo)
    BY <2>1, <2>3, RestFacts DEF Base
  <2> QED
    BY <1>5, <2>1, <2>2, <2>4
<1>7. CASE Outcome
  <2>1. demux.todo # <<>> /\ UNCHANGED <<registered, offers, usable, q>>
        /\ (demux' = Rest \/ demux' = [demux EXCEPT !.todo = <<>>])
    BY <1>7 DEF Outcome, At, ircd
  <2>2. demux'.todo \in {Tail(demux.todo), <<>>}
    BY <1>0, <2>1, RestFacts DEF Base
  <2> QED
    BY <1>5, <2>1, <2>2
<1>8. CASE completeRegistration
  <2>1. demux.todo = <<"complete", "offer">> /\ demux.todo # <<>>
    BY <1>0, <1>8, AtStage DEF completeRegistration, At
  <2>2. demux'.todo = <<"offer">> /\ UNCHANGED <<offers, usable, q>>
    BY <1>8, <2>1, RestFacts, Rests DEF completeRegistration, ircd, Base
  <2>3. CASE registered
    <3>1. registered' = registered
      BY <1>8, <2>3 DEF completeRegistration
    <3> QED
      BY <1>2, <2>2, <3>1
  <2>4. CASE ~registered
    <3>1. ~Has(q, {"NEW", "NEWx"}) /\ ~Has(q, {"NEW"})
      BY <2>4 DEF Base, Alone, Has
    <3>2. ~NewComes' /\ ~GoodComes'
      BY <2>2, <3>1 DEF NewComes, GoodComes
    <3> QED
      BY <3>2 DEF Came
  <2> QED
    BY <2>3, <2>4
<1>9. CASE HandleDisconnect \/ Connect
  <2>1. ~registered'
    BY <1>9 DEF HandleDisconnect, Connect, flags, Base, Alone
  <2> QED
    BY <2>1 DEF Came
<1>10. ASSUME NEW c \in Clients, Attach(c) \/ notifyAttachCaps(c) \/ SendNew(c) \/ RequestClientSASL(c) \/ WaitForAck(c)
                 \/ forwardClientAuthenticate(c) \/ Authenticate(c) \/ Detach(c)
       PROVE  Came'
  BY <1>1, <1>10
     DEF Attach, notifyAttachCaps, SendNew, RequestClientSASL, WaitForAck, forwardClientAuthenticate, Authenticate, Detach,
         flags, ircd
<1>11. CASE AnswerReq
  <2>1. PICK t \in {"ACK", "NAK"} : /\ Adds(<<Line(t)>>) /\ \A T : Has(<<Line(t)>>, T) <=> t \in T
                                    /\ t = "ACK" => offers' = "granted"
                                    /\ t = "NAK" => UNCHANGED offers
    BY <1>11, AnswerSaid DEF Base
  <2>2. UNCHANGED <<registered, usable, demux>>
    BY <1>11 DEF AnswerReq, flags
  <2>3. (NewComes' => NewComes) /\ (GoodComes' => GoodComes)
    BY <2>1, <2>2 DEF NewComes, GoodComes, Adds
  <2> QED
    BY <1>0, <2>1, <2>2, <2>3 DEF Came
<1>12. CASE EndExchange
  <2>1. UNCHANGED <<registered, offers, usable, demux>>
    BY <1>12 DEF EndExchange, flags
  <2>2. (Has(q', {"NEW", "NEWx"}) => Has(q, {"NEW", "NEWx"})) /\ (Has(q', {"NEW"}) => Has(q, {"NEW"}))
    BY <1>12, EndSaid DEF Base, Adds
  <2> QED
    BY <1>0, <2>1, <2>2, NewStays DEF NewComes, GoodComes
<1>13. CASE Services
  <2>0. UNCHANGED <<registered, demux>> /\ registered
    BY <1>13 DEF Services, flags
  <2>1. CASE /\ offers = "none" /\ offers' = "offered"
             /\ \E t \in {"NEW", "NEWx"} : /\ Adds(<<Line(t)>>) /\ usable' = (t = "NEW")
                                           /\ \A T : Has(<<Line(t)>>, T) <=> t \in T
    <3>1. PICK t \in {"NEW", "NEWx"} : /\ Adds(<<Line(t)>>) /\ usable' = (t = "NEW")
                                       /\ \A T : Has(<<Line(t)>>, T) <=> t \in T
      BY <2>1
    <3>2. "del" \notin met => ~NewComes
      BY <2>0, <2>1 DEF Came
    <3>3. demux.todo = <<"new", "offer", "req">> => NewComes
      BY DEF NewComes
    <3>4. Has(q, {"NEW"}) => NewComes
      BY DEF NewComes, Has
    <3>5. "del" \notin met => (GoodComes' => t = "NEW")
      BY <2>0, <3>1, <3>2, <3>3, <3>4 DEF GoodComes, Adds
    <3> QED
      BY <1>0, <2>1, <3>1, <3>5 DEF Came
  <2>2. CASE /\ offers # "none" /\ offers' = "none" /\ UNCHANGED usable
             /\ "del" \in met' \/ (mix = {} /\ saslClient = "none" /\ unanswered = {} /\ Quiet)
             /\ Adds(<<Line("901"), Line("DEL")>>)
             /\ \A T : Has(<<Line("901"), Line("DEL")>>, T) <=> ("901" \in T \/ "DEL" \in T)
    <3>1. CASE "del" \in met'
      BY <3>1 DEF Came
    <3>2. CASE Quiet
      <4>1. demux.todo = <<>> /\ \A T : ~Has(q, T)
        BY <3>2, HasNone DEF Quiet, Base, Alone
      <4>2. ~Has(q', {"NEW", "NEWx"}) /\ ~Has(q', {"NEW"})
        BY <2>2, <4>1 DEF Adds
      <4>3. ~NewComes' /\ ~GoodComes'
        BY <2>0, <4>1, <4>2 DEF NewComes, GoodComes
      <4> QED
        BY <4>3 DEF Came
    <3> QED
      BY <2>2, <3>1, <3>2
  <2> QED
    BY <1>13, <2>1, <2>2, ServicesSaid DEF Base
<1>14. CASE UNCHANGED vars
  BY <1>1, <1>14 DEF vars, flags, ircd
<1> QED
  BY <1>3, <1>4, <1>6, <1>7, <1>8, <1>9, <1>10, <1>11, <1>12, <1>13, <1>14 DEF Next

LEMMA TriesStep ==
  ASSUME Base, Tries, [Next]_vars
  PROVE  Tries'
<1> USE DEF Tries
<1>0. /\ demux.todo \in Todos /\ demux \in [line : Lines, todo : Todos, had : BOOLEAN]
      /\ upCap \in BOOLEAN /\ bPending \in BOOLEAN
  BY DEF Base, TypeOK
<1>1. CASE UNCHANGED <<demux, upCap, bPending>>
  BY <1>1 DEF Trying
<1>2. CASE Take
  <2>1. demux'.todo = StepsOf(Head(q).t)
    BY <1>2 DEF Take
  <2> QED
    BY <2>1 DEF StepsOf, Trying
<1>3. CASE Done
  <2>1. demux' = [line |-> Line(""), todo |-> <<>>, had |-> FALSE]
    BY <1>3 DEF Done
  <2> QED
    BY <2>1 DEF Trying
<1>4. CASE Note \/ AckCaps \/ AckOwner \/ Waiters \/ NewReq \/ Del \/ Account \/ completeRegistration
  <2>1. /\ At("note") \/ At("caps") \/ At("owner") \/ At("ackwaiters") \/ At("delwaiters") \/ At("waiters")
           \/ At("req") \/ At("del") \/ At("account") \/ At("complete")
        /\ \E b \in BOOLEAN : demux' = Rest \/ demux' = [Rest EXCEPT !.had = b]
    <3>1. At("note") \/ At("caps") \/ At("owner") \/ At("ackwaiters") \/ At("delwaiters") \/ At("waiters")
           \/ At("req") \/ At("del") \/ At("account") \/ At("complete")
      BY <1>4 DEF Note, AckCaps, AckOwner, Waiters, NewReq, Del, Account, completeRegistration
    <3>2. \E b \in BOOLEAN : demux' = Rest \/ demux' = [Rest EXCEPT !.had = b]
      BY <1>0, <1>4 DEF Note, AckCaps, AckOwner, Waiters, NewReq, Del, Account, completeRegistration
    <3> QED
      BY <3>1, <3>2
  <2>2. demux'.todo = Tail(demux.todo)
    BY <2>1, RestFacts DEF Base, At
  <2>3. demux.todo \in {<<"note">>, <<"caps", "owner">>, <<"caps", "owner", "offer", "ackwaiters">>, <<"owner">>,
                        <<"owner", "offer", "ackwaiters">>, <<"ackwaiters">>, <<"delwaiters">>, <<"waiters">>,
                        <<"req">>, <<"del", "offer", "delwaiters">>, <<"account">>, <<"complete", "offer">>}
    <3>1. \/ demux.todo = <<"note">> \/ demux.todo \in {<<"caps", "owner">>, <<"caps", "owner", "offer", "ackwaiters">>}
          \/ demux.todo \in {<<"owner">>, <<"owner", "offer", "ackwaiters">>} \/ demux.todo = <<"ackwaiters">>
          \/ demux.todo = <<"delwaiters">> \/ demux.todo = <<"waiters">> \/ demux.todo = <<"req">>
          \/ demux.todo = <<"del", "offer", "delwaiters">> \/ demux.todo = <<"account">>
          \/ demux.todo = <<"complete", "offer">>
      BY <1>0, <2>1, AtStage, Zenon
    <3> QED
      BY <3>1
  <2>4. demux'.todo \in {<<>>, <<"owner">>, <<"owner", "offer", "ackwaiters">>, <<"offer", "ackwaiters">>,
                         <<"offer", "delwaiters">>, <<"offer">>}
    BY <2>2, <2>3, Rests, Zenon
  <2> QED
    BY <2>4 DEF Trying
<1>5. CASE New
  <2>1. /\ demux' = [Rest EXCEPT !.had = ~(BouncerTries /\ demux.line.t = "NEW")]
        /\ upCap' = upCap /\ bPending' = (bPending \/ (BouncerTries /\ demux.line.t = "NEW"))
    BY <1>5 DEF New
  <2>2. demux'.had = ~(BouncerTries /\ demux.line.t = "NEW")
    BY <1>5, <2>1, RestFacts DEF New, At, Base
  <2> QED
    BY <2>1, <2>2 DEF Trying, BouncerTries
<1>6. CASE Offer
  <2>1. /\ demux.todo \in {<<"offer", "ackwaiters">>, <<"offer", "req">>, <<"offer", "delwaiters">>, <<"offer">>}
        /\ demux.todo # <<>>
    BY <1>0, <1>6, AtStage DEF Offer, At
  <2>2. demux'.had = demux.had /\ demux'.todo = Tail(demux.todo) /\ UNCHANGED <<upCap, bPending>>
    BY <1>6, <2>1, RestFacts DEF Offer, Base
  <2>3. demux'.todo \in {<<"ackwaiters">>, <<"delwaiters">>, <<>>} \/ demux.todo = <<"offer", "req">>
    BY <2>1, <2>2, Rests, Zenon
  <2>4. CASE demux'.todo \in {<<"ackwaiters">>, <<"delwaiters">>, <<>>}
    BY <2>4 DEF Trying
  <2>5. CASE demux.todo = <<"offer", "req">>
    <3>1. Trying' => Trying
      BY <2>2, <2>5 DEF Trying
    <3> QED
      BY <2>2, <3>1
  <2> QED
    BY <2>3, <2>4, <2>5
<1>7. CASE Outcome
  <2>1. demux.todo = <<"outcome", "offer">> /\ demux.todo # <<>>
    BY <1>0, <1>7, AtStage DEF Outcome, At
  <2>2. demux' = Rest \/ demux' = [demux EXCEPT !.todo = <<>>]
    BY <1>7 DEF Outcome
  <2>3. demux'.todo \in {<<"offer">>, <<>>}
    BY <1>0, <2>1, <2>2, RestFacts, Rests DEF Base
  <2> QED
    BY <2>3 DEF Trying
<1>8. CASE HandleDisconnect
  <2>1. demux'.todo = <<>>
    BY <1>8 DEF HandleDisconnect, Base, Alone
  <2> QED
    BY <2>1 DEF Trying
<1>9. CASE Connect \/ AnswerReq \/ EndExchange \/ Services
  BY <1>1, <1>9 DEF Connect, AnswerReq, EndExchange, Services, flags
<1>10. ASSUME NEW c \in Clients, Attach(c) \/ notifyAttachCaps(c) \/ SendNew(c) \/ RequestClientSASL(c) \/ WaitForAck(c)
                 \/ forwardClientAuthenticate(c) \/ Authenticate(c) \/ Detach(c)
       PROVE  Tries'
  BY <1>1, <1>10
     DEF Attach, notifyAttachCaps, SendNew, RequestClientSASL, WaitForAck, forwardClientAuthenticate, Authenticate, Detach, flags
<1>11. CASE UNCHANGED vars
  BY <1>1, <1>11 DEF vars, flags
<1> QED
  BY <1>2, <1>3, <1>4, <1>5, <1>6, <1>7, <1>8, <1>9, <1>10, <1>11 DEF Next

LEMMA PendsStep ==
  ASSUME Base, Driven, Came, Tries, Pends, [Next]_vars
  PROVE  Pends'
<1> SUFFICES ASSUME able, "nak" \notin met', "del" \notin met', registered', bPending'
             PROVE  own /\ (\/ offers' # "none" /\ usable' /\ (Trying' \/ reqs' > 0)
                            \/ Bouncer \in mix' \/ OutcomeComes')
  BY Fixed DEF Pends
<1>a. "nak" \notin met /\ "del" \notin met
  BY Fixed
<1>p. registered /\ bPending =>
        /\ own
        /\ \/ offers # "none" /\ usable /\ (Trying \/ reqs > 0)
           \/ Bouncer \in mix \/ OutcomeComes
  BY <1>a DEF Pends
<1>d. driving => Bouncer \in mix
  BY <1>a DEF Driven
<1>n. registered /\ NewComes /\ GoodComes => offers # "none" /\ usable
  BY <1>a DEF Came
<1> DEFINE Goal == own /\ (\/ offers' # "none" /\ usable' /\ (Trying' \/ reqs' > 0)
                           \/ Bouncer \in mix' \/ OutcomeComes')
<1>0. /\ demux.todo \in Todos /\ demux \in [line : Lines, todo : Todos, had : BOOLEAN] /\ q \in Seq(Lines)
      /\ reqs \in Nat /\ bPending \in BOOLEAN /\ registered \in BOOLEAN /\ mix \subseteq Parties
  BY DEF Base, TypeOK
\* What was there is still there.
<1>1. ASSUME registered, bPending, UNCHANGED <<offers, usable>>, reqs' \in Nat, reqs' >= reqs, mix \subseteq mix',
             Trying => Trying' \/ reqs' > 0, OutcomeComes => OutcomeComes'
      PROVE  Goal
  BY <1>0, <1>1, <1>p
<1>2. ASSUME UNCHANGED <<registered, bPending, offers, usable, reqs, mix, demux, q>>
      PROVE  Goal
  BY <1>0, <1>1, <1>2 DEF Trying, OutcomeComes
\* Nothing of it is in what the demux was at.
<1>3. ASSUME UNCHANGED <<registered, bPending, offers, usable, reqs, mix, q>>,
             demux.todo \notin {<<"offer", "req">>, <<"req">>, <<"outcome", "offer">>}
      PROVE  Goal
  <2>1. ~Trying
    BY <1>3 DEF Trying
  <2>2. OutcomeComes => OutcomeComes'
    BY <1>3 DEF OutcomeComes
  <2>3. registered /\ bPending
    BY <1>3
  <2>4. reqs' \in Nat /\ reqs' >= reqs /\ mix \subseteq mix'
    BY <1>0, <1>3
  <2> QED
    BY <1>1, <1>3, <2>1, <2>2, <2>3, <2>4
<1>4. CASE Take
  <2>1. /\ demux.todo = <<>> /\ q # <<>> /\ q' = Tail(q) /\ demux'.todo = StepsOf(Head(q).t)
        /\ UNCHANGED <<registered, bPending, offers, usable, reqs, mix>>
    BY <1>4 DEF Take, flags, ircd
  <2>2. \A T : Has(q, T) <=> (Head(q).t \in T \/ Has(q', T))
    BY <1>0, <2>1, HasTail
  <2>3. ~Trying
    BY <2>1 DEF Trying
  <2>4. Head(q).t \in {"903", "904"} => StepsOf(Head(q).t) = <<"outcome", "offer">>
    BY <2>1 DEF StepsOf
  <2>5. OutcomeComes => OutcomeComes'
    BY <2>1, <2>2, <2>4 DEF OutcomeComes
  <2> QED
    BY <1>0, <1>1, <2>1, <2>3, <2>5
<1>5. CASE Done
  <2>1. demux.todo = <<>> /\ UNCHANGED <<registered, bPending, offers, usable, reqs, mix, q>>
    BY <1>5 DEF Done, flags, ircd
  <2>2. demux.todo \notin {<<"offer", "req">>, <<"req">>, <<"outcome", "offer">>}
    BY <2>1
  <2> QED
    BY <1>3, <2>1, <2>2
<1>6. CASE Note \/ AckCaps \/ Waiters
  <2>1. At("note") \/ At("caps") \/ At("ackwaiters") \/ At("delwaiters") \/ At("waiters")
    BY <1>6 DEF Note, AckCaps, Waiters
  <2>2. UNCHANGED <<registered, bPending, offers, usable, reqs, mix, q>>
    BY <1>6 DEF Note, AckCaps, Waiters, flags, ircd
  <2>3. demux.todo \notin {<<"offer", "req">>, <<"req">>, <<"outcome", "offer">>}
    BY <2>1 DEF At
  <2> QED
    BY <1>3, <2>2, <2>3
<1>7. CASE AckOwner
  <2>1. At("owner") /\ UNCHANGED <<registered, offers, usable, reqs, mix, q>>
        /\ bPending' = (bPending \/ (own /\ ~demux.had /\ ~registered))
    BY <1>7 DEF AckOwner, ircd
  <2>2. bPending' = bPending
    BY <1>0, <2>1
  <2>3. demux.todo \notin {<<"offer", "req">>, <<"req">>, <<"outcome", "offer">>}
    BY <2>1 DEF At
  <2> QED
    BY <1>3, <2>1, <2>2, <2>3
<1>8. CASE New
  <2>1. demux.todo = <<"new", "offer", "req">> /\ demux.todo # <<>>
    BY <1>0, <1>8, AtStage DEF New, At
  <2>2. /\ bPending' = (bPending \/ (BouncerTries /\ demux.line.t = "NEW"))
        /\ demux' = [Rest EXCEPT !.had = ~(BouncerTries /\ demux.line.t = "NEW")]
        /\ UNCHANGED <<registered, offers, usable, reqs, mix, q>>
    BY <1>8 DEF New, ircd
  <2>3. CASE bPending
    <3>1. bPending' = bPending /\ demux.todo \notin {<<"offer", "req">>, <<"req">>, <<"outcome", "offer">>}
      BY <1>0, <2>1, <2>2, <2>3
    <3> QED
      BY <1>3, <2>2, <3>1
  <2>4. CASE BouncerTries /\ demux.line.t = "NEW"
    <3>1. demux'.todo = <<"offer", "req">> /\ ~demux'.had
      BY <2>1, <2>2, <2>4, RestFacts, Rests DEF Base
    <3>2. NewComes /\ GoodComes
      BY <2>1, <2>4 DEF NewComes, GoodComes
    <3>3. registered
      BY <2>2
    <3>4. offers # "none" /\ usable
      BY <3>2, <3>3, <1>n
    <3> QED
      BY <2>2, <2>4, <3>1, <3>4 DEF Trying, BouncerTries
  <2> QED
    BY <2>2, <2>3, <2>4
<1>9. CASE NewReq
  <2>1. demux.todo = <<"req">> /\ UNCHANGED <<registered, bPending, offers, usable, mix, q>>
    BY <1>0, <1>9, AtStage DEF NewReq, flags, ircd
  <2>2. reqs' = IF demux.had \/ upCap THEN reqs ELSE reqs + 1
    BY <1>9 DEF NewReq
  <2>3. Trying => reqs' = reqs + 1
    BY <2>2 DEF Trying, Tries
  <2>4. reqs' \in Nat /\ reqs' >= reqs
    BY <1>0, <2>2
  <2>5. Trying => reqs' > 0
    BY <1>0, <2>3
  <2>6. OutcomeComes => OutcomeComes'
    BY <2>1 DEF OutcomeComes
  <2> QED
    BY <1>0, <1>1, <2>1, <2>4, <2>5, <2>6
<1>10. CASE Del \/ completeRegistration \/ HandleDisconnect
  BY <1>10 DEF Del, completeRegistration, HandleDisconnect
<1>11. CASE Offer
  <2>1. /\ demux.todo \in {<<"offer", "ackwaiters">>, <<"offer", "req">>, <<"offer", "delwaiters">>, <<"offer">>}
        /\ demux.todo # <<>>
    BY <1>0, <1>11, AtStage DEF Offer, At
  <2>2. demux'.had = demux.had /\ demux'.todo = Tail(demux.todo)
        /\ UNCHANGED <<registered, bPending, offers, usable, reqs, mix, q>>
    BY <1>11, <2>1, RestFacts DEF Offer, Base, ircd
  <2>3. CASE demux.todo = <<"offer", "req">>
    <3>1. demux'.todo = <<"req">>
      BY <2>2, <2>3, Rests
    <3>2. Trying => Trying'
      BY <2>2, <3>1 DEF Trying
    <3>3. OutcomeComes => OutcomeComes'
      BY <2>2, <2>3 DEF OutcomeComes
    <3> QED
      BY <1>0, <1>1, <2>2, <3>2, <3>3
  <2>4. CASE demux.todo # <<"offer", "req">>
    <3>1. demux.todo \notin {<<"offer", "req">>, <<"req">>, <<"outcome", "offer">>}
      BY <2>1, <2>4
    <3> QED
      BY <1>3, <2>2, <3>1
  <2> QED
    BY <2>3, <2>4
<1>12. CASE Account
  <2>1. At("account") /\ UNCHANGED <<registered, offers, usable, reqs, mix, q>>
    BY <1>12 DEF Account, ircd
  <2>2. bPending' = bPending
    <3>1. registered
      BY <2>1
    <3> QED
      BY <1>12, <3>1, Zenon DEF Account
  <2>3. demux.todo \notin {<<"offer", "req">>, <<"req">>, <<"outcome", "offer">>}
    BY <2>1 DEF At
  <2> QED
    BY <1>3, <2>1, <2>2, <2>3
<1>13. CASE Outcome
  <2>1. demux.todo = <<"outcome", "offer">>
    BY <1>0, <1>13, AtStage DEF Outcome
  <2>2. demux.line.t \in {"903", "904"}
    BY <2>1, StageLine DEF Base
  <2>3. registered
    BY <1>13 DEF Outcome
  <2>4. (own /\ bPending /\ bPending' = PendingAfter(demux.line.t)) \/ (~(own /\ bPending) /\ bPending' = bPending)
    BY <1>13 DEF Outcome
  <2>5. PendingAfter(demux.line.t) = FALSE
    BY <2>2 DEF PendingAfter
  <2>6. ~own /\ bPending
    BY <2>4, <2>5
  <2> QED
    BY <2>3, <2>6, <1>p
<1>14. ASSUME NEW c \in Clients, Attach(c) \/ notifyAttachCaps(c) \/ SendNew(c) \/ RequestClientSASL(c)
                 \/ forwardClientAuthenticate(c) \/ Detach(c)
       PROVE  Goal
  BY <1>2, <1>14 DEF Attach, notifyAttachCaps, SendNew, RequestClientSASL, forwardClientAuthenticate, Detach, flags, ircd
<1>15. ASSUME NEW c \in Clients, WaitForAck(c) PROVE Goal
  <2>1. UNCHANGED <<registered, bPending, offers, usable, mix, demux, q>> /\ (reqs' = reqs \/ reqs' = reqs + 1)
    BY <1>15 DEF WaitForAck, flags, ircd
  <2>2. (Trying => Trying') /\ (OutcomeComes => OutcomeComes') /\ reqs' \in Nat /\ reqs' >= reqs
    BY <1>0, <2>1 DEF Trying, OutcomeComes
  <2> QED
    BY <1>1, <2>1, <2>2
<1>16. ASSUME NEW c \in Clients, Authenticate(c) PROVE Goal
  <2>1. UNCHANGED <<registered, bPending, offers, usable, reqs, demux, q>> /\ (mix' = mix \cup {c} \/ mix' = mix)
    BY <1>16 DEF Authenticate, flags
  <2>2. (Trying => Trying') /\ (OutcomeComes => OutcomeComes') /\ mix \subseteq mix'
    BY <2>1 DEF Trying, OutcomeComes
  <2> QED
    BY <1>0, <1>1, <2>1, <2>2
<1>17. CASE Connect
  <2>1. offers = "off" /\ registered
    BY <1>17 DEF Connect, flags
  <2> QED
    BY <2>1 DEF Base, Alone
<1>18. CASE AnswerReq
  <2>1. PICK t \in {"ACK", "NAK"} : /\ Adds(<<Line(t)>>)
                                    /\ t = "ACK" => offers' = "granted" /\ StepPost(<<Line("ACK")>>)
                                    /\ t = "NAK" => /\ offers = "none" \/ "nak" \in met'
                                                    /\ UNCHANGED <<driving, mix, offers>>
    BY <1>18, AnswerSaid DEF Base
  <2>2. UNCHANGED <<registered, bPending, usable, demux>>
    BY <1>18 DEF AnswerReq, flags
  <2>3. OutcomeComes => OutcomeComes'
    BY <2>1, <2>2 DEF OutcomeComes, Adds
  <2>4. own /\ ((offers # "none" /\ usable) \/ Bouncer \in mix \/ OutcomeComes)
    BY <2>2, <1>p
  <2>5. CASE t = "NAK"
    BY <2>1, <2>3, <2>4, <2>5
  <2>6. CASE t = "ACK"
    <3>1. mix' = (IF own /\ able /\ usable /\ ~driving THEN mix \cup {Bouncer} ELSE mix)
      BY <2>1, <2>6 DEF StepPost
    <3> QED
      BY <2>3, <2>4, <3>1, <1>d
  <2> QED
    BY <2>1, <2>5, <2>6
<1>19. CASE EndExchange
  <2>1. UNCHANGED <<registered, bPending, offers, usable, reqs, demux>>
    BY <1>19 DEF EndExchange, flags
  <2>2. Has(q', {"903", "904"})
    BY ZenonT(60), <1>19, EndSaid DEF Base, Adds
  <2>3. own
    BY <2>1, <1>p
  <2> QED
    BY <2>2, <2>3 DEF OutcomeComes
<1>20. CASE Services
  <2>0. UNCHANGED <<registered, bPending, reqs, demux>>
    BY <1>20 DEF Services, flags
  <2>1. CASE offers = "none" /\ UNCHANGED mix /\ \E t \in {"NEW", "NEWx"} : Adds(<<Line(t)>>)
    <3>1. own /\ (Bouncer \in mix \/ OutcomeComes)
      BY <2>0, <2>1, <1>p
    <3>2. OutcomeComes => OutcomeComes'
      BY <2>0, <2>1 DEF OutcomeComes, Adds
    <3> QED
      BY <2>1, <3>1, <3>2
  <2>2. CASE mix = {} /\ Quiet
    <3>1. demux.todo = <<>> /\ reqs = 0 /\ \A T : ~Has(q, T)
      BY <2>2, HasNone DEF Quiet, Base, Alone
    <3>2. ~Trying /\ ~OutcomeComes
      BY <3>1 DEF Trying, OutcomeComes
    <3> QED
      BY <2>0, <2>2, <3>1, <3>2, <1>p
  <2> QED
    BY <1>20, <2>1, <2>2, ServicesSaid DEF Base
<1>21. CASE UNCHANGED vars
  BY <1>2, <1>21 DEF vars, flags, ircd
<1> QED
  BY <1>4, <1>5, <1>6, <1>7, <1>8, <1>9, <1>10, <1>11, <1>12, <1>13, <1>14, <1>15, <1>16, <1>17, <1>18, <1>19, <1>20,
     <1>21 DEF Next

\* sasl is held back for a login of the bouncer only while there is one: every way into
\* bouncerSASLPending (AckOwner, New) is followed by a REQ, an exchange and an outcome,
\* if the driver can log in at all (able), and unless the ircd refuses the REQ or
\* withdraws sasl under the login.
THEOREM HeldBackForALogin == Spec => []HeldBackForReason
<1>1. Init => Driven /\ Came /\ Tries /\ Pends
  <2> SUFFICES ASSUME Init PROVE Driven /\ Came /\ Tries /\ Pends
    OBVIOUS
  <2>1. demux = [line |-> Line(""), todo |-> <<>>, had |-> FALSE]
    BY Zenon DEF Init
  <2>2. ~driving /\ mix = {} /\ ~registered
    BY DEF Init
  <2>3. demux.todo = <<>>
    BY <2>1
  <2> QED
    BY <2>2, <2>3 DEF Driven, Came, Tries, Pends, Trying
<1>2. Base /\ Pends => HeldBackForReason
  <2> SUFFICES ASSUME Base, Pends, able, met \cap {"nak", "del"} = {}, Quiet, registered, bPending
               PROVE  Bouncer \in mix
    BY DEF HeldBackForReason, PendingIsReal
  <2>1. ~Has(q, {"903", "904"}) /\ reqs = 0 /\ demux.todo = <<>>
    BY HasNone DEF Quiet, Base, Alone
  <2> QED
    BY <2>1 DEF Pends, Trying, OutcomeComes
<1>3. Base /\ Driven /\ [Next]_vars => Driven'
  BY DrivenStep
<1>4. Base /\ Came /\ [Next]_vars => Came'
  BY CameStep
<1>5. Base /\ Tries /\ [Next]_vars => Tries'
  BY TriesStep
<1>6. Base /\ Driven /\ Came /\ Tries /\ Pends /\ [Next]_vars => Pends'
  BY PendsStep
<1> QED
  BY <1>1, <1>2, <1>3, <1>4, <1>5, <1>6, BaseHolds, PTL DEF Spec

-----------------------------------------------------------------------------
(* Whose exchange it is.                                                   *)

\* In the queue s, nothing of the types A comes after something of the types B.
Ordered(s, A, B) == \A i, j \in 1 .. Len(s) : s[i].t \in A /\ s[j].t \in B => i <= j

\* Everything of the types B has something of the types A before it.
Led(s, A, B) == \A j \in 1 .. Len(s) : s[j].t \in B => \E i \in 1 .. j - 1 : s[i].t \in A

\* Everything of the types A is x's.
Of(s, A, x) == \A i \in 1 .. Len(s) : s[i].t \in A => s[i].of = x

\* Only the last line ends a registration.
Closed(s) == \A i \in 1 .. Len(s) : s[i].t = "376" <=> i = Len(s)

Outcomes == {"903", "904"}
Coming == {"NEW", "NEWx"}

\* Lines that say something of sasl, other than that it comes or goes.
Busy == {"LS", "LSx", "ACK", "900", "903", "904"}

\* The registration is followed from its first line to 376, which is the last; what was
\* heard of sasl before it is forgotten with the connection.
Begins ==
  /\ registered => /\ ~Has(q, {"LS", "LSx", "376"})
                   /\ demux.todo \notin {<<"note">>, <<"complete", "offer">>}
  /\ ~registered =>
       /\ Closed(q) /\ ~offer
       /\ demux.line.t # "" => (q = <<>> <=> demux.line.t = "376")
       /\ demux.line.t = "376" => demux.todo = <<"complete", "offer">>
       /\ bPending \/ demux.todo = <<"owner">> => upCap
       /\ demux.line.t = "" /\ q = <<>> => ~upCap /\ ~bPending /\ ~bFailed /\ ~loggedIn /\ ~avail
       /\ offers = "none" /\ (demux.line.t # "" \/ q # <<>>) =>
            ~upCap /\ ~loggedIn /\ ~avail /\ ~Has(q, Busy) /\ demux.line.t \notin Busy

Fair == met \cap {"del", "leave", "race", "late", "lost"} = {}

\* sasl was withdrawn, or offered again and the CAP NEW not handled yet.
DelComes == Has(q, {"DEL"}) \/ demux.todo = <<"del", "offer", "delwaiters">>
LogoutComes == Has(q, {"901"}) \/ (demux.todo = <<"account">> /\ demux.line.t = "901")
Unsettled == offers = "none" \/ NewComes

\* Nobody asks for sasl or uses it.
Clean == /\ mix = {} /\ reqs = 0 /\ saslClient = "none"
         /\ \A c \in Clients : job[c] \notin {"write", "wait"}
         /\ ~Has(q, Busy) /\ demux.line.t \notin Busy

\* The lines of a withdrawal and of a new offer come in the order they were said.
Announced ==
  /\ DelComes => Unsettled
  /\ LogoutComes => DelComes
  /\ Trying => ~Unsettled
  /\ demux.todo = <<"new", "offer", "req">> => ~Has(q, {"901", "DEL"} \cup Coming)
  /\ demux.todo = <<"del", "offer", "delwaiters">> => ~Has(q, {"901"})
  /\ Ordered(q, {"901", "DEL"} \cup Coming, Coming) /\ Ordered(q, {"901"}, {"DEL"})
  /\ Has(q, {"NEWx"}) \/ (demux.todo = <<"new", "offer", "req">> /\ demux.line.t = "NEWx") => ~usable

\* Nobody asks for sasl or uses it, and what the session knows of it goes with the lines
\* to come.
Bare ==
  /\ Clean
  /\ upCap \/ bPending \/ avail => DelComes
  /\ loggedIn => LogoutComes
  /\ offer => DelComes \/ demux.todo = <<"offer", "delwaiters">>

\* They come to a session where that is so.
Forgotten == registered /\ Unsettled => Bare

\* While the bouncer can use sasl, it has failed only once sasl was granted; so clients,
\* who may use it only then, do not ask for it.
AtCaps == demux.todo \in {<<"caps", "owner">>, <<"caps", "owner", "offer", "ackwaiters">>}
GrantedFirst ==
  /\ \A c \in Clients : job[c] # "wait"
  /\ saslClient # "none" => upCap
  /\ bFailed /\ (registered => ~Unsettled) => upCap
  /\ offer /\ ~upCap => DelComes \/ demux.todo = <<"offer", "delwaiters">>
  /\ upCap \/ AtCaps \/ Led(q, {"ACK"}, {"904"})
  /\ demux.line.t = "904" /\ demux.todo \in {<<"account">>, <<"outcome", "offer">>} => upCap
  /\ Bouncer \in mix => upCap \/ AtCaps \/ Has(q, {"ACK"})
Granted == own /\ usable => GrantedFirst

\* Who may have an exchange with the ircd.
Holder == IF saslClient = "none" THEN Bouncer ELSE saslClient

\* The bouncer asks for sasl, uses it or has yet to hear how that went.
BouncerActs ==
  \/ Trying \/ (own /\ usable /\ reqs > 0) \/ Bouncer \in mix
  \/ registered /\ OutcomeComes /\ saslClient = "none"

Held ==
  /\ BouncerActs => own /\ usable /\ ~bFailed /\ saslClient = "none"
  /\ Trying => reqs = 0 /\ mix = {} /\ ~OutcomeComes
  /\ own /\ usable /\ reqs > 0 => reqs = 1 /\ mix = {} /\ ~OutcomeComes
  /\ mix \subseteq {Holder}
  /\ \A c \in Clients : job[c] = "write" => saslClient = c
  /\ saslClient # "none" => saslClient \in downlinks
  /\ registered /\ OutcomeComes => mix = {} /\ \A c \in Clients : job[c] # "write"
  /\ registered => /\ Ordered(q, Outcomes, Outcomes) /\ Of(q, Outcomes, {Holder})
                   /\ demux.todo = <<"outcome", "offer">> =>
                        ~Has(q, Outcomes) /\ demux.line.of = {Holder}

LEMMA OrderTail ==
  ASSUME NEW s \in Seq(Lines), s # <<>>, NEW A, NEW B
  PROVE  /\ Ordered(s, A, B) => Ordered(Tail(s), A, B) /\ (Head(s).t \in B => ~Has(Tail(s), A))
         /\ Led(s, A, B) => Head(s).t \notin B /\ (Head(s).t \notin A => Led(Tail(s), A, B))
<1>1. /\ Head(s) = s[1] /\ Len(s) \in Nat /\ Len(s) > 0 /\ Len(Tail(s)) = Len(s) - 1
      /\ \A i \in 1 .. Len(s) - 1 : Tail(s)[i] = s[i + 1]
  OBVIOUS
<1>2. \A i \in 1 .. Len(s) - 1 : i + 1 \in 1 .. Len(s)
  BY <1>1
<1>3. ASSUME Ordered(s, A, B) PROVE Ordered(Tail(s), A, B)
  <2> SUFFICES ASSUME NEW i \in 1 .. Len(s) - 1, NEW j \in 1 .. Len(s) - 1, Tail(s)[i].t \in A, Tail(s)[j].t \in B
               PROVE  i <= j
    BY <1>1 DEF Ordered
  <2>1. s[i + 1].t \in A /\ s[j + 1].t \in B
    BY <1>1
  <2>2. i + 1 <= j + 1
    BY <1>2, <1>3, <2>1 DEF Ordered
  <2> QED
    BY <1>1, <2>2
<1>4. ASSUME Ordered(s, A, B), Head(s).t \in B PROVE ~Has(Tail(s), A)
  <2> SUFFICES ASSUME NEW i \in 1 .. Len(s) - 1, Tail(s)[i].t \in A PROVE FALSE
    BY <1>1 DEF Has
  <2>1. s[i + 1].t \in A /\ s[1].t \in B /\ 1 \in 1 .. Len(s)
    BY <1>1, <1>4
  <2>2. i + 1 <= 1
    BY <1>2, <1>4, <2>1 DEF Ordered
  <2> QED
    BY <1>1, <2>2
<1>5. ASSUME Led(s, A, B) PROVE Head(s).t \notin B
  <2> SUFFICES ASSUME Head(s).t \in B PROVE FALSE
    OBVIOUS
  <2>1. 1 \in 1 .. Len(s) /\ s[1].t \in B
    BY <1>1
  <2>2. \E i \in 1 .. 1 - 1 : s[i].t \in A
    BY <1>5, <2>1 DEF Led
  <2> QED
    BY <2>2
<1>6. ASSUME Led(s, A, B), Head(s).t \notin A PROVE Led(Tail(s), A, B)
  <2> SUFFICES ASSUME NEW j \in 1 .. Len(s) - 1, Tail(s)[j].t \in B
               PROVE  \E i \in 1 .. j - 1 : Tail(s)[i].t \in A
    BY <1>1 DEF Led
  <2>1. j + 1 \in 1 .. Len(s) /\ s[j + 1].t \in B
    BY <1>1, <1>2
  <2>2. PICK k \in 1 .. (j + 1) - 1 : s[k].t \in A
    BY <1>6, <2>1 DEF Led
  <2>3. k # 1
    BY <1>1, <1>6, <2>2
  <2>4. k - 1 \in 1 .. j - 1 /\ k - 1 \in 1 .. Len(s) - 1 /\ (k - 1) + 1 = k
    BY <1>1, <2>2, <2>3
  <2>5. Tail(s)[k - 1].t \in A
    BY <1>1, <2>2, <2>4
  <2> QED
    BY <2>4, <2>5
<1> QED
  BY <1>3, <1>4, <1>5, <1>6

LEMMA OrderJoin ==
  ASSUME NEW s \in Seq(Lines), NEW u \in Seq(Lines), NEW A, NEW B
  PROVE  /\ Ordered(s, A, B) /\ Ordered(u, A, B) /\ ~(Has(s, B) /\ Has(u, A)) => Ordered(s \o u, A, B)
         /\ Led(s, A, B) /\ (Has(s, A) \/ ~Has(u, B)) => Led(s \o u, A, B)
<1>1. /\ s \o u \in Seq(Lines) /\ Len(s \o u) = Len(s) + Len(u) /\ Len(s) \in Nat /\ Len(u) \in Nat
      /\ \A i \in 1 .. Len(s) : (s \o u)[i] = s[i]
      /\ \A i \in 1 .. Len(u) : (s \o u)[Len(s) + i] = u[i]
  OBVIOUS
<1>2. \A k \in 1 .. Len(s \o u) : \/ k \in 1 .. Len(s) /\ (s \o u)[k] = s[k]
                                  \/ /\ k > Len(s) /\ k - Len(s) \in 1 .. Len(u)
                                     /\ (s \o u)[k] = u[k - Len(s)]
  <2> SUFFICES ASSUME NEW k \in 1 .. Len(s \o u), k \notin 1 .. Len(s)
               PROVE  k > Len(s) /\ k - Len(s) \in 1 .. Len(u) /\ (s \o u)[k] = u[k - Len(s)]
    BY <1>1
  <2>1. k > Len(s) /\ k - Len(s) \in 1 .. Len(u) /\ Len(s) + (k - Len(s)) = k
    BY <1>1
  <2> QED
    BY <1>1, <2>1
<1>3. ASSUME Ordered(s, A, B), Ordered(u, A, B), ~(Has(s, B) /\ Has(u, A)) PROVE Ordered(s \o u, A, B)
  <2> SUFFICES ASSUME NEW i \in 1 .. Len(s \o u), NEW j \in 1 .. Len(s \o u), (s \o u)[i].t \in A, (s \o u)[j].t \in B
               PROVE  i <= j
    BY DEF Ordered
  <2>1. CASE i \in 1 .. Len(s) /\ (s \o u)[i] = s[i]
    <3>1. CASE j \in 1 .. Len(s) /\ (s \o u)[j] = s[j]
      BY <1>3, <2>1, <3>1 DEF Ordered
    <3>2. CASE j > Len(s)
      BY <1>1, <2>1, <3>2
    <3> QED
      BY <1>2, <3>1, <3>2
  <2>2. CASE i > Len(s) /\ i - Len(s) \in 1 .. Len(u) /\ (s \o u)[i] = u[i - Len(s)]
    <3>1. CASE j \in 1 .. Len(s) /\ (s \o u)[j] = s[j]
      BY <1>3, <2>2, <3>1 DEF Has
    <3>2. CASE j > Len(s) /\ j - Len(s) \in 1 .. Len(u) /\ (s \o u)[j] = u[j - Len(s)]
      <4>1. i - Len(s) <= j - Len(s)
        BY <1>3, <2>2, <3>2 DEF Ordered
      <4> QED
        BY <1>1, <4>1
    <3> QED
      BY <1>2, <3>1, <3>2
  <2> QED
    BY <1>2, <2>1, <2>2
<1>4. ASSUME Led(s, A, B), Has(s, A) \/ ~Has(u, B) PROVE Led(s \o u, A, B)
  <2> SUFFICES ASSUME NEW j \in 1 .. Len(s \o u), (s \o u)[j].t \in B
               PROVE  \E i \in 1 .. j - 1 : (s \o u)[i].t \in A
    BY DEF Led
  <2>1. CASE j \in 1 .. Len(s) /\ (s \o u)[j] = s[j]
    <3>1. PICK i \in 1 .. j - 1 : s[i].t \in A
      BY <1>4, <2>1 DEF Led
    <3>2. i \in 1 .. Len(s)
      BY <1>1, <2>1
    <3> QED
      BY <1>1, <3>1, <3>2
  <2>2. CASE j > Len(s) /\ j - Len(s) \in 1 .. Len(u) /\ (s \o u)[j] = u[j - Len(s)]
    <3>1. Has(u, B)
      BY <2>2 DEF Has
    <3>2. PICK i \in 1 .. Len(s) : s[i].t \in A
      BY <1>4, <3>1 DEF Has
    <3>3. i \in 1 .. j - 1
      BY <1>1, <2>2
    <3> QED
      BY <1>1, <3>2, <3>3
  <2> QED
    BY <1>2, <2>1, <2>2
<1> QED
  BY <1>3, <1>4

LEMMA OfTail ==
  ASSUME NEW s \in Seq(Lines), s # <<>>, NEW A, NEW x, Of(s, A, x)
  PROVE  (Head(s).t \in A => Head(s).of = x) /\ Of(Tail(s), A, x)
<1>1. /\ Head(s) = s[1] /\ Len(s) \in Nat /\ Len(s) > 0 /\ Len(Tail(s)) = Len(s) - 1
      /\ \A i \in 1 .. Len(s) - 1 : Tail(s)[i] = s[i + 1] /\ i + 1 \in 1 .. Len(s)
  OBVIOUS
<1> QED
  BY <1>1 DEF Of

LEMMA OfJoin ==
  ASSUME NEW s \in Seq(Lines), NEW u \in Seq(Lines), NEW A, NEW x, Of(s, A, x), Of(u, A, x)
  PROVE  Of(s \o u, A, x)
<1>1. /\ s \o u \in Seq(Lines) /\ Len(s \o u) = Len(s) + Len(u) /\ Len(s) \in Nat /\ Len(u) \in Nat
      /\ \A i \in 1 .. Len(s) : (s \o u)[i] = s[i]
      /\ \A i \in 1 .. Len(u) : (s \o u)[Len(s) + i] = u[i]
  OBVIOUS
<1> SUFFICES ASSUME NEW k \in 1 .. Len(s \o u), (s \o u)[k].t \in A PROVE (s \o u)[k].of = x
  BY DEF Of
<1>2. CASE k \in 1 .. Len(s)
  BY <1>1, <1>2 DEF Of
<1>3. CASE k \notin 1 .. Len(s)
  <2>1. k - Len(s) \in 1 .. Len(u) /\ Len(s) + (k - Len(s)) = k
    BY <1>1, <1>3
  <2>2. (s \o u)[k] = u[k - Len(s)]
    BY <1>1, <2>1
  <2> QED
    BY <2>1, <2>2 DEF Of
<1> QED
  BY <1>2, <1>3

LEMMA HasNoneOf == \A s, A, B, x : ~Has(s, A) => Of(s, A, x) /\ Ordered(s, A, B) /\ Led(s, B, A)
BY DEF Has, Of, Ordered, Led

LEMMA Smaller == \A s, A, B : A \subseteq B /\ ~Has(s, B) => ~Has(s, A)
BY DEF Has

LEMMA EmptyQueue == \A s \in Seq(Lines) : s = <<>> <=> Len(s) = 0
OBVIOUS

LEMMA ClosedTail ==
  ASSUME NEW s \in Seq(Lines), s # <<>>, Closed(s)
  PROVE  Closed(Tail(s)) /\ (Head(s).t = "376" <=> Tail(s) = <<>>)
<1>1. /\ Head(s) = s[1] /\ Len(s) \in Nat /\ Len(s) > 0 /\ Len(Tail(s)) = Len(s) - 1
      /\ \A i \in 1 .. Len(s) - 1 : Tail(s)[i] = s[i + 1]
      /\ Tail(s) \in Seq(Lines)
  OBVIOUS
<1>2. Tail(s) = <<>> <=> Len(s) = 1
  BY <1>1, EmptyQueue
<1>3. \A i \in 1 .. Len(s) - 1 : i + 1 \in 1 .. Len(s) /\ (i + 1 = Len(s) <=> i = Len(s) - 1)
  BY <1>1
<1>4. Closed(Tail(s))
  <2> SUFFICES ASSUME NEW i \in 1 .. Len(s) - 1 PROVE Tail(s)[i].t = "376" <=> i = Len(s) - 1
    BY <1>1 DEF Closed
  <2>1. i + 1 \in 1 .. Len(s) /\ (i + 1 = Len(s) <=> i = Len(s) - 1) /\ Tail(s)[i] = s[i + 1]
    BY <1>1, <1>3
  <2>2. s[i + 1].t = "376" <=> i + 1 = Len(s)
    BY <2>1 DEF Closed
  <2> QED
    BY <2>1, <2>2
<1>5. s[1].t = "376" <=> 1 = Len(s)
  <2>1. 1 \in 1 .. Len(s)
    BY <1>1
  <2> QED
    BY <2>1, Zenon DEF Closed
<1> QED
  BY <1>1, <1>2, <1>4, <1>5

LEMMA HelloClosed ==
  ASSUME NEW s \in Registration
  PROVE  LET u == [i \in 1 .. Len(s) |-> Line(s[i])]
         IN  /\ Closed(u) /\ u # <<>> /\ Led(u, {"ACK"}, {"904"})
             /\ Len(s) = 1 => ~Has(u, Busy)
<1> DEFINE u == [i \in 1 .. Len(s) |-> Line(s[i])]
<1>0. s \in {<<"376">>, <<"LS", "376">>, <<"LS", "ACK", "900", "903", "376">>, <<"LS", "ACK", "904", "376">>,
            <<"LSx", "ACK", "376">>, <<"LS", "ACK", "376">>}
  BY Zenon DEF Registration
<1>1. Len(s) \in Nat /\ Len(s) > 0 /\ \A i \in 1 .. Len(s) : s[i] = "376" <=> i = Len(s)
  <2>1. CASE s = <<"376">>
    BY <2>1
  <2>2. CASE s = <<"LS", "376">>
    BY <2>2
  <2>3. CASE s = <<"LS", "ACK", "900", "903", "376">>
    BY <2>3
  <2>4. CASE s = <<"LS", "ACK", "904", "376">>
    BY <2>4
  <2>5. CASE s = <<"LSx", "ACK", "376">>
    BY <2>5
  <2>6. CASE s = <<"LS", "ACK", "376">>
    BY <2>6
  <2> QED
    BY <1>0, <2>1, <2>2, <2>3, <2>4, <2>5, <2>6
<1>2. Len(u) = Len(s) /\ \A i \in 1 .. Len(s) : u[i].t = s[i]
  BY <1>1 DEF Line
<1> HIDE DEF u
<1>3. Closed(u)
  BY <1>1, <1>2 DEF Closed
<1>4. u # <<>>
  <2>1. Len(<<>>) = 0
    OBVIOUS
  <2> QED
    BY <1>1, <1>2, <2>1
<1>5. ASSUME NEW j \in 1 .. Len(s), s[j] = "904" PROVE 2 \in 1 .. j - 1 /\ s[2] = "ACK"
  <2>1. CASE s = <<"LS", "ACK", "904", "376">>
    BY <1>5, <2>1
  <2>2. CASE s # <<"LS", "ACK", "904", "376">>
    <3>1. \A i \in 1 .. Len(s) : s[i] # "904"
      <4>1. CASE s = <<"376">> \/ s = <<"LS", "376">>
        BY <4>1
      <4>2. CASE s = <<"LSx", "ACK", "376">> \/ s = <<"LS", "ACK", "376">>
        BY <4>2
      <4>3. CASE s = <<"LS", "ACK", "900", "903", "376">>
        BY <4>3
      <4> QED
        BY <1>0, <2>2, <4>1, <4>2, <4>3
    <3> QED
      BY <1>5, <3>1
  <2> QED
    BY <2>1, <2>2
<1>6. Led(u, {"ACK"}, {"904"})
  <2> SUFFICES ASSUME NEW j \in 1 .. Len(u), u[j].t = "904" PROVE \E i \in 1 .. j - 1 : u[i].t = "ACK"
    BY DEF Led
  <2>1. 2 \in 1 .. j - 1 /\ s[2] = "ACK"
    BY <1>2, <1>5
  <2>2. 2 \in 1 .. Len(s)
    BY <1>1, <1>2, <2>1
  <2> QED
    BY <1>2, <2>1, <2>2
<1>7. ASSUME Len(s) = 1 PROVE ~Has(u, Busy)
  <2>1. \A i \in 1 .. Len(s) : s[i] = "376"
    BY <1>1, <1>7
  <2> QED
    BY <1>2, <2>1 DEF Has, Busy
<1> QED
  BY <1>3, <1>4, <1>6, <1>7 DEF u

-----------------------------------------------------------------------------
(* What the demux is at in each step, and what it has left after it.       *)

LEMMA TakeMoves ==
  ASSUME Base, Take
  PROVE  /\ demux.line.t = "" /\ demux.todo = <<>> /\ q # <<>> /\ q' = Tail(q) /\ Head(q) \in Lines
         /\ demux'.line = Head(q) /\ demux'.todo = StepsOf(Head(q).t) /\ ~demux'.had
         /\ \A T : Has(q, T) <=> (Head(q).t \in T \/ Has(q', T))
<1>1. q # <<>> /\ q' = Tail(q) /\ demux.todo = <<>>
  BY DEF Take
<1>2. demux = [line |-> Line(""), todo |-> <<>>, had |-> FALSE]
  BY Zenon DEF Take
<1>3. demux.line.t = ""
  BY <1>2 DEF Line
<1>4. demux' = [line |-> Head(q), todo |-> StepsOf(Head(q).t), had |-> FALSE]
  BY Zenon DEF Take
<1>5. Head(q) \in Lines /\ \A T : Has(q, T) <=> (Head(q).t \in T \/ Has(q', T))
  BY <1>1, HasTail DEF Base, TypeOK
<1> QED
  BY <1>1, <1>3, <1>4, <1>5

LEMMA DoneMoves ==
  ASSUME Base, Done
  PROVE  demux.line.t # "" /\ demux.todo = <<>> /\ demux'.line.t = "" /\ demux'.todo = <<>>
<1>1. demux.line.t # "" /\ demux.todo = <<>> /\ demux' = [line |-> Line(""), todo |-> <<>>, had |-> FALSE]
  BY Zenon DEF Done
<1>2. demux'.line = Line("") /\ demux'.todo = <<>>
  BY <1>1
<1> QED
  BY <1>1, <1>2 DEF Line

LEMMA NoteMoves ==
  ASSUME Base, Note
  PROVE  /\ demux.todo = <<"note">> /\ demux'.todo = <<>> /\ demux'.line = demux.line
         /\ demux.line.t \in {"LS", "LSx"}
<1>1. demux.todo = <<"note">> /\ demux.todo # <<>>
  BY AtStage DEF Note, At, Base, TypeOK
<1>2. demux' = Rest
  BY DEF Note
<1>3. demux'.line = demux.line /\ demux'.todo = Tail(demux.todo)
  BY <1>1, <1>2, RestFacts DEF Base, TypeOK
<1>4. demux.line.t \in {"LS", "LSx"}
  BY <1>1, StageLine DEF Base
<1> QED
  BY <1>1, <1>3, <1>4, Rests

LEMMA CapsMoves ==
  ASSUME Base, AckCaps
  PROVE  /\ \/ demux.todo = <<"caps", "owner">> /\ demux'.todo = <<"owner">> /\ ~registered
            \/ /\ demux.todo = <<"caps", "owner", "offer", "ackwaiters">>
               /\ demux'.todo = <<"owner", "offer", "ackwaiters">> /\ registered
         /\ demux'.line = demux.line /\ demux.line.t = "ACK" /\ demux'.had = upCap
<1>1. demux.todo \in {<<"caps", "owner">>, <<"caps", "owner", "offer", "ackwaiters">>} /\ demux.todo # <<>>
  BY AtStage DEF AckCaps, At, Base, TypeOK
<1>2. demux'.line = demux.line /\ demux'.todo = Tail(demux.todo) /\ demux'.had = upCap
  BY <1>1, RestFacts DEF AckCaps, Base, TypeOK
<1>3. /\ demux.line.t = "ACK"
      /\ demux.todo = <<"caps", "owner">> => ~registered
      /\ demux.todo = <<"caps", "owner", "offer", "ackwaiters">> => registered
  BY <1>1, StageLine DEF Base
<1> QED
  BY <1>1, <1>2, <1>3, Rests

LEMMA OwnerMoves ==
  ASSUME Base, AckOwner
  PROVE  /\ \/ demux.todo = <<"owner">> /\ demux'.todo = <<>> /\ ~registered
            \/ /\ demux.todo = <<"owner", "offer", "ackwaiters">>
               /\ demux'.todo = <<"offer", "ackwaiters">> /\ registered
         /\ demux'.line = demux.line /\ demux.line.t = "ACK" /\ demux'.had = demux.had
<1>1. demux.todo \in {<<"owner">>, <<"owner", "offer", "ackwaiters">>} /\ demux.todo # <<>>
  BY AtStage DEF AckOwner, At, Base, TypeOK
<1>2. demux'.line = demux.line /\ demux'.todo = Tail(demux.todo) /\ demux'.had = demux.had
  BY <1>1, RestFacts DEF AckOwner, Base
<1>3. /\ demux.line.t = "ACK"
      /\ demux.todo = <<"owner">> => ~registered
      /\ demux.todo = <<"owner", "offer", "ackwaiters">> => registered
  BY <1>1, StageLine DEF Base
<1> QED
  BY <1>1, <1>2, <1>3, Rests

LEMMA OfferMoves ==
  ASSUME Base, Offer
  PROVE  /\ \/ demux.todo = <<"offer", "ackwaiters">> /\ demux'.todo = <<"ackwaiters">>
            \/ demux.todo = <<"offer", "req">> /\ demux'.todo = <<"req">>
            \/ demux.todo = <<"offer", "delwaiters">> /\ demux'.todo = <<"delwaiters">>
            \/ demux.todo = <<"offer">> /\ demux'.todo = <<>>
         /\ demux'.line = demux.line /\ demux'.had = demux.had /\ registered
<1>1. /\ demux.todo \in {<<"offer", "ackwaiters">>, <<"offer", "req">>, <<"offer", "delwaiters">>, <<"offer">>}
      /\ demux.todo # <<>>
  BY AtStage DEF Offer, At, Base, TypeOK
<1>2. demux'.line = demux.line /\ demux'.todo = Tail(demux.todo) /\ demux'.had = demux.had
  BY <1>1, RestFacts DEF Offer, Base
<1>3. /\ demux.todo = <<"offer", "ackwaiters">> \/ demux.todo = <<"offer">> => registered
      /\ demux.todo = <<"offer", "req">> => demux.line.t \in {"NEW", "NEWx"}
      /\ demux.todo = <<"offer", "delwaiters">> => demux.line.t = "DEL"
  BY StageLine DEF Base
<1>4. registered
  BY <1>1, <1>3 DEF Base, Alone
<1> QED
  BY <1>1, <1>2, <1>4, Rests

LEMMA WaitersMoves ==
  ASSUME Base, Waiters
  PROVE  /\ demux.todo \in {<<"ackwaiters">>, <<"delwaiters">>, <<"waiters">>} /\ demux'.todo = <<>>
         /\ demux'.line = demux.line /\ registered
<1>1. demux.todo \in {<<"ackwaiters">>, <<"delwaiters">>, <<"waiters">>} /\ demux.todo # <<>>
  <2>1. At("ackwaiters") \/ At("delwaiters") \/ At("waiters")
    BY DEF Waiters
  <2> QED
    BY <2>1, AtStage DEF At, Base, TypeOK
<1>2. demux'.line = demux.line /\ demux'.todo = Tail(demux.todo)
  BY <1>1, RestFacts DEF Waiters, Base
<1>3. /\ demux.todo = <<"ackwaiters">> \/ demux.todo = <<"waiters">> => registered
      /\ demux.todo = <<"delwaiters">> => demux.line.t = "DEL"
  BY StageLine DEF Base
<1>4. registered
  BY <1>1, <1>3 DEF Base, Alone
<1> QED
  BY <1>1, <1>2, <1>4, Rests

LEMMA NewMoves ==
  ASSUME Base, New
  PROVE  /\ demux.todo = <<"new", "offer", "req">> /\ demux'.todo = <<"offer", "req">>
         /\ demux'.line = demux.line /\ demux.line.t \in {"NEW", "NEWx"} /\ registered
         /\ demux'.had = ~(BouncerTries /\ demux.line.t = "NEW")
<1>1. demux.todo = <<"new", "offer", "req">> /\ demux.todo # <<>>
  BY AtStage DEF New, At, Base, TypeOK
<1>2. demux' = [Rest EXCEPT !.had = ~(BouncerTries /\ demux.line.t = "NEW")]
  BY DEF New
<1>3. /\ demux'.line = demux.line /\ demux'.todo = Tail(demux.todo)
      /\ demux'.had = ~(BouncerTries /\ demux.line.t = "NEW")
  BY <1>1, <1>2, RestFacts DEF Base
<1>4. demux.line.t \in {"NEW", "NEWx"}
  BY <1>1, StageLine DEF Base
<1>5. registered
  BY <1>4 DEF Base, Alone
<1> QED
  BY <1>1, <1>3, <1>4, <1>5, Rests

LEMMA ReqMoves ==
  ASSUME Base, NewReq
  PROVE  /\ demux.todo = <<"req">> /\ demux'.todo = <<>> /\ demux'.line = demux.line
         /\ demux.line.t \in {"NEW", "NEWx"} /\ registered
<1>1. demux.todo = <<"req">> /\ demux.todo # <<>>
  BY AtStage DEF NewReq, At, Base, TypeOK
<1>2. demux'.line = demux.line /\ demux'.todo = Tail(demux.todo)
  BY <1>1, RestFacts DEF NewReq, Base
<1>3. demux.line.t \in {"NEW", "NEWx"}
  BY <1>1, StageLine DEF Base
<1>4. registered
  BY <1>3 DEF Base, Alone
<1> QED
  BY <1>1, <1>2, <1>3, <1>4, Rests

LEMMA DelMoves ==
  ASSUME Base, Del
  PROVE  /\ demux.todo = <<"del", "offer", "delwaiters">> /\ demux'.todo = <<"offer", "delwaiters">>
         /\ demux'.line = demux.line /\ demux.line.t = "DEL" /\ registered
<1>1. demux.todo = <<"del", "offer", "delwaiters">> /\ demux.todo # <<>>
  BY AtStage DEF Del, At, Base, TypeOK
<1>2. demux'.line = demux.line /\ demux'.todo = Tail(demux.todo)
  BY <1>1, RestFacts DEF Del, Base, TypeOK
<1>3. demux.line.t = "DEL"
  BY <1>1, StageLine DEF Base
<1>4. registered
  BY <1>3 DEF Base, Alone
<1> QED
  BY <1>1, <1>2, <1>3, <1>4, Rests

LEMMA AccountMoves ==
  ASSUME Base, Account
  PROVE  /\ demux.todo = <<"account">> /\ demux'.todo = <<>> /\ demux'.line = demux.line
         /\ demux.line.t \in {"900", "901", "903", "904"}
         /\ demux.line.t \in {"903", "904"} => ~registered
         /\ demux.line.t = "901" => registered
<1>1. demux.todo = <<"account">> /\ demux.todo # <<>>
  BY AtStage DEF Account, At, Base, TypeOK
<1>2. demux'.line = demux.line /\ demux'.todo = Tail(demux.todo)
  BY <1>1, RestFacts DEF Account, Base
<1>3. demux.line.t \in {"900", "901", "903", "904"} /\ (demux.line.t \in {"903", "904"} => ~registered)
  BY <1>1, StageLine DEF Base
<1>4. demux.line.t = "901" => registered
  BY DEF Base, Alone
<1> QED
  BY <1>1, <1>2, <1>3, <1>4, Rests

LEMMA OutcomeMoves ==
  ASSUME Base, Outcome
  PROVE  /\ demux.todo = <<"outcome", "offer">> /\ demux'.todo \in {<<"offer">>, <<>>} /\ demux'.line = demux.line
         /\ demux.line.t \in {"903", "904"} /\ registered
<1>0. demux \in [line : Lines, todo : Todos, had : BOOLEAN]
  BY DEF Base, TypeOK
<1>1. demux.todo = <<"outcome", "offer">> /\ demux.todo # <<>>
  BY AtStage DEF Outcome, At, Base, TypeOK
<1>2. demux' = Rest \/ demux' = [demux EXCEPT !.todo = <<>>]
  BY DEF Outcome
<1>3. demux'.line = demux.line /\ demux'.todo \in {Tail(demux.todo), <<>>}
  BY <1>0, <1>1, <1>2, RestFacts DEF Base
<1>4. demux.line.t \in {"903", "904"} /\ registered
  BY <1>1, StageLine DEF Base
<1> QED
  BY <1>1, <1>3, <1>4, Rests

LEMMA CompleteMoves ==
  ASSUME Base, completeRegistration
  PROVE  /\ demux.todo = <<"complete", "offer">> /\ demux'.todo = <<"offer">> /\ demux'.line = demux.line
         /\ demux.line.t = "376"
<1>1. demux.todo = <<"complete", "offer">> /\ demux.todo # <<>>
  BY AtStage DEF completeRegistration, At, Base, TypeOK
<1>2. demux' = Rest
  BY DEF completeRegistration
<1>3. demux'.line = demux.line /\ demux'.todo = Tail(demux.todo)
  BY <1>1, <1>2, RestFacts DEF Base, TypeOK
<1>4. demux.line.t = "376"
  BY <1>1, StageLine DEF Base
<1> QED
  BY <1>1, <1>3, <1>4, Rests

LEMMA DisconnectMoves ==
  ASSUME Base, HandleDisconnect
  PROVE  demux.line.t = "" /\ demux.todo = <<>> /\ demux' = demux /\ q' = <<>>
BY DEF HandleDisconnect, Base, Alone

\* Only with a registration complete does a client do something, or the ircd say something
\* of itself.
LEMMA AfterRegistration ==
  ASSUME Base, Fair
  PROVE  /\ \A c \in Clients : Attach(c) \/ notifyAttachCaps(c) \/ SendNew(c) \/ RequestClientSASL(c) \/ WaitForAck(c)
                               \/ forwardClientAuthenticate(c) \/ Authenticate(c) \/ Detach(c) => registered
         /\ AnswerReq \/ EndExchange \/ Services => registered
<1>0. /\ downlinks # {} \/ mix # {} \/ reqs # 0 => registered
      /\ \A c \in Clients : job[c] # "idle" => registered
  BY DEF Base, Alone, Fair
<1>1. ASSUME NEW c \in Clients, Attach(c) \/ notifyAttachCaps(c) \/ SendNew(c) \/ RequestClientSASL(c) \/ WaitForAck(c)
                                \/ forwardClientAuthenticate(c) \/ Authenticate(c) \/ Detach(c)
      PROVE  registered
  <2>1. registered \/ c \in downlinks \/ job[c] # "idle"
    BY <1>1 DEF Attach, notifyAttachCaps, SendNew, RequestClientSASL, WaitForAck, forwardClientAuthenticate, Authenticate,
                Detach
  <2> QED
    BY <1>0, <2>1
<1>2. ASSUME AnswerReq PROVE registered
  BY <1>0, <1>2, Asked DEF Base
<1>3. ASSUME EndExchange PROVE registered
  BY <1>0, <1>3 DEF EndExchange
<1>4. ASSUME Services PROVE registered
  BY <1>4 DEF Services
<1> QED
  BY <1>1, <1>2, <1>3, <1>4

\* They leave alone what the demux is at.
LEMMA Others ==
  ASSUME Base
  PROVE  /\ \A c \in Clients : Attach(c) \/ notifyAttachCaps(c) \/ SendNew(c) \/ RequestClientSASL(c) \/ WaitForAck(c)
                               \/ forwardClientAuthenticate(c) \/ Authenticate(c) \/ Detach(c)
                               => UNCHANGED <<flags, demux, q, usable, offers>>
         /\ AnswerReq \/ EndExchange \/ Services => UNCHANGED <<flags, demux>>
BY DEF Attach, notifyAttachCaps, SendNew, RequestClientSASL, WaitForAck, forwardClientAuthenticate, Authenticate, Detach,
       AnswerReq, EndExchange, Services, ircd

\* What they say.
LEMMA Says ==
  ASSUME Base, AnswerReq \/ EndExchange \/ Services
  PROVE  ~Has(q, {"LS", "LSx", "376"}) => ~Has(q', {"LS", "LSx", "376"})
<1>1. ASSUME AnswerReq PROVE ~Has(q, {"LS", "LSx", "376"}) => ~Has(q', {"LS", "LSx", "376"})
  BY <1>1, AnswerSaid DEF Base, Adds
<1>2. ASSUME EndExchange PROVE ~Has(q, {"LS", "LSx", "376"}) => ~Has(q', {"LS", "LSx", "376"})
  BY <1>2, EndSaid DEF Base, Adds
<1>3. ASSUME Services PROVE ~Has(q, {"LS", "LSx", "376"}) => ~Has(q', {"LS", "LSx", "376"})
  BY <1>3, ServicesSaid DEF Base, Adds
<1> QED
  BY <1>1, <1>2, <1>3

\* Nothing is left of a line that begins in the middle.
Starts == {<<>>, <<"note">>, <<"caps", "owner">>, <<"caps", "owner", "offer", "ackwaiters">>, <<"waiters">>,
           <<"new", "offer", "req">>, <<"del", "offer", "delwaiters">>, <<"account">>, <<"outcome", "offer">>,
           <<"complete", "offer">>}

LEMMA StepsStart == ASSUME NEW t PROVE StepsOf(t) \in Starts
BY DEF StepsOf, Starts

LEMMA NotLeft ==
  /\ <<>> \notin {<<"note">>, <<"complete", "offer">>, <<"owner">>}
  /\ \A x \in Starts : x \notin {<<"owner">>, <<"owner", "offer", "ackwaiters">>, <<"offer", "ackwaiters">>,
                                 <<"ackwaiters">>, <<"offer", "req">>, <<"req">>, <<"offer", "delwaiters">>,
                                 <<"delwaiters">>, <<"offer">>}
  /\ \A x \in Moved : x \notin {<<"note">>, <<"caps", "owner">>, <<"caps", "owner", "offer", "ackwaiters">>,
                                <<"new", "offer", "req">>, <<"del", "offer", "delwaiters">>, <<"account">>,
                                <<"outcome", "offer">>, <<"complete", "offer">>}
BY DEF Starts, Moved

LEMMA BeginsStep ==
  ASSUME Base, Begins, Fair, Fair', [Next]_vars
  PROVE  Begins'
<1>0. /\ q \in Seq(Lines) /\ registered \in BOOLEAN /\ upCap \in BOOLEAN /\ bPending \in BOOLEAN
      /\ loggedIn \in BOOLEAN /\ (demux.line.t = "" => demux.todo = <<>>)
  BY DEF Base, TypeOK, Alone
<1>1. ASSUME registered', ~Has(q', {"LS", "LSx", "376"}),
             demux'.todo \notin {<<"note">>, <<"complete", "offer">>}
      PROVE  Begins'
  BY <1>1 DEF Begins
\* A step of the demux after the registration.
<1>2. ASSUME registered, UNCHANGED <<registered, q>>, demux'.todo \notin {<<"note">>, <<"complete", "offer">>}
      PROVE  Begins'
  BY <1>1, <1>2 DEF Begins
<1>3. ASSUME UNCHANGED <<flags, demux, q, offers>> PROVE Begins'
  BY <1>3 DEF Begins, flags, Busy
\* A step of the demux before the registration is complete, in a line other than 376.
<1>4. ASSUME ~registered, UNCHANGED <<registered, q, offer, offers>>, demux'.line = demux.line,
             demux.line.t \notin {"", "376"}, offers = "none" => UNCHANGED <<upCap, loggedIn, avail>>,
             bPending' \/ demux'.todo = <<"owner">> => upCap'
      PROVE  Begins'
  <2>1. /\ Closed(q) /\ ~offer /\ (demux.line.t # "" => (q = <<>> <=> demux.line.t = "376"))
        /\ offers = "none" => ~upCap /\ ~loggedIn /\ ~avail /\ ~Has(q, Busy) /\ demux.line.t \notin Busy
    BY <1>4 DEF Begins
  <2>2. /\ Closed(q') /\ ~offer' /\ q' # <<>> /\ demux'.line.t \notin {"", "376"} /\ ~registered'
        /\ offers' = "none" => ~upCap' /\ ~loggedIn' /\ ~avail' /\ ~Has(q', Busy) /\ demux'.line.t \notin Busy
    <3>1. q # <<>>
      BY <1>4, <2>1
    <3>2. Closed(q') /\ ~offer' /\ q' # <<>> /\ demux'.line.t \notin {"", "376"} /\ ~registered'
      BY <1>4, <2>1, <3>1
    <3>3. ASSUME offers' = "none"
          PROVE  ~upCap' /\ ~loggedIn' /\ ~avail' /\ ~Has(q', Busy) /\ demux'.line.t \notin Busy
      <4>1. ~upCap /\ ~loggedIn /\ ~avail /\ ~Has(q, Busy) /\ demux.line.t \notin Busy
        BY <1>4, <2>1, <3>3
      <4>2. UNCHANGED <<upCap, loggedIn, avail, q>> /\ demux'.line = demux.line
        BY <1>4, <3>3
      <4> QED
        BY <4>1, <4>2
    <3> QED
      BY <3>2, <3>3
  <2>3. demux'.line.t # "" /\ demux'.line.t # "376"
    BY <2>2
  <2> QED
    BY <1>4, <2>2, <2>3 DEF Begins
<1>5. CASE Take
  <2>1. /\ q # <<>> /\ q' = Tail(q) /\ demux'.line = Head(q) /\ demux'.todo = StepsOf(Head(q).t)
        /\ \A T : Has(q, T) <=> (Head(q).t \in T \/ Has(q', T))
    BY <1>5, TakeMoves
  <2>2. UNCHANGED <<flags, offers>>
    BY <1>5 DEF Take, ircd
  <2>3. CASE registered
    <3>1. ~Has(q', {"LS", "LSx", "376"}) /\ Head(q).t \notin {"LS", "LSx", "376"}
      BY <2>1, <2>3 DEF Begins
    <3>2. StepsOf(Head(q).t) \notin {<<"note">>, <<"complete", "offer">>}
      BY <3>1 DEF StepsOf
    <3> QED
      BY <1>1, <2>1, <2>2, <2>3, <3>1, <3>2 DEF flags
  <2>4. CASE ~registered
    <3>1. Closed(q') /\ (Head(q).t = "376" <=> q' = <<>>)
      BY <1>0, <2>1, <2>4, ClosedTail DEF Begins
    <3>2. demux'.line.t = "376" => demux'.todo = <<"complete", "offer">>
      BY <2>1 DEF StepsOf
    <3>3. demux'.todo # <<"owner">>
      BY <2>1, StepsStart, NotLeft
    <3>4. offers = "none" => ~upCap /\ ~loggedIn /\ ~avail /\ ~Has(q', Busy) /\ demux'.line.t \notin Busy
      BY <2>1, <2>4 DEF Begins
    <3>5. ~registered' /\ ~offer' /\ (bPending' => upCap')
      BY <2>2, <2>4 DEF Begins, flags
    <3>6. demux'.line.t = "" => q' # <<>>
      BY <2>1, <3>1
    <3>7. (demux'.line.t # "" => (q' = <<>> <=> demux'.line.t = "376"))
      BY <2>1, <3>1
    <3> QED
      BY <2>2, <3>1, <3>2, <3>3, <3>4, <3>5, <3>6, <3>7 DEF Begins, flags
  <2> QED
    BY <2>3, <2>4
<1>6. CASE Done
  <2>1. demux.line.t # "" /\ demux.todo = <<>> /\ demux'.line.t = "" /\ demux'.todo = <<>>
    BY <1>6, DoneMoves
  <2>2. UNCHANGED <<flags, offers, q>>
    BY <1>6 DEF Done, ircd
  <2>3. CASE registered
    <3>1. demux'.todo \notin {<<"note">>, <<"complete", "offer">>}
      BY <2>1, NotLeft
    <3> QED
      BY <1>2, <2>2, <2>3, <3>1 DEF flags
  <2>4. CASE ~registered
    <3>0. demux.line.t # "376"
      <4>1. <<>> # <<"complete", "offer">>
        OBVIOUS
      <4> QED
        BY <2>1, <2>4, <4>1 DEF Begins
    <3>1. q # <<>>
      BY <2>1, <2>4, <3>0 DEF Begins
    <3>2. /\ Closed(q) /\ ~offer /\ (bPending => upCap)
          /\ offers = "none" => ~upCap /\ ~loggedIn /\ ~avail /\ ~Has(q, Busy)
      BY <2>1, <2>4 DEF Begins
    <3>3. "" \notin Busy /\ <<>> # <<"owner">>
      BY DEF Busy
    <3> QED
      BY <2>1, <2>2, <2>4, <3>1, <3>2, <3>3 DEF Begins, flags
  <2> QED
    BY <2>3, <2>4
<1>7. CASE Note
  <2>1. demux.todo = <<"note">> /\ demux'.todo = <<>> /\ demux'.line = demux.line /\ demux.line.t \in {"LS", "LSx"}
    BY <1>7, NoteMoves
  <2>2. UNCHANGED <<registered, upCap, offer, bPending, loggedIn, q, offers>>
    BY <1>7 DEF Note, ircd
  <2>3. ~registered
    BY <2>1 DEF Begins
  <2>4. offers # "none" /\ (bPending => upCap)
    <3>1. demux.line.t # "" /\ demux.line.t \in Busy
      BY <2>1 DEF Busy
    <3>2. offers # "none"
      BY <2>3, <3>1, Zenon DEF Begins
    <3>3. bPending => upCap
      BY <2>3, Zenon DEF Begins
    <3> QED
      BY <3>2, <3>3
  <2>5. demux'.todo # <<"owner">>
    BY <2>1, NotLeft
  <2>6. demux.line.t \notin {"", "376"}
    BY <2>1
  <2> QED
    BY <1>4, <2>1, <2>2, <2>3, <2>4, <2>5, <2>6
<1>8. CASE AckCaps
  <2>1. /\ \/ demux.todo = <<"caps", "owner">> /\ demux'.todo = <<"owner">> /\ ~registered
           \/ demux'.todo = <<"owner", "offer", "ackwaiters">> /\ registered
        /\ demux'.line = demux.line /\ demux.line.t = "ACK"
    BY <1>8, CapsMoves
  <2>2. upCap' = TRUE /\ UNCHANGED <<registered, offer, q, offers>>
    BY <1>8 DEF AckCaps, ircd
  <2>3. CASE registered
    <3>1. demux'.todo \notin {<<"note">>, <<"complete", "offer">>}
      BY <2>1, <2>3
    <3> QED
      BY <1>2, <2>2, <2>3, <3>1
  <2>4. CASE ~registered
    <3>1. offers # "none" /\ demux.line.t \notin {"", "376"}
      BY <2>1, <2>4 DEF Begins, Busy
    <3> QED
      BY <1>4, <2>1, <2>2, <2>4, <3>1
  <2> QED
    BY <2>3, <2>4
<1>9. CASE AckOwner
  <2>1. /\ \/ demux.todo = <<"owner">> /\ demux'.todo = <<>> /\ ~registered
           \/ demux'.todo = <<"offer", "ackwaiters">> /\ registered
        /\ demux'.line = demux.line /\ demux.line.t = "ACK"
    BY <1>9, OwnerMoves
  <2>2. UNCHANGED <<registered, upCap, loggedIn, avail, offer, q, offers>>
    BY <1>9 DEF AckOwner, ircd
  <2>3. CASE registered
    <3>1. demux'.todo \notin {<<"note">>, <<"complete", "offer">>}
      BY <2>1, <2>3
    <3> QED
      BY <1>2, <2>2, <2>3, <3>1
  <2>4. CASE ~registered
    <3>1. upCap' /\ demux.line.t \notin {"", "376"}
      BY <2>1, <2>2, <2>4 DEF Begins
    <3> QED
      BY <1>4, <2>1, <2>2, <2>4, <3>1
  <2> QED
    BY <2>3, <2>4
<1>10. CASE Waiters \/ New \/ NewReq \/ Del \/ Offer
  <2>1. /\ registered
        /\ demux'.todo \in {<<>>, <<"offer", "req">>, <<"offer", "delwaiters">>, <<"ackwaiters">>, <<"req">>,
                            <<"delwaiters">>}
    BY <1>10, WaitersMoves, NewMoves, ReqMoves, DelMoves, OfferMoves
  <2>2. UNCHANGED <<registered, q>>
    BY <1>10 DEF Waiters, New, NewReq, Del, Offer, flags
  <2>3. demux'.todo \notin {<<"note">>, <<"complete", "offer">>}
    BY <2>1
  <2> QED
    BY <1>2, <2>1, <2>2, <2>3
<1>11. CASE Account
  <2>1. /\ demux'.todo = <<>> /\ demux'.line = demux.line /\ demux.line.t \in {"900", "901", "903", "904"}
        /\ demux.line.t = "901" => registered
    BY <1>11, AccountMoves
  <2>2. UNCHANGED <<registered, upCap, offer, avail, q, offers>>
    BY <1>11 DEF Account, ircd
  <2>3. demux'.todo \notin {<<"note">>, <<"complete", "offer">>, <<"owner">>}
    BY <2>1
  <2>4. CASE registered
    BY <1>2, <2>2, <2>3, <2>4
  <2>5. CASE ~registered
    <3>1. offers # "none"
      BY <2>1, <2>5 DEF Begins, Busy
    <3>2. bPending' => bPending
      BY <1>11, Zenon DEF Account, PendingAfter
    <3>3. bPending => upCap
      BY <2>5 DEF Begins
    <3>4. demux.line.t \notin {"", "376"}
      BY <2>1
    <3> QED
      BY <1>4, <2>1, <2>2, <2>3, <2>5, <3>1, <3>2, <3>3, <3>4
  <2> QED
    BY <2>4, <2>5
<1>12. CASE Outcome
  <2>1. registered /\ demux'.todo \in {<<"offer">>, <<>>}
    BY <1>12, OutcomeMoves
  <2>2. UNCHANGED <<registered, q>> /\ demux'.todo \notin {<<"note">>, <<"complete", "offer">>}
    BY <1>12, <2>1 DEF Outcome
  <2> QED
    BY <1>2, <2>1, <2>2
<1>13. CASE completeRegistration
  <2>1. demux.todo = <<"complete", "offer">> /\ demux'.todo = <<"offer">> /\ demux.line.t = "376"
    BY <1>13, CompleteMoves
  <2>2. registered' /\ q' = q
    BY <1>13 DEF completeRegistration
  <2>3. ~registered
    BY <2>1 DEF Begins
  <2>4. q = <<>>
    BY <2>1, <2>3 DEF Begins
  <2>5. ~Has(q', {"LS", "LSx", "376"}) /\ demux'.todo \notin {<<"note">>, <<"complete", "offer">>}
    BY <2>1, <2>2, <2>4, HasNone
  <2> QED
    BY <1>1, <2>2, <2>5
<1>14. CASE HandleDisconnect
  <2>1. demux'.line.t = "" /\ demux'.todo = <<>> /\ q' = <<>>
    BY <1>14, DisconnectMoves
  <2>2. ~registered' /\ ~offer' /\ ~upCap' /\ ~bPending' /\ ~bFailed' /\ ~loggedIn' /\ ~avail'
    BY <1>14 DEF HandleDisconnect
  <2>3. Closed(<<>>) /\ <<>> # <<"owner">>
    BY DEF Closed
  <2> QED
    BY <2>1, <2>2, <2>3 DEF Begins
<1>15. CASE Connect
  <2>1. ~registered /\ demux.line.t = "" /\ q = <<>> /\ UNCHANGED <<flags, demux>>
    BY <1>15 DEF Connect, Base, Alone
  <2>2. PICK s \in Registration :
            /\ q' = [i \in 1 .. Len(s) |-> Line(s[i])]
            /\ offers' = CASE Len(s) = 1 -> "none" [] Len(s) = 2 -> "offered" [] OTHER -> "granted"
    BY <1>15 DEF Connect
  <2>3. Closed(q') /\ q' # <<>> /\ (Len(s) = 1 => ~Has(q', Busy))
    BY <2>2, HelloClosed
  <2>4. offers' = "none" => Len(s) = 1
    BY <2>2
  <2>5. ~upCap /\ ~bPending /\ ~bFailed /\ ~loggedIn /\ ~avail /\ ~offer
    BY <2>1 DEF Begins
  <2>6. demux.todo # <<"owner">> /\ "" \notin Busy
    <3>1. demux.todo = <<>> /\ <<>> # <<"owner">>
      BY <1>0, <2>1
    <3> QED
      BY <3>1 DEF Busy
  <2> QED
    BY <2>1, <2>3, <2>4, <2>5, <2>6 DEF Begins, flags
<1>16. ASSUME NEW c \in Clients, Attach(c) \/ notifyAttachCaps(c) \/ SendNew(c) \/ RequestClientSASL(c) \/ WaitForAck(c)
                 \/ forwardClientAuthenticate(c) \/ Authenticate(c) \/ Detach(c)
       PROVE  Begins'
  BY <1>3, <1>16, Others
<1>17. CASE AnswerReq \/ EndExchange \/ Services
  <2>1. registered /\ UNCHANGED <<flags, demux>>
    BY <1>17, AfterRegistration, Others
  <2>2. ~Has(q', {"LS", "LSx", "376"})
    BY <1>17, <2>1, Says DEF Begins
  <2>3. registered' /\ demux'.todo \notin {<<"note">>, <<"complete", "offer">>}
    BY <2>1 DEF Begins, flags
  <2> QED
    BY <1>1, <2>2, <2>3
<1>18. CASE UNCHANGED vars
  BY <1>3, <1>18 DEF vars, ircd
<1> QED
  BY <1>5, <1>6, <1>7, <1>8, <1>9, <1>10, <1>11, <1>12, <1>13, <1>14, <1>15, <1>16, <1>17, <1>18 DEF Next

\* No CAP NEW or DEL is on its way or being handled.
LEMMA SettledMeans ==
  ASSUME Base, Settled
  PROVE  /\ ~Unsettled /\ ~DelComes /\ demux.todo # <<"offer", "delwaiters">>
<1>1. offers # "none" /\ demux.line.t \notin {"NEW", "NEWx", "DEL"}
  BY DEF Settled
<1>2. ~Has(q, {"NEW", "NEWx"}) /\ ~Has(q, {"DEL"})
  BY DEF Settled, Has
<1>3. /\ demux.todo # <<"new", "offer", "req">> /\ demux.todo # <<"del", "offer", "delwaiters">>
      /\ demux.todo # <<"offer", "delwaiters">>
  BY <1>1, StageLine DEF Base
<1> QED
  BY <1>1, <1>2, <1>3 DEF Unsettled, NewComes, DelComes

LEMMA OrderedFew ==
  /\ \A A, B, x : Ordered(<<>>, A, B) /\ Ordered(<<x>>, A, B)
  /\ \A A, B, x, y : y.t \notin A \/ x.t \notin B => Ordered(<<x, y>>, A, B)
  /\ \A s, A, B : ~Has(s, B) => Ordered(s, A, B)
<1>1. \A A, B, x : Ordered(<<>>, A, B) /\ Ordered(<<x>>, A, B)
  BY DEF Ordered
<1>2. ASSUME NEW A, NEW B, NEW x, NEW y, y.t \notin A \/ x.t \notin B PROVE Ordered(<<x, y>>, A, B)
  <2>1. Len(<<x, y>>) = 2 /\ <<x, y>>[1] = x /\ <<x, y>>[2] = y /\ 1 .. 2 = {1, 2}
    OBVIOUS
  <2> QED
    BY <1>2, <2>1 DEF Ordered
<1>3. \A s, A, B : ~Has(s, B) => Ordered(s, A, B)
  BY DEF Has, Ordered
<1> QED
  BY <1>1, <1>2, <1>3

LEMMA StepsSay ==
  ASSUME NEW t
  PROVE  /\ StepsOf(t) = <<"new", "offer", "req">> <=> t \in Coming
         /\ StepsOf(t) = <<"del", "offer", "delwaiters">> <=> t = "DEL"
         /\ StepsOf(t) = <<"outcome", "offer">> => t \in Outcomes /\ registered
         /\ t \in Outcomes /\ registered => StepsOf(t) = <<"outcome", "offer">>
         /\ StepsOf(t) = <<"account">> => t \in {"900", "901", "903", "904"}
         /\ t \in {"900", "901"} => StepsOf(t) = <<"account">>
         /\ t = "ACK" => StepsOf(t) \in {<<"caps", "owner">>, <<"caps", "owner", "offer", "ackwaiters">>}
<1> DEFINE x == <<"new", "offer", "req">>
           y == <<"del", "offer", "delwaiters">>
           z == <<"outcome", "offer">>
           a == <<"account">>
<1>1. CASE t \in Coming
  <2>1. StepsOf(t) = x
    BY <1>1 DEF StepsOf, Coming
  <2>2. x # y /\ x # z /\ x # a
    OBVIOUS
  <2> QED
    BY <1>1, <2>1, <2>2 DEF Coming, Outcomes
<1>2. CASE t = "DEL"
  <2>1. StepsOf(t) = y
    BY <1>2 DEF StepsOf
  <2>2. y # x /\ y # z /\ y # a
    OBVIOUS
  <2> QED
    BY <1>2, <2>1, <2>2 DEF Coming, Outcomes
<1>3. CASE t \in Outcomes /\ registered
  <2>1. StepsOf(t) = z
    BY <1>3 DEF StepsOf, Outcomes
  <2>2. z # x /\ z # y /\ z # a
    OBVIOUS
  <2> QED
    BY <1>3, <2>1, <2>2 DEF Coming, Outcomes
<1>4. CASE t \in {"900", "901", "903", "904"} /\ ~(t \in Outcomes /\ registered)
  <2>1. StepsOf(t) = a
    BY <1>4 DEF StepsOf, Outcomes
  <2>2. a # x /\ a # y /\ a # z
    OBVIOUS
  <2> QED
    BY <1>4, <2>1, <2>2 DEF Coming, Outcomes
<1>5. CASE t \notin {"900", "901", "903", "904", "DEL"} \cup Coming
  <2>1. StepsOf(t) \in {<<>>, <<"note">>, <<"caps", "owner">>, <<"caps", "owner", "offer", "ackwaiters">>,
                       <<"waiters">>, <<"complete", "offer">>}
    BY <1>5 DEF StepsOf, Coming
  <2>2. StepsOf(t) # x /\ StepsOf(t) # y /\ StepsOf(t) # z /\ StepsOf(t) # a
    BY <2>1
  <2>3. t = "ACK" => StepsOf(t) \in {<<"caps", "owner">>, <<"caps", "owner", "offer", "ackwaiters">>}
    BY DEF StepsOf
  <2> QED
    BY <1>5, <2>2, <2>3 DEF Outcomes
<1> QED
  BY <1>1, <1>2, <1>3, <1>4, <1>5 DEF Outcomes

\* The outcome of the exchange in hand, and whose it is.
LEMMA EndSays ==
  ASSUME Base, EndExchange
  PROVE  \E u \in Seq(Lines) : /\ Adds(u) /\ ~Has(u, {"901", "DEL", "NEW", "NEWx"}) /\ ~Has(u, {"ACK"})
                              /\ Ordered(u, Outcomes, Outcomes) /\ Of(u, Outcomes, mix) /\ Has(u, Outcomes)
<1>1. PICK a, b \in {"900", "903", "904"} :
         LET x == [t |-> a, of |-> mix]
             y == [t |-> b, of |-> mix]
         IN  /\ x \in Lines /\ y \in Lines
             /\ \/ a = "900" /\ b = "903" /\ Adds(<<x, y>>) /\ \A T : Has(<<x, y>>, T) <=> (a \in T \/ b \in T)
                \/ a = "904" /\ b = "904" /\ Adds(<<x>>) /\ \A T : Has(<<x>>, T) <=> a \in T
  BY EndSaid DEF Base
<1> DEFINE x == [t |-> a, of |-> mix]
           y == [t |-> b, of |-> mix]
<1>2. <<x>> \in Seq(Lines) /\ <<x, y>> \in Seq(Lines)
  BY <1>1
<1>3. x.t = a /\ y.t = b /\ x.of = mix /\ y.of = mix
  OBVIOUS
<1>4. Of(<<x>>, Outcomes, mix) /\ Of(<<x, y>>, Outcomes, mix)
  <2>1. /\ Len(<<x>>) = 1 /\ <<x>>[1] = x /\ Len(<<x, y>>) = 2 /\ <<x, y>>[1] = x /\ <<x, y>>[2] = y
        /\ 1 .. 1 = {1} /\ 1 .. 2 = {1, 2}
    OBVIOUS
  <2> HIDE DEF x, y
  <2> QED
    BY <1>3, <2>1 DEF Of
<1>5. CASE a = "900" /\ b = "903" /\ Adds(<<x, y>>) /\ \A T : Has(<<x, y>>, T) <=> (a \in T \/ b \in T)
  <2>1. Ordered(<<x, y>>, Outcomes, Outcomes)
    BY <1>3, <1>5, OrderedFew DEF Outcomes
  <2>2. Has(<<x, y>>, Outcomes) /\ ~Has(<<x, y>>, {"901", "DEL", "NEW", "NEWx"}) /\ ~Has(<<x, y>>, {"ACK"})
    BY <1>5 DEF Outcomes
  <2> QED
    BY <1>2, <1>4, <1>5, <2>1, <2>2
<1>6. CASE a = "904" /\ b = "904" /\ Adds(<<x>>) /\ \A T : Has(<<x>>, T) <=> a \in T
  <2>1. Ordered(<<x>>, Outcomes, Outcomes)
    BY OrderedFew
  <2>2. Has(<<x>>, Outcomes) /\ ~Has(<<x>>, {"901", "DEL", "NEW", "NEWx"}) /\ ~Has(<<x>>, {"ACK"})
    BY <1>6 DEF Outcomes
  <2> QED
    BY <1>2, <1>4, <1>6, <2>1, <2>2
<1> QED
  BY <1>1, <1>5, <1>6

LEMMA AnnouncedStep ==
  ASSUME Base, Came, Announced, Fair, Fair', [Next]_vars
  PROVE  Announced'
<1>0. /\ q \in Seq(Lines) /\ registered \in BOOLEAN /\ (demux.line.t = "" => demux.todo = <<>>)
      /\ "del" \notin met /\ "del" \notin met'
  BY DEF Base, TypeOK, Alone, Fair
<1> DEFINE Coded == {<<"new", "offer", "req">>, <<"del", "offer", "delwaiters">>, <<"account">>}
<1>1. ASSUME UNCHANGED <<q, demux, offers, usable>> PROVE Announced'
  BY <1>1 DEF Announced, DelComes, LogoutComes, Unsettled, NewComes, Trying
\* A step of the demux in a line of something else.
<1>2. ASSUME UNCHANGED <<q, offers, usable>>, demux.todo \notin Coded, demux'.todo \notin Coded,
             Trying' => Trying
      PROVE  Announced'
  <2>0. /\ demux.todo # <<"new", "offer", "req">> /\ demux.todo # <<"del", "offer", "delwaiters">>
        /\ demux.todo # <<"account">>
    BY <1>2
  <2>1. /\ Has(q, {"DEL"}) => Unsettled
        /\ Has(q, {"901"}) => Has(q, {"DEL"})
        /\ Trying => ~Unsettled
        /\ Ordered(q, {"901", "DEL"} \cup Coming, Coming) /\ Ordered(q, {"901"}, {"DEL"})
        /\ Has(q, {"NEWx"}) => ~usable
    <3>1. /\ DelComes => Unsettled
          /\ LogoutComes => DelComes
          /\ Trying => ~Unsettled
          /\ Ordered(q, {"901", "DEL"} \cup Coming, Coming) /\ Ordered(q, {"901"}, {"DEL"})
          /\ Has(q, {"NEWx"}) => ~usable
      BY DEF Announced
    <3>2. (DelComes <=> Has(q, {"DEL"})) /\ (Has(q, {"901"}) => LogoutComes)
      BY <2>0 DEF DelComes, LogoutComes
    <3> QED
      BY <3>1, <3>2
  <2>2. /\ demux'.todo # <<"new", "offer", "req">> /\ demux'.todo # <<"del", "offer", "delwaiters">>
        /\ demux'.todo # <<"account">>
    BY <1>2
  <2>3. (Unsettled' <=> Unsettled) /\ (DelComes' <=> Has(q, {"DEL"})) /\ (LogoutComes' => Has(q, {"901"}))
    BY <1>2, <2>0, <2>2 DEF Unsettled, NewComes, DelComes, LogoutComes
  <2> QED
    BY <1>2, <2>1, <2>2, <2>3 DEF Announced
<1>3. CASE Take
  <2>1. /\ demux.todo = <<>> /\ q # <<>> /\ q' = Tail(q) /\ demux'.line = Head(q)
        /\ demux'.todo = StepsOf(Head(q).t) /\ \A T : Has(q, T) <=> (Head(q).t \in T \/ Has(q', T))
    BY <1>3, TakeMoves
  <2>2. UNCHANGED <<offers, usable, registered>>
    BY <1>3 DEF Take, flags, ircd
  <2>3. /\ demux'.todo = <<"new", "offer", "req">> => Head(q).t \in Coming
        /\ demux'.todo = <<"del", "offer", "delwaiters">> <=> Head(q).t = "DEL"
        /\ Head(q).t \in Coming => demux'.todo = <<"new", "offer", "req">>
    BY <2>1, StepsSay
  <2>4. /\ Ordered(q', {"901", "DEL"} \cup Coming, Coming) /\ Ordered(q', {"901"}, {"DEL"})
        /\ Head(q).t \in Coming => ~Has(q', {"901", "DEL"} \cup Coming)
        /\ Head(q).t = "DEL" => ~Has(q', {"901"})
    BY <1>0, <2>1, OrderTail DEF Announced
  <2>5. Unsettled' <=> Unsettled
    BY <2>1, <2>2, <2>3 DEF Unsettled, NewComes, Coming
  <2>6. DelComes' <=> DelComes
    BY <2>1, <2>3 DEF DelComes
  <2>7. LogoutComes' => LogoutComes
    BY <2>1 DEF LogoutComes
  <2>8. ~Trying'
    BY <2>1, StepsStart, NotLeft DEF Trying
  <2>9. Has(q', {"NEWx"}) \/ (demux'.todo = <<"new", "offer", "req">> /\ demux'.line.t = "NEWx") => ~usable'
    BY <2>1, <2>2 DEF Announced
  <2> QED
    BY <2>3, <2>4, <2>5, <2>6, <2>7, <2>8, <2>9 DEF Announced
<1>4. CASE Done
  <2>1. demux.todo = <<>> /\ demux'.todo = <<>>
    BY <1>4, DoneMoves
  <2>2. UNCHANGED <<q, offers, usable>> /\ <<>> \notin Coded /\ ~Trying'
    BY <1>4, <2>1 DEF Done, ircd, Trying
  <2> QED
    BY <1>2, <2>1, <2>2
<1>5. CASE Note \/ AckCaps \/ AckOwner \/ Waiters \/ NewReq \/ completeRegistration
  <2>1. /\ demux.todo \in {<<"note">>, <<"caps", "owner">>, <<"caps", "owner", "offer", "ackwaiters">>, <<"owner">>,
                           <<"owner", "offer", "ackwaiters">>, <<"ackwaiters">>, <<"delwaiters">>, <<"waiters">>,
                           <<"req">>, <<"complete", "offer">>}
        /\ demux'.todo \in {<<>>, <<"owner">>, <<"owner", "offer", "ackwaiters">>, <<"offer", "ackwaiters">>,
                            <<"offer">>}
    BY <1>5, NoteMoves, CapsMoves, OwnerMoves, WaitersMoves, ReqMoves, CompleteMoves
  <2>2. demux.todo \notin Coded /\ demux'.todo \notin Coded /\ ~Trying'
    <3>1. demux.todo \notin Coded
      BY <2>1
    <3>2. demux'.todo \notin Coded /\ demux'.todo \notin {<<"offer", "req">>, <<"req">>}
      <4>1. \A x \in {<<>>, <<"owner">>, <<"owner", "offer", "ackwaiters">>, <<"offer", "ackwaiters">>, <<"offer">>} :
               x \notin Coded /\ x \notin {<<"offer", "req">>, <<"req">>}
        OBVIOUS
      <4> QED
        BY <2>1, <4>1
    <3>3. ~Trying'
      BY <3>2 DEF Trying
    <3> QED
      BY <3>1, <3>2, <3>3
  <2>3. UNCHANGED <<q, offers, usable>>
    BY <1>5 DEF Note, AckCaps, AckOwner, Waiters, NewReq, completeRegistration, ircd
  <2> QED
    BY <1>2, <2>2, <2>3
<1>6. CASE Offer \/ Outcome
  <2>1. /\ demux.todo \in {<<"offer", "ackwaiters">>, <<"offer", "req">>, <<"offer", "delwaiters">>, <<"offer">>,
                           <<"outcome", "offer">>}
        /\ demux'.todo \in {<<"ackwaiters">>, <<"delwaiters">>, <<"offer">>, <<>>}
           \/ (demux.todo = <<"offer", "req">> /\ demux'.todo = <<"req">> /\ demux'.had = demux.had)
    BY <1>6, OfferMoves, OutcomeMoves
  <2>2. demux.todo \notin Coded /\ demux'.todo \notin Coded /\ (Trying' => Trying)
    <3>1. demux.todo \notin Coded
      BY <2>1
    <3>2. CASE demux'.todo \in {<<"ackwaiters">>, <<"delwaiters">>, <<"offer">>, <<>>}
      <4>1. demux'.todo \notin Coded /\ demux'.todo \notin {<<"offer", "req">>, <<"req">>}
        <5>1. <<"ackwaiters">> \notin Coded /\ <<"ackwaiters">> \notin {<<"offer", "req">>, <<"req">>}
          OBVIOUS
        <5>2. <<"delwaiters">> \notin Coded /\ <<"delwaiters">> \notin {<<"offer", "req">>, <<"req">>}
          OBVIOUS
        <5>3. <<"offer">> \notin Coded /\ <<"offer">> \notin {<<"offer", "req">>, <<"req">>}
          OBVIOUS
        <5>4. <<>> \notin Coded /\ <<>> \notin {<<"offer", "req">>, <<"req">>}
          OBVIOUS
        <5> HIDE DEF Coded
        <5> QED
          BY Zenon, <3>2, <5>1, <5>2, <5>3, <5>4
      <4> QED
        BY <3>1, <4>1 DEF Trying
    <3>3. CASE demux.todo = <<"offer", "req">> /\ demux'.todo = <<"req">> /\ demux'.had = demux.had
      <4>1. demux'.todo \notin Coded
        BY <3>3
      <4> QED
        BY <3>1, <3>3, <4>1 DEF Trying
    <3> QED
      BY <2>1, <3>2, <3>3
  <2>3. UNCHANGED <<q, offers, usable>>
    BY <1>6 DEF Offer, Outcome, ircd
  <2> QED
    BY <1>2, <2>2, <2>3
<1>7. CASE New
  <2>1. demux.todo = <<"new", "offer", "req">> /\ demux'.todo = <<"offer", "req">> /\ registered
    BY <1>7, NewMoves
  <2>2. UNCHANGED <<q, offers, usable>>
    BY <1>7 DEF New, ircd
  <2>3. ~Has(q, {"901"}) /\ ~Has(q, {"DEL"}) /\ ~Has(q, {"NEW", "NEWx"}) /\ ~Has(q, {"NEWx"})
    <3>1. ~Has(q, {"901", "DEL"} \cup Coming)
      BY <2>1 DEF Announced
    <3> QED
      BY <3>1 DEF Has, Coming
  <2>4. offers # "none"
    BY <1>0, <2>1 DEF Came, NewComes
  <2>5. ~Unsettled' /\ ~DelComes' /\ ~LogoutComes'
    BY <2>1, <2>2, <2>3, <2>4 DEF Unsettled, NewComes, DelComes, LogoutComes
  <2>6. Ordered(q, {"901", "DEL"} \cup Coming, Coming) /\ Ordered(q, {"901"}, {"DEL"})
    BY DEF Announced
  <2>7. demux'.todo # <<"new", "offer", "req">> /\ demux'.todo # <<"del", "offer", "delwaiters">>
    BY <2>1
  <2> QED
    BY <2>2, <2>3, <2>5, <2>6, <2>7 DEF Announced
<1>8. CASE Del
  <2>1. demux.todo = <<"del", "offer", "delwaiters">> /\ demux'.todo = <<"offer", "delwaiters">>
    BY <1>8, DelMoves
  <2>2. UNCHANGED <<q, offers, usable>>
    BY <1>8 DEF Del, ircd
  <2>3. ~Has(q, {"901"}) /\ Unsettled
    BY <2>1 DEF Announced, DelComes
  <2>4. Unsettled' /\ ~LogoutComes' /\ ~Trying'
    BY <2>1, <2>2, <2>3 DEF Unsettled, NewComes, LogoutComes, Trying
  <2>5. Ordered(q, {"901", "DEL"} \cup Coming, Coming) /\ Ordered(q, {"901"}, {"DEL"}) /\ (Has(q, {"NEWx"}) => ~usable)
    BY DEF Announced
  <2>6. demux'.todo # <<"new", "offer", "req">> /\ demux'.todo # <<"del", "offer", "delwaiters">>
    BY <2>1
  <2> QED
    BY <2>2, <2>4, <2>5, <2>6 DEF Announced
<1>9. CASE Account
  <2>1. demux.todo = <<"account">> /\ demux'.todo = <<>>
    BY <1>9, AccountMoves
  <2>2. UNCHANGED <<q, offers, usable>>
    BY <1>9 DEF Account, ircd
  <2>3. demux'.todo # <<"new", "offer", "req">> /\ demux'.todo # <<"del", "offer", "delwaiters">> /\ ~Trying'
    BY <2>1 DEF Trying
  <2>4. (Unsettled' <=> Unsettled) /\ (DelComes' <=> DelComes) /\ (LogoutComes' => LogoutComes)
    BY <2>1, <2>2 DEF Unsettled, NewComes, DelComes, LogoutComes
  <2> QED
    BY <2>2, <2>3, <2>4 DEF Announced
<1>10. ASSUME ~Has(q', {"901", "DEL", "NEW", "NEWx"}), demux'.todo = <<>>
       PROVE  Announced'
  <2>1. /\ ~Has(q', {"901"}) /\ ~Has(q', {"DEL"}) /\ ~Has(q', {"NEWx"}) /\ ~Has(q', {"NEW", "NEWx"})
        /\ ~Has(q', Coming)
    BY <1>10 DEF Has, Coming
  <2>2. Ordered(q', {"901", "DEL"} \cup Coming, Coming) /\ Ordered(q', {"901"}, {"DEL"})
    BY <2>1, OrderedFew
  <2>3. ~DelComes' /\ ~LogoutComes' /\ ~Trying'
    BY <1>10, <2>1 DEF DelComes, LogoutComes, Trying
  <2> QED
    BY <1>10, <2>1, <2>2, <2>3 DEF Announced
<1>11. CASE HandleDisconnect
  <2>1. demux'.todo = <<>> /\ q' = <<>>
    BY <1>11, DisconnectMoves
  <2> QED
    BY <1>10, <2>1, HasNone
<1>12. CASE Connect
  <2>1. PICK s \in Registration : q' = [i \in 1 .. Len(s) |-> Line(s[i])]
    BY <1>12 DEF Connect
  <2>2. ~Has(q', {"NAK", "NEW", "NEWx", "DEL", "901"})
    BY <2>1, HelloTypes
  <2>3. ~Has(q', {"901", "DEL", "NEW", "NEWx"})
    BY <2>2 DEF Has
  <2>4. demux'.todo = <<>>
    BY <1>0, <1>12 DEF Connect, Base, Alone
  <2> QED
    BY <1>10, <2>3, <2>4
\* The ircd says nothing of the kind.
<1>13. ASSUME UNCHANGED <<demux, usable>>, NEW u \in Seq(Lines), Adds(u), ~Has(u, {"901", "DEL", "NEW", "NEWx"}),
              offers' # "none", offers # "none"
       PROVE  Announced'
  <2>1. /\ ~Has(u, {"901"}) /\ ~Has(u, {"DEL"}) /\ ~Has(u, {"NEWx"}) /\ ~Has(u, {"NEW", "NEWx"}) /\ ~Has(u, Coming)
        /\ ~Has(u, {"901", "DEL"} \cup Coming)
    BY <1>13 DEF Has, Coming
  <2>2. Ordered(u, {"901", "DEL"} \cup Coming, Coming) /\ Ordered(u, {"901"}, {"DEL"})
    BY <2>1, OrderedFew
  <2>3. Ordered(q', {"901", "DEL"} \cup Coming, Coming) /\ Ordered(q', {"901"}, {"DEL"})
    BY <1>0, <1>13, <2>1, <2>2, OrderJoin DEF Announced, Adds
  <2>4. /\ Has(q', {"901"}) <=> Has(q, {"901"})
        /\ Has(q', {"DEL"}) <=> Has(q, {"DEL"})
        /\ Has(q', {"NEWx"}) <=> Has(q, {"NEWx"})
        /\ Has(q', {"NEW", "NEWx"}) <=> Has(q, {"NEW", "NEWx"})
        /\ Has(q', {"901", "DEL"} \cup Coming) <=> Has(q, {"901", "DEL"} \cup Coming)
    BY <1>13, <2>1 DEF Adds
  <2>5. (Unsettled' <=> Unsettled) /\ (DelComes' <=> DelComes) /\ (LogoutComes' <=> LogoutComes) /\ (Trying' <=> Trying)
    BY <1>13, <2>4 DEF Unsettled, NewComes, DelComes, LogoutComes, Trying
  <2> QED
    BY <1>13, <2>3, <2>4, <2>5 DEF Announced
<1>14. ASSUME UNCHANGED <<demux, usable, offers>>, NEW u \in Seq(Lines), Adds(u), ~Has(u, {"901", "DEL", "NEW", "NEWx"})
       PROVE  Announced'
  <2>1. /\ ~Has(u, {"901"}) /\ ~Has(u, {"DEL"}) /\ ~Has(u, {"NEWx"}) /\ ~Has(u, {"NEW", "NEWx"}) /\ ~Has(u, Coming)
        /\ ~Has(u, {"901", "DEL"} \cup Coming)
    BY <1>14 DEF Has, Coming
  <2>2. Ordered(u, {"901", "DEL"} \cup Coming, Coming) /\ Ordered(u, {"901"}, {"DEL"})
    BY <2>1, OrderedFew
  <2>3. Ordered(q', {"901", "DEL"} \cup Coming, Coming) /\ Ordered(q', {"901"}, {"DEL"})
    BY <1>0, <1>14, <2>1, <2>2, OrderJoin DEF Announced, Adds
  <2>4. /\ Has(q', {"901"}) <=> Has(q, {"901"})
        /\ Has(q', {"DEL"}) <=> Has(q, {"DEL"})
        /\ Has(q', {"NEWx"}) <=> Has(q, {"NEWx"})
        /\ Has(q', {"NEW", "NEWx"}) <=> Has(q, {"NEW", "NEWx"})
        /\ Has(q', {"901", "DEL"} \cup Coming) <=> Has(q, {"901", "DEL"} \cup Coming)
    BY <1>14, <2>1 DEF Adds
  <2>5. (Unsettled' <=> Unsettled) /\ (DelComes' <=> DelComes) /\ (LogoutComes' <=> LogoutComes) /\ (Trying' <=> Trying)
    BY <1>14, <2>4 DEF Unsettled, NewComes, DelComes, LogoutComes, Trying
  <2> QED
    BY <1>14, <2>3, <2>4, <2>5 DEF Announced
<1>15. CASE AnswerReq
  <2>1. PICK t \in {"ACK", "NAK"} : /\ Adds(<<Line(t)>>) /\ \A T : Has(<<Line(t)>>, T) <=> t \in T
                                    /\ t = "ACK" => offers # "none" /\ offers' = "granted"
                                    /\ t = "NAK" => offers' = offers
    BY <1>15, AnswerSaid DEF Base
  <2>2. <<Line(t)>> \in Seq(Lines)
    BY <2>1, OneLine DEF LineTypes
  <2>3. ~Has(<<Line(t)>>, {"901", "DEL", "NEW", "NEWx"})
    BY <2>1
  <2>4. UNCHANGED <<demux, usable>>
    BY <1>15 DEF AnswerReq
  <2>5. offers' = offers \/ (offers # "none" /\ offers' # "none")
    BY <2>1
  <2> QED
    BY <1>13, <1>14, <2>1, <2>2, <2>3, <2>4, <2>5
<1>16. CASE EndExchange
  <2>1. \E u \in Seq(Lines) : Adds(u) /\ ~Has(u, {"901", "DEL", "NEW", "NEWx"})
    BY <1>16, EndSays
  <2>2. UNCHANGED <<demux, usable, offers>>
    BY <1>16 DEF EndExchange
  <2> QED
    BY <1>14, <2>1, <2>2
<1>17. CASE Services
  <2>0. UNCHANGED demux /\ registered
    BY <1>17 DEF Services
  <2>1. CASE /\ offers = "none" /\ offers' = "offered"
             /\ \E t \in {"NEW", "NEWx"} : /\ Adds(<<Line(t)>>) /\ usable' = (t = "NEW")
                                           /\ \A T : Has(<<Line(t)>>, T) <=> t \in T
    <3>1. PICK t \in {"NEW", "NEWx"} : /\ Adds(<<Line(t)>>) /\ usable' = (t = "NEW")
                                       /\ \A T : Has(<<Line(t)>>, T) <=> t \in T
      BY <2>1
    <3>2. ~NewComes /\ ~Has(q, {"NEWx"}) /\ ~Has(q, Coming)
      <4>1. ~NewComes
        BY <1>0, <2>0, <2>1 DEF Came
      <4> QED
        BY <4>1 DEF NewComes, Has, Coming
    <3>3. /\ Has(q', {"901"}) <=> Has(q, {"901"})
          /\ Has(q', {"DEL"}) <=> Has(q, {"DEL"})
          /\ Has(q', {"NEWx"}) => t = "NEWx"
          /\ Has(q', {"NEW", "NEWx"})
      BY <3>1, <3>2 DEF Adds
    <3>4. Unsettled' /\ (DelComes' <=> DelComes) /\ (LogoutComes' <=> LogoutComes) /\ (Trying' <=> Trying) /\ Unsettled
      BY <2>0, <2>1, <3>3 DEF Unsettled, NewComes, DelComes, LogoutComes, Trying
    <3>5. demux.todo # <<"new", "offer", "req">>
      BY <3>2 DEF NewComes
    <3>6. <<Line(t)>> \in Seq(Lines)
      BY OneLine DEF LineTypes
    <3>7. ~Has(<<Line(t)>>, {"901"})
      BY <3>1
    <3>8. Ordered(q', {"901", "DEL"} \cup Coming, Coming) /\ Ordered(q', {"901"}, {"DEL"})
      BY <1>0, <3>1, <3>2, <3>6, <3>7, OrderedFew, OrderJoin DEF Announced, Adds
    <3>9. Has(q', {"NEWx"}) => ~usable'
      BY <3>1, <3>3
    <3> QED
      BY <2>0, <3>3, <3>4, <3>5, <3>8, <3>9 DEF Announced
  <2>2. CASE /\ offers' = "none" /\ Quiet
             /\ Adds(<<Line("901"), Line("DEL")>>)
             /\ \A T : Has(<<Line("901"), Line("DEL")>>, T) <=> ("901" \in T \/ "DEL" \in T)
    <3>1. demux'.todo = <<>> /\ q = <<>>
      BY <2>0, <2>2 DEF Quiet, Base, Alone
    <3>2. ~Has(q', Coming) /\ ~Has(q', {"NEWx"}) /\ Has(q', {"DEL"})
      BY <2>2, <3>1, HasNone DEF Adds, Coming
    <3>3. Unsettled' /\ DelComes' /\ ~Trying'
      BY <2>2, <3>1, <3>2 DEF Unsettled, DelComes, Trying
    <3>4. Line("901") \in Lines /\ Line("DEL") \in Lines /\ Line("901").t = "901" /\ Line("DEL").t = "DEL"
      BY LineTyped DEF LineTypes
    <3>5. Ordered(<<Line("901"), Line("DEL")>>, {"901"}, {"DEL"})
      BY <3>4, OrderedFew
    <3>6. <<Line("901"), Line("DEL")>> \in Seq(Lines) /\ ~Has(<<>>, {"DEL"}) /\ Ordered(<<>>, {"901"}, {"DEL"})
      BY <3>4, HasNone, OrderedFew
    <3>7. Ordered(q', {"901"}, {"DEL"})
      BY <1>0, <2>2, <3>1, <3>5, <3>6, OrderJoin DEF Adds
    <3>8. Ordered(q', {"901", "DEL"} \cup Coming, Coming)
      BY <3>2, OrderedFew
    <3>9. demux'.todo # <<"new", "offer", "req">> /\ demux'.todo # <<"del", "offer", "delwaiters">>
      BY <3>1
    <3> QED
      BY <3>2, <3>3, <3>7, <3>8, <3>9 DEF Announced
  <2> QED
    BY <1>0, <1>17, <2>1, <2>2, ServicesSaid DEF Base
<1>18. ASSUME NEW c \in Clients, Attach(c) \/ notifyAttachCaps(c) \/ SendNew(c) \/ RequestClientSASL(c) \/ WaitForAck(c)
                 \/ forwardClientAuthenticate(c) \/ Authenticate(c) \/ Detach(c)
       PROVE  Announced'
  BY <1>1, <1>18, Others
<1>19. CASE UNCHANGED vars
  BY <1>1, <1>19 DEF vars, ircd
<1> QED
  BY <1>3, <1>4, <1>5, <1>6, <1>7, <1>8, <1>9, <1>11, <1>12, <1>15, <1>16, <1>17, <1>18, <1>19 DEF Next

LEMMA BareFrame ==
  ASSUME Bare, UNCHANGED <<upCap, bPending, avail, loggedIn, offer, mix, reqs, saslClient>>,
         \A c \in Clients : job'[c] \notin {"write", "wait"},
         ~Has(q', Busy), demux'.line.t \notin Busy,
         DelComes => DelComes', LogoutComes => LogoutComes',
         demux.todo = <<"offer", "delwaiters">> => demux'.todo = <<"offer", "delwaiters">>
  PROVE  Bare'
<1>1. Clean'
  BY DEF Clean, Bare
<1>2. upCap' \/ bPending' \/ avail' => DelComes'
  BY Zenon DEF Bare
<1>3. loggedIn' => LogoutComes'
  BY Zenon DEF Bare
<1>4. offer' => DelComes' \/ demux'.todo = <<"offer", "delwaiters">>
  BY Zenon DEF Bare
<1> QED
  BY <1>1, <1>2, <1>3, <1>4, Zenon DEF Bare

LEMMA ForgottenStep ==
  ASSUME Base, Begins, Came, Announced, Forgotten, Fair, Fair', [Next]_vars
  PROVE  Forgotten'
<1> SUFFICES ASSUME registered', Unsettled' PROVE Bare'
  BY DEF Forgotten
<1>0. /\ q \in Seq(Lines) /\ registered \in BOOLEAN /\ (demux.line.t = "" => demux.todo = <<>>)
      /\ "del" \notin met /\ {"del", "race"} \cap met' = {} /\ job \in [Clients -> {"idle", "announce", "tell", "wait", "write"}]
      /\ ~registered => saslClient = "none" /\ reqs = 0 /\ mix = {} /\ \A c \in Clients : job[c] = "idle"
  BY DEF Base, TypeOK, Alone, Fair
<1>1. ASSUME registered, Unsettled PROVE Bare
  BY <1>1 DEF Forgotten
<1>2. ASSUME Bare
      PROVE  /\ mix = {} /\ reqs = 0 /\ saslClient = "none" /\ ~Has(q, Busy) /\ demux.line.t \notin Busy
             /\ \A c \in Clients : job[c] \notin {"write", "wait"}
  BY <1>2 DEF Bare, Clean
\* Nothing but the step of the demux changes.
<1>3. ASSUME Bare, UNCHANGED <<upCap, bPending, avail, loggedIn, offer, mix, reqs, saslClient, job, q>>,
             demux'.line = demux.line, demux.todo \notin {<<"del", "offer", "delwaiters">>, <<"account">>,
                                                         <<"offer", "delwaiters">>}
      PROVE  Bare'
  <2>1. DelComes => DelComes'
    BY <1>3 DEF DelComes
  <2>2. LogoutComes => LogoutComes'
    BY <1>3 DEF LogoutComes
  <2>3. ~Has(q', Busy) /\ demux'.line.t \notin Busy /\ \A c \in Clients : job'[c] \notin {"write", "wait"}
    BY <1>2, <1>3
  <2>4. demux.todo # <<"offer", "delwaiters">>
    BY <1>3
  <2> QED
    BY <1>3, <2>1, <2>2, <2>3, <2>4, BareFrame
<1>4. ASSUME UNCHANGED <<registered, offers, q>>, demux'.todo # <<"new", "offer", "req">>
      PROVE  registered /\ Unsettled /\ Bare
  <2>1. Unsettled
    BY <1>4 DEF Unsettled, NewComes
  <2> QED
    BY <1>1, <1>4, <2>1
<1>5. CASE Take
  <2>1. /\ demux.todo = <<>> /\ q # <<>> /\ q' = Tail(q) /\ demux'.line = Head(q)
        /\ demux'.todo = StepsOf(Head(q).t) /\ \A T : Has(q, T) <=> (Head(q).t \in T \/ Has(q', T))
    BY <1>5, TakeMoves
  <2>2. UNCHANGED <<offers, usable, registered, upCap, bPending, avail, loggedIn, offer, mix, reqs, saslClient, job>>
    BY <1>5 DEF Take, flags, ircd
  <2>3. /\ demux'.todo = <<"new", "offer", "req">> <=> Head(q).t \in Coming
        /\ demux'.todo = <<"del", "offer", "delwaiters">> <=> Head(q).t = "DEL"
        /\ Head(q).t = "901" => demux'.todo = <<"account">>
    BY <2>1, StepsSay
  <2>4. Unsettled
    BY <2>1, <2>2, <2>3 DEF Unsettled, NewComes, Coming
  <2>5. Bare
    BY <1>1, <2>2, <2>4
  <2>6. DelComes => DelComes'
    BY <2>1, <2>3 DEF DelComes
  <2>7. LogoutComes => LogoutComes'
    BY <2>1, <2>3 DEF LogoutComes
  <2>8. ~Has(q', Busy) /\ demux'.line.t \notin Busy /\ \A c \in Clients : job'[c] \notin {"write", "wait"}
    BY <1>2, <2>1, <2>2, <2>5
  <2>9. demux.todo # <<"offer", "delwaiters">>
    BY <2>1
  <2> QED
    BY <2>2, <2>5, <2>6, <2>7, <2>8, <2>9, BareFrame
<1>6. CASE Done
  <2>0. <<>> \notin {<<"new", "offer", "req">>, <<"del", "offer", "delwaiters">>, <<"account">>, <<"offer", "delwaiters">>}
    OBVIOUS
  <2>1. /\ demux'.line.t = ""
        /\ demux.todo \notin {<<"del", "offer", "delwaiters">>, <<"account">>, <<"offer", "delwaiters">>}
        /\ demux'.todo # <<"new", "offer", "req">>
    BY <1>6, <2>0, DoneMoves
  <2>2. UNCHANGED <<offers, registered, q, upCap, bPending, avail, loggedIn, offer, mix, reqs, saslClient, job>>
    BY <1>6 DEF Done, flags, ircd
  <2>3. Bare
    BY <1>4, <2>1, <2>2
  <2>4. DelComes => DelComes'
    BY <2>1, <2>2 DEF DelComes
  <2>5. LogoutComes => LogoutComes'
    BY <2>1, <2>2 DEF LogoutComes
  <2>6. ~Has(q', Busy) /\ \A c \in Clients : job'[c] \notin {"write", "wait"}
    BY <1>2, <2>2, <2>3
  <2>7. demux'.line.t \notin Busy
    <3>1. "" \notin Busy
      BY DEF Busy
    <3> QED
      BY <2>1, <3>1
  <2>8. demux.todo # <<"offer", "delwaiters">>
    BY <2>1
  <2> QED
    BY <2>2, <2>3, <2>4, <2>5, <2>6, <2>7, <2>8, BareFrame
<1>7. CASE Note
  <2>1. demux.todo = <<"note">> /\ registered' = registered
    BY <1>7, NoteMoves DEF Note
  <2>2. ~registered
    BY <2>1 DEF Begins
  <2> QED
    BY <2>1, <2>2
<1>8. CASE AckCaps \/ AckOwner
  <2>1. demux'.todo \in {<<"owner">>, <<"owner", "offer", "ackwaiters">>, <<>>, <<"offer", "ackwaiters">>}
        /\ demux.line.t = "ACK"
    BY <1>8, CapsMoves, OwnerMoves
  <2>2. UNCHANGED <<registered, offers, q>>
    BY <1>8 DEF AckCaps, AckOwner, ircd, flags
  <2>3. demux'.todo # <<"new", "offer", "req">>
    BY <2>1
  <2> QED
    BY <1>2, <1>4, <2>1, <2>2, <2>3 DEF Busy
<1>9. CASE Waiters
  <2>1. /\ demux.todo \in {<<"ackwaiters">>, <<"delwaiters">>, <<"waiters">>} /\ demux'.todo = <<>>
        /\ demux'.line = demux.line
    BY <1>9, WaitersMoves
  <2>2. UNCHANGED <<offers, registered, q, upCap, bPending, avail, loggedIn, offer, mix, reqs, saslClient, job>>
    BY <1>9 DEF Waiters, flags, ircd
  <2>3. demux.todo \notin {<<"del", "offer", "delwaiters">>, <<"account">>, <<"offer", "delwaiters">>}
    BY <2>1
  <2>4. demux'.todo # <<"new", "offer", "req">>
    BY <2>1
  <2>5. Bare
    BY <1>4, <2>2, <2>4
  <2> QED
    BY <1>3, <2>1, <2>2, <2>3, <2>5
<1>10. CASE New
  <2>1. demux.todo = <<"new", "offer", "req">> /\ demux'.todo = <<"offer", "req">> /\ registered
    BY <1>10, NewMoves
  <2>2. UNCHANGED <<q, offers>>
    BY <1>10 DEF New, ircd
  <2>3. ~Has(q, {"NEW", "NEWx"})
    <3>1. ~Has(q, {"901", "DEL"} \cup Coming)
      BY <2>1 DEF Announced
    <3> QED
      BY <3>1 DEF Has, Coming
  <2>4. offers # "none"
    BY <1>0, <2>1 DEF Came, NewComes
  <2>5. ~Unsettled'
    BY <2>1, <2>2, <2>3, <2>4 DEF Unsettled, NewComes
  <2> QED
    BY <2>5
<1>11. CASE NewReq
  <2>1. demux.todo = <<"req">> /\ demux'.todo = <<>> /\ demux'.line = demux.line
    BY <1>11, ReqMoves
  <2>2. UNCHANGED <<offers, registered, q, upCap, bPending, avail, loggedIn, offer, mix, saslClient, job>>
    BY <1>11 DEF NewReq, flags, ircd
  <2>3. Unsettled /\ Bare
    <3>1. demux'.todo # <<"new", "offer", "req">>
      BY <2>1
    <3> QED
      BY <1>4, <2>2, <3>1
  <2>4. demux.had
    BY <2>1, <2>3 DEF Announced, Trying
  <2>5. reqs' = reqs
    BY <1>11, <2>4 DEF NewReq
  <2>6. demux.todo \notin {<<"del", "offer", "delwaiters">>, <<"account">>, <<"offer", "delwaiters">>}
    BY <2>1
  <2> QED
    BY <1>3, <2>1, <2>2, <2>3, <2>5, <2>6
<1>12. CASE Del
  <2>1. demux.todo = <<"del", "offer", "delwaiters">> /\ demux'.todo = <<"offer", "delwaiters">>
        /\ demux'.line = demux.line
    BY <1>12, DelMoves
  <2>2. UNCHANGED <<offers, registered, q, loggedIn, mix, reqs, saslClient, job>> /\ ~upCap' /\ ~avail' /\ ~bPending'
    BY <1>12 DEF Del, ircd
  <2>3. Bare
    <3>1. demux'.todo # <<"new", "offer", "req">>
      BY <2>1
    <3> QED
      BY <1>4, <2>2, <3>1
  <2>4. ~LogoutComes
    <3>1. ~Has(q, {"901"}) /\ demux.todo # <<"account">>
      BY <2>1 DEF Announced
    <3> QED
      BY <3>1 DEF LogoutComes
  <2>5. ~loggedIn'
    BY <2>2, <2>3, <2>4 DEF Bare
  <2>6. Clean'
    BY <1>2, <2>1, <2>2, <2>3 DEF Clean
  <2> QED
    BY <2>1, <2>2, <2>5, <2>6 DEF Bare
<1>13. CASE Offer
  <2>1. /\ demux.todo \in {<<"offer", "ackwaiters">>, <<"offer", "req">>, <<"offer", "delwaiters">>, <<"offer">>}
        /\ demux'.todo \in {<<"ackwaiters">>, <<"req">>, <<"delwaiters">>, <<>>}
        /\ demux'.line = demux.line
    BY <1>13, OfferMoves
  <2>2. UNCHANGED <<offers, registered, q, upCap, bPending, avail, loggedIn, mix, reqs, saslClient, job>>
    BY <1>13 DEF Offer, ircd
  <2>3. Bare
    <3>1. demux'.todo # <<"new", "offer", "req">>
      BY <2>1
    <3> QED
      BY <1>4, <2>2, <3>1
  <2>4. offer' => avail
    BY <1>13 DEF Offer, refreshSASLOffer
  <2>5. DelComes => DelComes'
    <3>1. demux.todo # <<"del", "offer", "delwaiters">>
      BY <2>1
    <3> QED
      BY <2>2, <3>1 DEF DelComes
  <2>6. LogoutComes => LogoutComes'
    <3>1. demux.todo # <<"account">>
      BY <2>1
    <3> QED
      BY <2>2, <3>1 DEF LogoutComes
  <2>7. Clean'
    BY <1>2, <2>1, <2>2, <2>3 DEF Clean
  <2>8. upCap' \/ bPending' \/ avail' => DelComes'
    BY <2>2, <2>3, <2>5, Zenon DEF Bare
  <2>9. loggedIn' => LogoutComes'
    BY <2>2, <2>3, <2>6, Zenon DEF Bare
  <2>10. offer' => DelComes'
    BY <2>2, <2>4, <2>8, Zenon
  <2> QED
    BY <2>7, <2>8, <2>9, <2>10, Zenon DEF Bare
<1>14. CASE Account
  <2>1. /\ demux.todo = <<"account">> /\ demux'.todo = <<>> /\ demux'.line = demux.line
        /\ demux.line.t \in {"900", "901", "903", "904"}
    BY <1>14, AccountMoves
  <2>2. UNCHANGED <<offers, registered, q, upCap, avail, offer, mix, reqs, saslClient, job>>
    BY <1>14 DEF Account, ircd
  <2>3. Bare
    <3>1. demux'.todo # <<"new", "offer", "req">>
      BY <2>1
    <3> QED
      BY <1>4, <2>2, <3>1
  <2>4. demux.line.t = "901"
    BY <1>2, <2>1, <2>3 DEF Busy
  <2>5. loggedIn' = FALSE /\ bPending' = bPending
    BY <1>14, <2>2, <2>4 DEF Account
  <2>6. DelComes => DelComes'
    BY <2>1, <2>2 DEF DelComes
  <2>7. Clean'
    BY <1>2, <2>1, <2>2, <2>3 DEF Clean
  <2>8. upCap' \/ bPending' \/ avail' => DelComes'
    BY <2>2, <2>3, <2>5, <2>6, Zenon DEF Bare
  <2>9. offer' => DelComes'
    <3>1. demux.todo # <<"offer", "delwaiters">>
      BY <2>1
    <3> QED
      BY <2>2, <2>3, <2>6, <3>1, Zenon DEF Bare
  <2> QED
    BY <2>5, <2>7, <2>8, <2>9, Zenon DEF Bare
<1>15. CASE Outcome
  <2>1. demux'.todo \in {<<"offer">>, <<>>} /\ demux.line.t \in {"903", "904"}
    BY <1>15, OutcomeMoves
  <2>2. UNCHANGED <<registered, offers, q>>
    BY <1>15 DEF Outcome, ircd
  <2>3. demux'.todo # <<"new", "offer", "req">>
    BY <2>1
  <2> QED
    BY <1>2, <1>4, <2>1, <2>2, <2>3 DEF Busy
<1>16. CASE completeRegistration
  <2>1. /\ demux.todo = <<"complete", "offer">> /\ demux'.todo = <<"offer">> /\ demux.line.t = "376"
        /\ demux'.line = demux.line
    BY <1>16, CompleteMoves
  <2>2. UNCHANGED <<offers, q, upCap, avail, loggedIn, offer, mix, reqs, saslClient, job>> /\ ~bPending'
    BY <1>16 DEF completeRegistration, ircd
  <2>3. ~registered
    BY <2>1 DEF Begins
  <2>4. q = <<>>
    BY <2>1, <2>3 DEF Begins
  <2>5. offers = "none"
    <3>1. ~NewComes'
      BY <2>1, <2>2, <2>4, HasNone DEF NewComes
    <3> QED
      BY <2>2, <3>1 DEF Unsettled
  <2>6. ~upCap /\ ~loggedIn /\ ~avail /\ ~Has(q, Busy) /\ demux.line.t \notin Busy /\ ~offer
    BY <2>1, <2>3, <2>5 DEF Begins
  <2>7. Clean'
    BY <1>0, <2>1, <2>2, <2>3, <2>6 DEF Clean
  <2> QED
    BY <2>2, <2>6, <2>7 DEF Bare
<1>17. CASE HandleDisconnect \/ Connect
  BY <1>17 DEF HandleDisconnect, Connect, flags, Base, Alone
<1>18. ASSUME NEW c \in Clients, Attach(c) \/ notifyAttachCaps(c) \/ SendNew(c) \/ RequestClientSASL(c) \/ WaitForAck(c)
                 \/ forwardClientAuthenticate(c) \/ Authenticate(c) \/ Detach(c)
       PROVE  Bare'
  <2>1. UNCHANGED <<flags, demux, q, usable, offers>>
    BY <1>18, Others
  <2>2. Unsettled /\ Bare
    <3>1. Unsettled /\ registered
      BY <2>1 DEF Unsettled, NewComes, flags
    <3> QED
      BY <1>1, <3>1
  <2>3. ~Settled
    BY <2>2, SettledMeans
  <2>4. ~RequestClientSASL(c) /\ ~forwardClientAuthenticate(c)
    BY <1>0, <2>3, Untroubled
  <2>5. ~WaitForAck(c) /\ ~Authenticate(c)
    BY <1>2, <2>2 DEF WaitForAck, Authenticate
  <2>6. /\ UNCHANGED <<mix, reqs>> /\ saslClient' = "none"
        /\ \A d \in Clients : job'[d] \notin {"write", "wait"}
    BY <1>0, <1>2, <1>18, <2>2, <2>4, <2>5 DEF Attach, notifyAttachCaps, SendNew, Detach, ircd
  <2>7. saslClient' = saslClient
    BY <1>2, <2>2, <2>6
  <2>8. ~Has(q', Busy) /\ demux'.line.t \notin Busy
    BY <1>2, <2>1, <2>2
  <2>9. DelComes => DelComes'
    BY <2>1 DEF DelComes
  <2>10. LogoutComes => LogoutComes'
    BY <2>1 DEF LogoutComes
  <2> QED
    BY <2>1, <2>2, <2>6, <2>7, <2>8, <2>9, <2>10, BareFrame DEF flags
<1>19. CASE AnswerReq
  <2>1. PICK t \in {"ACK", "NAK"} : /\ Adds(<<Line(t)>>) /\ \A T : Has(<<Line(t)>>, T) <=> t \in T
                                    /\ t = "ACK" => offers # "none" /\ offers' = "granted"
                                    /\ t = "NAK" => offers' = offers
    BY <1>19, AnswerSaid DEF Base
  <2>2. UNCHANGED <<demux, registered>>
    BY <1>19 DEF AnswerReq, flags
  <2>3. Has(q', {"NEW", "NEWx"}) <=> Has(q, {"NEW", "NEWx"})
    BY <2>1 DEF Adds
  <2>4. Unsettled
    BY <2>1, <2>2, <2>3 DEF Unsettled, NewComes
  <2>5. reqs = 0
    BY <1>1, <1>2, <2>2, <2>4
  <2> QED
    BY <1>19, <2>5, Asked DEF Base
<1>20. CASE EndExchange
  <2>1. PICK u \in Seq(Lines) : Adds(u) /\ ~Has(u, {"901", "DEL", "NEW", "NEWx"})
    BY <1>20, EndSays
  <2>2. UNCHANGED <<demux, offers, registered>> /\ mix # {}
    BY <1>20 DEF EndExchange, flags
  <2>3. Has(q', {"NEW", "NEWx"}) <=> Has(q, {"NEW", "NEWx"})
    <3>1. ~Has(u, {"NEW", "NEWx"})
      BY <2>1 DEF Has
    <3> QED
      BY <2>1, <3>1 DEF Adds
  <2>4. Unsettled
    BY <2>2, <2>3 DEF Unsettled, NewComes
  <2> QED
    BY <1>1, <1>2, <2>2, <2>4
<1>21. CASE Services
  <2>0. UNCHANGED <<demux, flags, reqs, saslClient, job>> /\ registered
    BY <1>21 DEF Services
  <2>1. CASE /\ offers = "none" /\ offers' = "offered" /\ mix' = mix
             /\ \E t \in {"NEW", "NEWx"} : Adds(<<Line(t)>>) /\ \A T : Has(<<Line(t)>>, T) <=> t \in T
    <3>1. PICK t \in {"NEW", "NEWx"} : Adds(<<Line(t)>>) /\ \A T : Has(<<Line(t)>>, T) <=> t \in T
      BY <2>1
    <3>2. Bare
      BY <1>1, <2>0, <2>1 DEF Unsettled
    <3>3. /\ Has(q', {"901"}) <=> Has(q, {"901"})
          /\ Has(q', {"DEL"}) <=> Has(q, {"DEL"})
          /\ Has(q', Busy) <=> Has(q, Busy)
      BY <3>1 DEF Adds, Busy
    <3>4. ~Has(q', Busy) /\ demux'.line.t \notin Busy /\ \A c \in Clients : job'[c] \notin {"write", "wait"}
      BY <1>2, <2>0, <3>2, <3>3
    <3>5. DelComes => DelComes'
      BY <2>0, <3>3 DEF DelComes
    <3>6. LogoutComes => LogoutComes'
      BY <2>0, <3>3 DEF LogoutComes
    <3> QED
      BY <2>0, <2>1, <3>2, <3>4, <3>5, <3>6, BareFrame DEF flags
  <2>2. CASE /\ offers' = "none" /\ mix' = {} /\ saslClient = "none" /\ Quiet
             /\ Adds(<<Line("901"), Line("DEL")>>)
             /\ \A T : Has(<<Line("901"), Line("DEL")>>, T) <=> ("901" \in T \/ "DEL" \in T)
    <3>1. q = <<>> /\ reqs = 0 /\ demux.line.t = "" /\ \A c \in Clients : job[c] = "idle"
      BY <2>2 DEF Quiet
    <3>2. ~Has(q', Busy) /\ Has(q', {"901"}) /\ Has(q', {"DEL"})
      BY <2>2, <3>1, HasNone DEF Adds, Busy
    <3>3. Clean'
      BY <2>0, <2>2, <3>1, <3>2 DEF Clean, Busy
    <3>4. DelComes' /\ LogoutComes'
      BY <3>2 DEF DelComes, LogoutComes
    <3> QED
      BY <3>3, <3>4 DEF Bare
  <2>3. "del" \notin met'
    BY <1>0
  <2> QED
    BY <1>21, <2>1, <2>2, <2>3, ServicesSaid DEF Base
<1>22. CASE UNCHANGED vars
  <2>1. Unsettled /\ registered
    BY <1>22 DEF vars, Unsettled, NewComes, ircd, flags
  <2>2. Bare
    BY <1>1, <2>1
  <2> QED
    BY <1>22, <2>2 DEF vars, ircd, flags, Bare, Clean, DelComes, LogoutComes
<1> QED
  BY <1>5, <1>6, <1>7, <1>8, <1>9, <1>10, <1>11, <1>12, <1>13, <1>14, <1>15, <1>16, <1>17, <1>18, <1>19, <1>20, <1>21,
     <1>22 DEF Next

LEMMA AtCapsNot ==
  /\ <<>> \notin {<<"caps", "owner">>, <<"caps", "owner", "offer", "ackwaiters">>}
  /\ <<>> \notin {<<"account">>, <<"outcome", "offer">>}
  /\ <<>> # <<"offer", "delwaiters">>
  /\ \A x \in Moved : x \notin {<<"caps", "owner">>, <<"caps", "owner", "offer", "ackwaiters">>}
                      /\ x \notin {<<"account">>, <<"outcome", "offer">>}
BY DEF Moved

\* What changes nothing of it.
LEMMA GrantedFrame ==
  ASSUME GrantedFirst, UNCHANGED <<registered, upCap, bFailed, offer, q>>,
         \A c \in Clients : job'[c] # "wait",
         saslClient' # "none" => saslClient # "none", Bouncer \in mix' => Bouncer \in mix,
         Unsettled => Unsettled', DelComes => DelComes', demux.todo # <<"offer", "delwaiters">>,
         ~AtCaps,
         demux'.line.t = "904" => demux'.todo \notin {<<"account">>, <<"outcome", "offer">>}
  PROVE  GrantedFirst'
<1>1. saslClient' # "none" => upCap'
  BY DEF GrantedFirst
<1>2. bFailed' /\ (registered' => ~Unsettled') => upCap'
  <2>1. bFailed /\ (registered => ~Unsettled) => upCap
    BY Zenon DEF GrantedFirst
  <2> QED
    BY <2>1, Zenon
<1>3. offer' /\ ~upCap' => DelComes'
  <2>1. offer /\ ~upCap => DelComes \/ demux.todo = <<"offer", "delwaiters">>
    BY Zenon DEF GrantedFirst
  <2> QED
    BY <2>1, Zenon
<1>4. upCap' \/ AtCaps' \/ Led(q', {"ACK"}, {"904"})
  BY DEF GrantedFirst
<1>5. Bouncer \in mix' => upCap' \/ AtCaps' \/ Has(q', {"ACK"})
  BY DEF GrantedFirst
<1> QED
  BY <1>1, <1>2, <1>3, <1>4, <1>5, Zenon DEF GrantedFirst

LEMMA GrantedStep ==
  ASSUME Base, Begins, Came, Announced, Forgotten, Granted, Held, Fair, Fair', [Next]_vars
  PROVE  Granted'
<1> SUFFICES ASSUME own, usable' PROVE GrantedFirst'
  BY Fixed DEF Granted
<1>0. /\ q \in Seq(Lines) /\ registered \in BOOLEAN /\ (demux.line.t = "" => demux.todo = <<>>)
      /\ {"del", "race", "leave", "late", "lost"} \cap met' = {} /\ job \in [Clients -> {"idle", "announce", "tell", "wait", "write"}]
      /\ ~registered => saslClient = "none" /\ reqs = 0 /\ mix = {} /\ \A c \in Clients : job[c] = "idle"
      /\ upCap \in BOOLEAN /\ bFailed \in BOOLEAN /\ offer \in BOOLEAN /\ mix \subseteq Parties
      /\ saslClient \in Clients \cup {"none"} /\ downlinks \subseteq Clients
  BY DEF Base, TypeOK, Alone, Fair
<1>1. ASSUME usable PROVE GrantedFirst
  BY <1>1 DEF Granted
<1>2. ASSUME registered, Unsettled PROVE Bare
  BY <1>2 DEF Forgotten
<1>3. ASSUME Bare
      PROVE  /\ mix = {} /\ reqs = 0 /\ saslClient = "none" /\ ~Has(q, Busy) /\ demux.line.t \notin Busy
             /\ \A c \in Clients : job[c] \notin {"write", "wait"}
             /\ ~Has(q, {"904"})
  BY <1>3 DEF Bare, Clean, Busy, Has
<1>5. CASE Take
  <2>1. /\ demux.todo = <<>> /\ q # <<>> /\ q' = Tail(q) /\ demux'.line = Head(q)
        /\ demux'.todo = StepsOf(Head(q).t) /\ \A T : Has(q, T) <=> (Head(q).t \in T \/ Has(q', T))
    BY <1>5, TakeMoves
  <2>2. UNCHANGED <<offers, usable, registered, upCap, bFailed, offer, mix, saslClient, job>>
    BY <1>5 DEF Take, flags, ircd
  <2>3. /\ demux'.todo = <<"new", "offer", "req">> <=> Head(q).t \in Coming
        /\ demux'.todo = <<"del", "offer", "delwaiters">> <=> Head(q).t = "DEL"
        /\ Head(q).t = "ACK" => demux'.todo \in {<<"caps", "owner">>, <<"caps", "owner", "offer", "ackwaiters">>}
    BY <2>1, StepsSay
  <2>4. Unsettled' <=> Unsettled
    BY <2>1, <2>2, <2>3 DEF Unsettled, NewComes, Coming
  <2>5. DelComes' <=> DelComes
    BY <2>1, <2>3 DEF DelComes
  <2>6. GrantedFirst
    BY <1>1, <2>2
  <2>7. ~AtCaps /\ demux.todo # <<"offer", "delwaiters">> /\ (Head(q).t = "ACK" => AtCaps')
    BY <2>1, <2>3, AtCapsNot DEF AtCaps
  <2>8. upCap \/ (Head(q).t # "904" /\ (Head(q).t # "ACK" => Led(q', {"ACK"}, {"904"})))
    BY <1>0, <2>1, <2>6, <2>7, OrderTail DEF GrantedFirst
  <2>9. \A c \in Clients : job'[c] # "wait"
    BY <2>2, <2>6 DEF GrantedFirst
  <2>10. saslClient' # "none" => upCap'
    BY <2>2, <2>6 DEF GrantedFirst
  <2>11. bFailed' /\ (registered' => ~Unsettled') => upCap'
    BY <2>2, <2>4, <2>6 DEF GrantedFirst
  <2>12. offer' /\ ~upCap' => DelComes'
    BY <2>2, <2>5, <2>6, <2>7 DEF GrantedFirst
  <2>13. upCap' \/ AtCaps' \/ Led(q', {"ACK"}, {"904"})
    BY <2>2, <2>7, <2>8
  <2>14. demux'.line.t = "904" => upCap'
    BY <2>1, <2>2, <2>8
  <2>15. Bouncer \in mix' => upCap' \/ AtCaps' \/ Has(q', {"ACK"})
    <3>1. Has(q, {"ACK"}) => AtCaps' \/ Has(q', {"ACK"})
      BY <2>1, <2>7
    <3> QED
      BY <2>2, <2>6, <2>7, <3>1 DEF GrantedFirst
  <2> QED
    BY <2>9, <2>10, <2>11, <2>12, <2>13, <2>14, <2>15 DEF GrantedFirst
\* A step of the demux that changes nothing clients go by.
<1>6. CASE Done \/ Note \/ AckOwner \/ Waiters \/ NewReq
  <2>1. /\ demux.todo \in {<<>>, <<"note">>, <<"owner">>, <<"owner", "offer", "ackwaiters">>, <<"ackwaiters">>,
                           <<"delwaiters">>, <<"waiters">>, <<"req">>}
        /\ demux'.todo \in {<<>>, <<"offer", "ackwaiters">>}
    BY <1>6, DoneMoves, NoteMoves, OwnerMoves, WaitersMoves, ReqMoves
  <2>2. UNCHANGED <<offers, usable, registered, upCap, bFailed, offer, mix, saslClient, job, q>>
    BY <1>6 DEF Done, Note, AckOwner, Waiters, NewReq, flags, ircd
  <2>3. GrantedFirst
    BY <1>1, <2>2
  <2>4. /\ demux.todo # <<"new", "offer", "req">> /\ demux.todo # <<"del", "offer", "delwaiters">>
        /\ demux.todo # <<"offer", "delwaiters">>
        /\ demux.todo \notin {<<"caps", "owner">>, <<"caps", "owner", "offer", "ackwaiters">>}
    BY <2>1
  <2>5. demux'.todo \notin {<<"account">>, <<"outcome", "offer">>}
    BY <2>1
  <2>6. Unsettled => Unsettled'
    BY <2>2, <2>4 DEF Unsettled, NewComes
  <2>7. DelComes => DelComes'
    BY <2>2, <2>4 DEF DelComes
  <2>8. ~AtCaps /\ \A c \in Clients : job'[c] # "wait"
    BY <2>2, <2>3, <2>4 DEF AtCaps, GrantedFirst
  <2> QED
    BY <2>2, <2>3, <2>4, <2>5, <2>6, <2>7, <2>8, GrantedFrame
<1>7. CASE AckCaps
  <2>1. upCap' = TRUE /\ UNCHANGED <<job, usable>>
    BY <1>7 DEF AckCaps
  <2>2. \A c \in Clients : job'[c] # "wait"
    BY <1>1, <2>1 DEF GrantedFirst
  <2> QED
    BY <2>1, <2>2 DEF GrantedFirst
<1>8. CASE New
  <2>1. /\ demux.todo = <<"new", "offer", "req">> /\ demux'.todo = <<"offer", "req">> /\ registered
        /\ demux.line.t \in {"NEW", "NEWx"} /\ demux'.line = demux.line
    BY <1>8, NewMoves
  <2>2. UNCHANGED <<offers, usable, registered, upCap, offer, mix, saslClient, job, q>>
    BY <1>8 DEF New, flags, ircd
  <2>3. GrantedFirst /\ Unsettled /\ Bare
    <3>1. GrantedFirst
      BY <1>1, <2>2
    <3>2. Unsettled
      BY <2>1 DEF Unsettled, NewComes
    <3> QED
      BY <1>2, <2>1, <3>1, <3>2
  <2>4. ~Has(q, {"901"}) /\ ~Has(q, {"DEL"})
    <3>1. ~Has(q, {"901", "DEL"} \cup Coming)
      BY <2>1 DEF Announced
    <3> QED
      BY <3>1 DEF Has
  <2>5. ~DelComes /\ ~LogoutComes /\ demux.todo # <<"offer", "delwaiters">>
    BY <2>1, <2>4 DEF DelComes, LogoutComes
  <2>6. ~upCap /\ ~bPending /\ ~loggedIn /\ ~offer /\ saslClient = "none"
    BY <1>3, <2>3, <2>5 DEF Bare
  <2>7. BouncerTries
    BY <2>6 DEF BouncerTries
  <2>8. demux.line.t = "NEW"
    BY <2>1, <2>2 DEF Announced
  <2>9. bFailed' = FALSE
    BY <1>8, <2>7, <2>8 DEF New
  <2>10. \A c \in Clients : job'[c] # "wait"
    BY <2>2, <2>3 DEF GrantedFirst
  <2>11. Led(q', {"ACK"}, {"904"})
    BY <1>3, <2>2, <2>3, HasNoneOf
  <2> QED
    BY <1>3, <2>1, <2>2, <2>3, <2>6, <2>8, <2>9, <2>10, <2>11 DEF GrantedFirst
<1>9. CASE Del
  <2>1. /\ demux.todo = <<"del", "offer", "delwaiters">> /\ demux'.todo = <<"offer", "delwaiters">>
        /\ demux'.line = demux.line /\ demux.line.t = "DEL" /\ registered
    BY <1>9, DelMoves
  <2>2. UNCHANGED <<offers, registered, q, mix, saslClient, job>>
    BY <1>9 DEF Del, flags, ircd
  <2>3. Unsettled
    BY <2>1 DEF Announced, DelComes
  <2>4. Bare
    BY <1>2, <2>1, <2>3
  <2>5. Unsettled'
    BY <2>1, <2>2, <2>3 DEF Unsettled, NewComes
  <2>6. Led(q', {"ACK"}, {"904"})
    BY <1>3, <2>2, <2>4, HasNoneOf
  <2>7. /\ \A c \in Clients : job'[c] # "wait"
        /\ saslClient' = "none" /\ mix' = {} /\ demux'.line.t # "904" /\ registered'
    BY <1>3, <2>1, <2>2, <2>4
  <2> QED
    BY <2>1, <2>5, <2>6, <2>7 DEF GrantedFirst
<1>10. CASE Offer
  <2>1. /\ demux.todo \in {<<"offer", "ackwaiters">>, <<"offer", "req">>, <<"offer", "delwaiters">>, <<"offer">>}
        /\ demux'.todo \in {<<"ackwaiters">>, <<"req">>, <<"delwaiters">>, <<>>}
        /\ registered
    BY <1>10, OfferMoves
  <2>2. UNCHANGED <<offers, usable, registered, q, upCap, bFailed, avail, mix, saslClient, job>>
    BY <1>10 DEF Offer, ircd
  <2>3. GrantedFirst
    BY <1>1, <2>2
  <2>4. /\ demux.todo # <<"new", "offer", "req">> /\ demux.todo # <<"del", "offer", "delwaiters">>
        /\ demux.todo \notin {<<"caps", "owner">>, <<"caps", "owner", "offer", "ackwaiters">>}
    BY <2>1
  <2>5. demux'.todo \notin {<<"account">>, <<"outcome", "offer">>} /\ demux'.todo # <<"new", "offer", "req">>
    <3>1. demux'.todo \in Moved
      BY <2>1 DEF Moved
    <3> QED
      BY <3>1, AtCapsNot, NotLeft
  <2>6. Unsettled' <=> Unsettled
    BY <2>2, <2>4, <2>5 DEF Unsettled, NewComes
  <2>7. DelComes => DelComes'
    BY <2>2, <2>4 DEF DelComes
  <2>8. ~AtCaps /\ \A c \in Clients : job'[c] # "wait"
    BY <2>2, <2>3, <2>4 DEF AtCaps, GrantedFirst
  <2>9. offer' => avail /\ bFailed
    BY <1>10 DEF Offer, refreshSASLOffer, bouncerOwnsSASL
  <2>10. ASSUME offer', ~upCap' PROVE DelComes'
    <3>1. Unsettled
      BY <2>1, <2>2, <2>3, <2>9, <2>10 DEF GrantedFirst
    <3>2. Bare
      BY <1>2, <2>1, <3>1
    <3>3. DelComes
      BY <2>9, <2>10, <3>2 DEF Bare
    <3> QED
      BY <2>7, <3>3
  <2>11. saslClient' # "none" => upCap'
    BY <2>2, <2>3 DEF GrantedFirst
  <2>12. bFailed' /\ (registered' => ~Unsettled') => upCap'
    BY <2>2, <2>3, <2>6 DEF GrantedFirst
  <2>13. upCap' \/ Led(q', {"ACK"}, {"904"})
    BY <2>2, <2>3, <2>8 DEF GrantedFirst
  <2>14. Bouncer \in mix' => upCap' \/ Has(q', {"ACK"})
    BY <2>2, <2>3, <2>8 DEF GrantedFirst
  <2> QED
    BY <2>5, <2>8, <2>10, <2>11, <2>12, <2>13, <2>14 DEF GrantedFirst
\* The outcomes.
<1>11. CASE Account \/ Outcome
  <2>1. /\ demux.todo \in {<<"account">>, <<"outcome", "offer">>}
        /\ demux'.todo \in {<<>>, <<"offer">>}
    BY <1>11, AccountMoves, OutcomeMoves
  <2>2. UNCHANGED <<offers, usable, registered, q, upCap, offer, mix, job>> /\ (saslClient' # "none" => saslClient' = saslClient)
    BY <1>11 DEF Account, Outcome, ircd
  <2>3. GrantedFirst
    BY <1>1, <2>2
  <2>4. /\ demux.todo # <<"new", "offer", "req">> /\ demux.todo # <<"del", "offer", "delwaiters">>
        /\ demux.todo # <<"offer", "delwaiters">>
        /\ demux.todo \notin {<<"caps", "owner">>, <<"caps", "owner", "offer", "ackwaiters">>}
    BY <2>1
  <2>5. demux'.todo \notin {<<"account">>, <<"outcome", "offer">>}
    BY <2>1
  <2>6. Unsettled => Unsettled'
    BY <2>2, <2>4 DEF Unsettled, NewComes
  <2>7. DelComes => DelComes'
    BY <2>2, <2>4 DEF DelComes
  <2>8. ~AtCaps /\ \A c \in Clients : job'[c] # "wait"
    BY <2>2, <2>3, <2>4 DEF AtCaps, GrantedFirst
  <2>9. bFailed' => bFailed \/ demux.line.t = "904"
    <3>1. Account => (bFailed' => bFailed \/ demux.line.t = "904")
      BY DEF Account, FailedAfter
    <3>2. Outcome => (bFailed' => bFailed \/ demux.line.t = "904")
      BY DEF Outcome, FailedAfter
    <3> QED
      BY <1>11, <3>1, <3>2
  <2>10. bFailed' /\ (registered' => ~Unsettled') => upCap'
    <3>1. demux.line.t = "904" => upCap
      BY <2>1, <2>3 DEF GrantedFirst
    <3>2. bFailed /\ (registered => ~Unsettled) => upCap
      BY <2>3 DEF GrantedFirst
    <3> QED
      BY <2>2, <2>6, <2>9, <3>1, <3>2
  <2>11. saslClient' # "none" => upCap'
    BY <2>2, <2>3 DEF GrantedFirst
  <2>12. offer' /\ ~upCap' => DelComes'
    BY <2>2, <2>3, <2>4, <2>7 DEF GrantedFirst
  <2>13. upCap' \/ Led(q', {"ACK"}, {"904"})
    BY <2>2, <2>3, <2>8 DEF GrantedFirst
  <2>14. Bouncer \in mix' => upCap' \/ Has(q', {"ACK"})
    BY <2>2, <2>3, <2>8 DEF GrantedFirst
  <2> QED
    BY <2>5, <2>8, <2>10, <2>11, <2>12, <2>13, <2>14 DEF GrantedFirst
<1>12. CASE completeRegistration
  <2>1. /\ demux.todo = <<"complete", "offer">> /\ demux'.todo = <<"offer">> /\ demux.line.t = "376"
        /\ demux'.line = demux.line
    BY <1>12, CompleteMoves
  <2>2. UNCHANGED <<usable, q, upCap, offer, mix, saslClient, job>> /\ bFailed' = (bFailed \/ bPending)
    BY <1>12 DEF completeRegistration, ircd
  <2>3. ~registered
    BY <2>1 DEF Begins
  <2>4. q = <<>> /\ (bPending => upCap) /\ ~offer
    BY <2>1, <2>3 DEF Begins
  <2>5. bFailed => upCap
    BY <1>1, <2>2, <2>3 DEF GrantedFirst
  <2>6. Led(q', {"ACK"}, {"904"})
    BY <2>2, <2>4, HasNone, HasNoneOf
  <2>7. saslClient' = "none" /\ mix' = {} /\ \A c \in Clients : job'[c] # "wait"
    BY <1>0, <2>2, <2>3
  <2>8. (bFailed' => upCap') /\ ~offer' /\ demux'.line.t # "904"
    BY <2>1, <2>2, <2>4, <2>5
  <2> QED
    BY <2>6, <2>7, <2>8 DEF GrantedFirst
<1>13. CASE HandleDisconnect
  <2>0. \A c \in Clients : job[c] = "idle"
    BY <1>0, <1>13, Untroubled
  <2>1. /\ q' = <<>> /\ mix' = {} /\ saslClient' = "none" /\ ~bFailed' /\ ~offer' /\ demux' = demux
        /\ \A c \in Clients : job'[c] # "wait"
        /\ demux.line.t = ""
    BY <2>0, <1>13 DEF HandleDisconnect
  <2>2. Led(q', {"ACK"}, {"904"})
    BY <2>1, HasNone, HasNoneOf
  <2>3. demux'.line.t # "904"
    BY <2>1
  <2> QED
    BY <2>1, <2>2, <2>3 DEF GrantedFirst
<1>14. CASE Connect
  <2>1. ~registered /\ demux.line.t = "" /\ q = <<>> /\ UNCHANGED <<flags, demux, mix, saslClient, job>>
    BY <1>14 DEF Connect, Base, Alone
  <2>2. PICK s \in Registration : q' = [i \in 1 .. Len(s) |-> Line(s[i])]
    BY <1>14 DEF Connect
  <2>3. Led(q', {"ACK"}, {"904"})
    BY <2>2, HelloClosed
  <2>4. ~bFailed /\ ~offer
    BY <2>1 DEF Begins
  <2>5. /\ mix' = {} /\ saslClient' = "none" /\ ~bFailed' /\ ~offer' /\ demux'.line.t # "904"
        /\ \A c \in Clients : job'[c] # "wait"
    BY <1>0, <2>1, <2>4 DEF flags
  <2> QED
    BY <2>3, <2>5 DEF GrantedFirst
<1>15. ASSUME NEW c \in Clients, Attach(c) \/ notifyAttachCaps(c) \/ SendNew(c) \/ RequestClientSASL(c) \/ WaitForAck(c)
                 \/ forwardClientAuthenticate(c) \/ Authenticate(c) \/ Detach(c)
       PROVE  GrantedFirst'
  <2>1. UNCHANGED <<flags, demux, q, usable, offers>>
    BY <1>15, Others
  <2>2. GrantedFirst
    BY <1>1, <2>1
  <2>3. (Unsettled' <=> Unsettled) /\ (DelComes' <=> DelComes) /\ (AtCaps' <=> AtCaps)
    BY <2>1 DEF Unsettled, NewComes, DelComes, AtCaps
  <2>4. Bouncer \in mix' => Bouncer \in mix
    <3>1. mix' \subseteq mix \cup {c}
      BY <1>15 DEF Attach, notifyAttachCaps, SendNew, RequestClientSASL, WaitForAck, forwardClientAuthenticate, Authenticate,
                   Detach, ircd
    <3> QED
      BY <3>1, SaslAssumption
  <2>5. \A d \in Clients : job'[d] # "wait"
    <3>1. ASSUME RequestClientSASL(c), offer, ~upCap PROVE FALSE
      <4>1. Settled
        BY <1>0, <3>1, Untroubled
      <4>2. ~DelComes /\ demux.todo # <<"offer", "delwaiters">>
        BY <4>1, SettledMeans
      <4> QED
        BY <2>2, <3>1, <4>2 DEF GrantedFirst
    <3>2. \A d \in Clients : job'[d] = "wait" => job[d] = "wait"
      BY <1>0, <1>15, <3>1 DEF Attach, notifyAttachCaps, SendNew, RequestClientSASL, WaitForAck, forwardClientAuthenticate,
                               Authenticate, Detach
    <3> QED
      BY <2>2, <3>2 DEF GrantedFirst
  <2>6. saslClient' # "none" => upCap'
    <3>1. CASE forwardClientAuthenticate(c)
      <4>1. Settled /\ bFailed
        BY <1>0, <3>1, Untroubled DEF forwardClientAuthenticate, MayDrive, bouncerOwnsSASL
      <4>2. ~Unsettled
        BY <4>1, SettledMeans
      <4>3. upCap
        BY <2>2, <4>1, <4>2 DEF GrantedFirst
      <4> QED
        BY <2>1, <4>3 DEF flags
    <3>2. CASE ~forwardClientAuthenticate(c)
      <4>1. saslClient' # "none" => saslClient' = saslClient
        BY <1>15, <3>2 DEF Attach, notifyAttachCaps, SendNew, RequestClientSASL, WaitForAck, Authenticate, Detach
      <4> QED
        BY <2>1, <2>2, <4>1 DEF GrantedFirst, flags
    <3> QED
      BY <3>1, <3>2
  <2>7. /\ bFailed' /\ (registered' => ~Unsettled') => upCap'
        /\ upCap' \/ AtCaps' \/ Led(q', {"ACK"}, {"904"})
    BY <2>1, <2>2, <2>3 DEF GrantedFirst, flags
  <2>8. offer' /\ ~upCap' => DelComes' \/ demux'.todo = <<"offer", "delwaiters">>
    BY <2>1, <2>2, <2>3 DEF GrantedFirst, flags
  <2>9. demux'.line.t = "904" /\ demux'.todo \in {<<"account">>, <<"outcome", "offer">>} => upCap'
    BY <2>1, <2>2 DEF GrantedFirst, flags
  <2>10. Bouncer \in mix' => upCap' \/ AtCaps' \/ Has(q', {"ACK"})
    BY <2>1, <2>2, <2>3, <2>4 DEF GrantedFirst, flags
  <2> QED
    BY <2>5, <2>6, <2>7, <2>8, <2>9, <2>10, Zenon DEF GrantedFirst
\* What is granted and what went before it come in their order.
<1>16. ASSUME NEW u \in Seq(Lines), Adds(u), UNCHANGED <<flags, demux, usable, saslClient, job>>,
              ~Has(u, {"901", "DEL", "NEW", "NEWx"}), offers' # "none" \/ offers' = offers,
              offers # "none" \/ offers' = offers,
              upCap \/ AtCaps \/ Has(q, {"ACK"}) \/ ~Has(u, {"904"}),
              Bouncer \in mix' => Bouncer \in mix \/ Has(u, {"ACK"})
       PROVE  GrantedFirst'
  <2>1. GrantedFirst
    BY <1>1, <1>16
  <2>2. ~Has(u, {"NEW", "NEWx"}) /\ ~Has(u, {"DEL"})
    BY <1>16 DEF Has
  <2>3. /\ Has(q', {"NEW", "NEWx"}) <=> Has(q, {"NEW", "NEWx"})
        /\ Has(q', {"DEL"}) <=> Has(q, {"DEL"})
        /\ Has(q', {"ACK"}) <=> Has(q, {"ACK"}) \/ Has(u, {"ACK"})
    BY <1>16, <2>2 DEF Adds
  <2>4. (Unsettled' <=> Unsettled) /\ (DelComes' <=> DelComes) /\ (AtCaps' <=> AtCaps)
    BY <1>16, <2>3 DEF Unsettled, NewComes, DelComes, AtCaps
  <2>5. upCap' \/ AtCaps' \/ Led(q', {"ACK"}, {"904"})
    <3>1. upCap \/ AtCaps \/ (Led(q, {"ACK"}, {"904"}) /\ (Has(q, {"ACK"}) \/ ~Has(u, {"904"})))
      BY <1>16, <2>1 DEF GrantedFirst
    <3>2. Led(q, {"ACK"}, {"904"}) /\ (Has(q, {"ACK"}) \/ ~Has(u, {"904"})) => Led(q \o u, {"ACK"}, {"904"})
      BY <1>0, <1>16, OrderJoin
    <3>3. q' = q \o u
      BY <1>16 DEF Adds
    <3> QED
      BY <1>16, <2>4, <3>1, <3>2, <3>3 DEF flags
  <2>6. Bouncer \in mix' => upCap' \/ AtCaps' \/ Has(q', {"ACK"})
    BY <1>16, <2>1, <2>3, <2>4 DEF GrantedFirst, flags
  <2>7. \A c \in Clients : job'[c] # "wait"
    BY <1>16, <2>1 DEF GrantedFirst
  <2>8. /\ saslClient' # "none" => upCap'
        /\ bFailed' /\ (registered' => ~Unsettled') => upCap'
    BY <1>16, <2>1, <2>4 DEF GrantedFirst, flags
  <2>9. offer' /\ ~upCap' => DelComes' \/ demux'.todo = <<"offer", "delwaiters">>
    BY <1>16, <2>1, <2>4 DEF GrantedFirst, flags
  <2>10. demux'.line.t = "904" /\ demux'.todo \in {<<"account">>, <<"outcome", "offer">>} => upCap'
    BY <1>16, <2>1 DEF GrantedFirst, flags
  <2> QED
    BY <2>5, <2>6, <2>7, <2>8, <2>9, <2>10, Zenon DEF GrantedFirst
<1>17. CASE AnswerReq
  <2>1. PICK t \in {"ACK", "NAK"} : /\ Adds(<<Line(t)>>) /\ \A T : Has(<<Line(t)>>, T) <=> t \in T
                                    /\ t = "ACK" => offers # "none" /\ offers' = "granted"
                                    /\ t = "NAK" => UNCHANGED <<offers, mix>>
    BY <1>17, AnswerSaid DEF Base
  <2>2. UNCHANGED <<flags, demux, usable, saslClient, job>>
    BY <1>17 DEF AnswerReq
  <2>3. <<Line(t)>> \in Seq(Lines)
    BY <2>1, OneLine DEF LineTypes
  <2>4. ~Has(<<Line(t)>>, {"901", "DEL", "NEW", "NEWx"}) /\ ~Has(<<Line(t)>>, {"904"})
    BY <2>1
  <2>5. Bouncer \in mix' => Bouncer \in mix \/ Has(<<Line(t)>>, {"ACK"})
    BY <2>1
  <2>6. (offers' # "none" \/ offers' = offers) /\ (offers # "none" \/ offers' = offers)
    BY <2>1
  <2> QED
    BY <1>16, <2>1, <2>2, <2>3, <2>4, <2>5, <2>6
<1>18. CASE EndExchange
  <2>1. PICK u \in Seq(Lines) : Adds(u) /\ ~Has(u, {"901", "DEL", "NEW", "NEWx"})
    BY <1>18, EndSays
  <2>2. UNCHANGED <<flags, demux, usable, offers, saslClient, job>> /\ mix # {} /\ mix' = {}
    BY <1>18 DEF EndExchange
  <2>3. upCap \/ AtCaps \/ Has(q, {"ACK"})
    <3>1. GrantedFirst
      BY <1>1, <2>2
    <3>2. mix = {Holder}
      BY <2>2 DEF Held
    <3>3. CASE saslClient = "none"
      BY <3>1, <3>2, <3>3 DEF GrantedFirst, Holder
    <3>4. CASE saslClient # "none"
      BY <3>1, <3>4 DEF GrantedFirst
    <3> QED
      BY <3>3, <3>4
  <2> QED
    BY <1>16, <2>1, <2>2, <2>3
<1>19. CASE Services
  <2>0. UNCHANGED <<demux, flags, saslClient, job>> /\ registered
    BY <1>19 DEF Services
  <2>1. CASE /\ offers = "none" /\ mix' = mix
             /\ \E t \in {"NEW", "NEWx"} : Adds(<<Line(t)>>) /\ \A T : Has(<<Line(t)>>, T) <=> t \in T
    <3>1. PICK t \in {"NEW", "NEWx"} : Adds(<<Line(t)>>) /\ \A T : Has(<<Line(t)>>, T) <=> t \in T
      BY <2>1
    <3>2. Bare
      BY <1>2, <2>0, <2>1 DEF Unsettled
    <3>3. ~Has(q', {"904"}) /\ Has(q', {"NEW", "NEWx"}) /\ (Has(q', {"DEL"}) <=> Has(q, {"DEL"}))
      BY <1>3, <3>1, <3>2 DEF Adds
    <3>4. Led(q', {"ACK"}, {"904"})
      BY <3>3, HasNoneOf
    <3>5. Unsettled' /\ (DelComes' <=> DelComes) /\ registered'
      BY <2>0, <3>3 DEF Unsettled, NewComes, DelComes, flags
    <3>6. /\ \A c \in Clients : job'[c] # "wait"
          /\ saslClient' = "none" /\ mix' = {} /\ demux'.line.t # "904"
      BY <1>3, <2>0, <2>1, <3>2 DEF Busy
    <3>7. offer' => DelComes' \/ demux'.todo = <<"offer", "delwaiters">>
      BY <2>0, <3>2, <3>5 DEF Bare, flags
    <3> QED
      BY <3>4, <3>5, <3>6, <3>7 DEF GrantedFirst
  <2>2. CASE /\ offers' = "none" /\ mix' = {} /\ saslClient = "none" /\ Quiet
             /\ Adds(<<Line("901"), Line("DEL")>>)
             /\ \A T : Has(<<Line("901"), Line("DEL")>>, T) <=> ("901" \in T \/ "DEL" \in T)
    <3>1. q = <<>> /\ demux.line.t = "" /\ \A c \in Clients : job[c] = "idle"
      BY <2>2 DEF Quiet
    <3>2. ~Has(q', {"904"}) /\ Has(q', {"DEL"})
      BY <2>2, <3>1, HasNone DEF Adds
    <3>3. DelComes' /\ Unsettled' /\ registered'
      BY <2>0, <2>2, <3>2 DEF DelComes, Unsettled, flags
    <3>4. Led(q', {"ACK"}, {"904"})
      BY <3>2, HasNoneOf
    <3>5. /\ \A c \in Clients : job'[c] # "wait"
          /\ saslClient' = "none" /\ mix' = {} /\ demux'.line.t # "904"
      BY <2>0, <2>2, <3>1
    <3> QED
      BY <3>3, <3>4, <3>5 DEF GrantedFirst
  <2> QED
    BY <1>0, <1>19, <2>1, <2>2, ServicesSaid DEF Base
<1>20. CASE UNCHANGED vars
  BY <1>1, <1>20 DEF vars, flags, ircd, GrantedFirst, AtCaps, DelComes, Unsettled, NewComes
<1> QED
  BY <1>5, <1>6, <1>7, <1>8, <1>9, <1>10, <1>11, <1>12, <1>13, <1>14, <1>15, <1>17, <1>18, <1>19, <1>20 DEF Next

LEMMA StageLineNext ==
  ASSUME DemuxOK'
  PROVE  /\ demux'.todo = <<"offer", "req">> \/ demux'.todo = <<"req">> => demux'.line.t \in {"NEW", "NEWx"}
         /\ demux'.todo = <<"outcome", "offer">> => demux'.line.t \in {"903", "904"}
<1>1. ASSUME demux'.todo = <<"offer", "req">> PROVE demux'.line.t \in {"NEW", "NEWx"}
  BY <1>1 DEF DemuxOK
<1>2. ASSUME demux'.todo = <<"req">> PROVE demux'.line.t \in {"NEW", "NEWx"}
  BY <1>2 DEF DemuxOK
<1>3. ASSUME demux'.todo = <<"outcome", "offer">> PROVE demux'.line.t \in {"903", "904"}
  BY <1>3 DEF DemuxOK
<1> QED
  BY <1>1, <1>2, <1>3

\* Without a registration there is no exchange to speak of.
LEMMA HeldFresh ==
  ASSUME Base', Fair', ~registered'
  PROVE  Held'
<1>1. /\ saslClient' = "none" /\ reqs' = 0 /\ mix' = {} /\ (\A c \in Clients : job'[c] = "idle")
      /\ demux'.line.t \notin {"NEW", "NEWx"}
  BY DEF Base, Alone, Fair
<1>2. ~Trying'
  <2>1. demux'.todo # <<"offer", "req">> /\ demux'.todo # <<"req">>
    BY <1>1, StageLineNext DEF Base
  <2> QED
    BY <2>1 DEF Trying
<1>3. ~BouncerActs'
  BY <1>1, <1>2 DEF BouncerActs
<1> QED
  BY <1>1, <1>2, <1>3 DEF Held, Holder

\* Nor is there one while nobody asks for sasl.
LEMMA HeldClean ==
  ASSUME Clean', demux'.todo # <<"outcome", "offer">>,
         Trying' => own' /\ usable' /\ ~bFailed'
  PROVE  Held'
<1>1. /\ mix' = {} /\ reqs' = 0 /\ saslClient' = "none" /\ (\A c \in Clients : job'[c] # "write")
      /\ ~Has(q', Busy)
  BY DEF Clean
<1>2. ~Has(q', {"903", "904"}) /\ ~Has(q', Outcomes)
  BY <1>1, Smaller DEF Busy, Outcomes
<1>3. ~OutcomeComes'
  BY <1>2 DEF OutcomeComes
<1>4. BouncerActs' => Trying'
  BY <1>1, <1>3 DEF BouncerActs
<1>5. Ordered(q', Outcomes, Outcomes) /\ Of(q', Outcomes, {Holder'})
  BY <1>2, HasNoneOf
<1> QED
  BY <1>1, <1>3, <1>4, <1>5 DEF Held

LEMMA HeldUnsettled ==
  ASSUME Base', Announced', Forgotten', registered', Unsettled'
  PROVE  Held'
<1>1. Clean'
  BY DEF Forgotten, Bare
<1>2. demux'.todo # <<"outcome", "offer">>
  <2>1. demux'.line.t \notin {"903", "904"}
    BY <1>1 DEF Clean, Busy
  <2> QED
    BY <2>1, StageLineNext DEF Base
<1>3. ~Trying'
  BY DEF Announced
<1> QED
  BY <1>1, <1>2, <1>3, HeldClean

LEMMA HeldFrame ==
  ASSUME Held, registered, UNCHANGED <<registered, own, usable, saslClient, mix, q>>,
         bFailed' => bFailed, Trying' => Trying,
         \A c \in Clients : job'[c] = "write" => job[c] = "write",
         saslClient # "none" => saslClient \in downlinks',
         own /\ usable /\ reqs' > 0 => reqs' = reqs, Trying => reqs' = reqs,
         demux'.todo = <<"outcome", "offer">> => demux.todo = <<"outcome", "offer">> /\ demux'.line = demux.line
  PROVE  Held'
<1>1. OutcomeComes' => OutcomeComes
  BY DEF OutcomeComes
<1>2. Holder' = Holder
  BY DEF Holder
<1>3. BouncerActs' => BouncerActs
  BY <1>1 DEF BouncerActs
<1>4. /\ BouncerActs => own /\ usable /\ ~bFailed /\ saslClient = "none"
      /\ Trying => reqs = 0 /\ mix = {} /\ ~OutcomeComes
      /\ own /\ usable /\ reqs > 0 => reqs = 1 /\ mix = {} /\ ~OutcomeComes
      /\ OutcomeComes => mix = {} /\ \A c \in Clients : job[c] # "write"
  BY DEF Held
<1>5. BouncerActs' => own' /\ usable' /\ ~bFailed' /\ saslClient' = "none"
  BY <1>3, <1>4
<1>6. Trying' => reqs' = 0 /\ mix' = {} /\ ~OutcomeComes'
  BY <1>1, <1>4
<1>7. own' /\ usable' /\ reqs' > 0 => reqs' = 1 /\ mix' = {} /\ ~OutcomeComes'
  BY <1>1, <1>4
<1>8. OutcomeComes' => mix' = {} /\ \A c \in Clients : job'[c] # "write"
  BY <1>1, <1>4
<1>9. /\ mix' \subseteq {Holder'}
      /\ \A c \in Clients : job'[c] = "write" => saslClient' = c
      /\ saslClient' # "none" => saslClient' \in downlinks'
  BY <1>2 DEF Held
<1>10. /\ Ordered(q', Outcomes, Outcomes) /\ Of(q', Outcomes, {Holder'})
       /\ demux'.todo = <<"outcome", "offer">> => ~Has(q', Outcomes) /\ demux'.line.of = {Holder'}
  BY <1>2 DEF Held
<1> QED
  BY <1>5, <1>6, <1>7, <1>8, <1>9, <1>10 DEF Held

LEMMA HeldStep ==
  ASSUME Base, Begins, Came, Driven, Announced, Forgotten, Granted, Held, Fair, Fair', [Next]_vars,
         Base', Announced', Forgotten'
  PROVE  Held'
<1> SUFFICES ASSUME registered', ~Unsettled' PROVE Held'
  BY HeldFresh, HeldUnsettled
<1>0. /\ q \in Seq(Lines) /\ registered \in BOOLEAN /\ (demux.line.t = "" => demux.todo = <<>>)
      /\ job \in [Clients -> {"idle", "announce", "tell", "wait", "write"}]
      /\ ~registered => saslClient = "none" /\ reqs = 0 /\ mix = {} /\ \A c \in Clients : job[c] = "idle"
      /\ upCap \in BOOLEAN /\ bFailed \in BOOLEAN /\ own \in BOOLEAN /\ usable \in BOOLEAN
      /\ mix \subseteq Parties /\ reqs \in Nat /\ driving \in BOOLEAN
      /\ saslClient \in Clients \cup {"none"} /\ downlinks \subseteq Clients
  <2>1. "lost" \notin met
    BY DEF Fair
  <2>2. ~registered => saslClient = "none" /\ reqs = 0 /\ mix = {} /\ \A c \in Clients : job[c] = "idle"
    BY <2>1 DEF Base, TypeOK, Alone
  <2>3. demux.line.t = "" => demux.todo = <<>>
    BY DEF Base, Alone
  <2> QED
    BY <2>2, <2>3 DEF Base, TypeOK
<1>u. "del" \notin met /\ {"del", "race", "leave", "late", "lost"} \cap met' = {}
  BY DEF Fair
<1>1. saslClient # "none" => saslClient \in downlinks
  BY DEF Held
<1>2. own' = own
  BY Fixed
<1>3. ASSUME registered
      PROVE  /\ OutcomeComes => mix = {} /\ \A c \in Clients : job[c] # "write"
             /\ Ordered(q, Outcomes, Outcomes) /\ Of(q, Outcomes, {Holder})
             /\ demux.todo = <<"outcome", "offer">> => ~Has(q, Outcomes) /\ demux.line.of = {Holder}
  BY <1>3 DEF Held
<1>4. /\ BouncerActs => own /\ usable /\ ~bFailed /\ saslClient = "none"
      /\ Trying => reqs = 0 /\ mix = {} /\ ~OutcomeComes
      /\ own /\ usable /\ reqs > 0 => reqs = 1 /\ mix = {} /\ ~OutcomeComes
      /\ mix \subseteq {Holder}
      /\ \A c \in Clients : job[c] = "write" => saslClient = c
  BY DEF Held
<1>5. CASE Take
  <2>1. /\ demux.todo = <<>> /\ q # <<>> /\ q' = Tail(q) /\ demux'.line = Head(q)
        /\ demux'.todo = StepsOf(Head(q).t) /\ \A T : Has(q, T) <=> (Head(q).t \in T \/ Has(q', T))
    BY <1>5, TakeMoves
  <2>2. UNCHANGED <<offers, usable, registered, bFailed, reqs, mix, saslClient, downlinks, job>> /\ registered
    BY <1>5 DEF Take, flags, ircd
  <2>3. ~Trying'
    BY <2>1, StepsStart, NotLeft DEF Trying
  <2>4. OutcomeComes' => OutcomeComes
    <3>1. demux'.todo = <<"outcome", "offer">> => Head(q).t \in {"903", "904"}
      BY <2>1, StepsSay DEF Outcomes
    <3> QED
      BY <2>1, <3>1 DEF OutcomeComes
  <2>5. Holder' = Holder
    BY <2>2 DEF Holder
  <2>6. BouncerActs' => BouncerActs
    BY <1>2, <2>2, <2>3, <2>4 DEF BouncerActs
  <2>7. /\ Ordered(q', Outcomes, Outcomes) /\ Of(q', Outcomes, {Holder'})
        /\ demux'.todo = <<"outcome", "offer">> => ~Has(q', Outcomes) /\ demux'.line.of = {Holder'}
    <3>1. /\ Ordered(q', Outcomes, Outcomes) /\ Of(q', Outcomes, {Holder})
          /\ Head(q).t \in Outcomes => ~Has(q', Outcomes) /\ Head(q).of = {Holder}
      BY <1>0, <1>3, <2>1, <2>2, OrderTail, OfTail
    <3>2. demux'.todo = <<"outcome", "offer">> => Head(q).t \in Outcomes
      BY <2>1, StepsSay
    <3> QED
      BY <2>1, <2>5, <3>1, <3>2
  <2>8. BouncerActs' => own' /\ usable' /\ ~bFailed' /\ saslClient' = "none"
    BY <1>2, <1>4, <2>2, <2>6
  <2>9. own' /\ usable' /\ reqs' > 0 => reqs' = 1 /\ mix' = {} /\ ~OutcomeComes'
    BY <1>2, <1>4, <2>2, <2>4
  <2>10. OutcomeComes' => mix' = {} /\ \A c \in Clients : job'[c] # "write"
    BY <1>3, <2>2, <2>4
  <2>11. /\ mix' \subseteq {Holder'}
         /\ \A c \in Clients : job'[c] = "write" => saslClient' = c
         /\ saslClient' # "none" => saslClient' \in downlinks'
    BY <1>1, <1>4, <2>2, <2>5
  <2> QED
    BY <2>3, <2>7, <2>8, <2>9, <2>10, <2>11 DEF Held
\* Steps of the demux that give nobody an exchange.
<1>6. CASE Done \/ Note \/ AckCaps \/ AckOwner \/ Waiters \/ Del \/ Offer
  <2>1. /\ demux'.todo \in {<<>>, <<"owner">>, <<"owner", "offer", "ackwaiters">>, <<"offer", "ackwaiters">>,
                            <<"offer", "delwaiters">>, <<"ackwaiters">>, <<"delwaiters">>, <<"offer">>}
           \/ (demux.todo = <<"offer", "req">> /\ demux'.todo = <<"req">> /\ demux'.had = demux.had)
    BY <1>6, DoneMoves, NoteMoves, CapsMoves, OwnerMoves, WaitersMoves, DelMoves, OfferMoves
  <2>2. UNCHANGED <<usable, registered, bFailed, reqs, mix, saslClient, downlinks, job, q>> /\ registered
    BY <1>6 DEF Done, Note, AckCaps, AckOwner, Waiters, Del, Offer, flags, ircd
  <2>3. (Trying' => Trying) /\ demux'.todo # <<"outcome", "offer">>
    <3>1. CASE demux'.todo \in {<<>>, <<"owner">>, <<"owner", "offer", "ackwaiters">>, <<"offer", "ackwaiters">>,
                                <<"offer", "delwaiters">>, <<"ackwaiters">>, <<"delwaiters">>, <<"offer">>}
      <4>1. demux'.todo \notin {<<"offer", "req">>, <<"req">>}
        BY <3>1
      <4>2. demux'.todo # <<"outcome", "offer">>
        BY <3>1
      <4> QED
        BY <4>1, <4>2 DEF Trying
    <3>2. CASE demux.todo = <<"offer", "req">> /\ demux'.todo = <<"req">> /\ demux'.had = demux.had
      <4>1. demux'.todo # <<"outcome", "offer">>
        BY <3>2
      <4> QED
        BY <3>2, <4>1 DEF Trying
    <3> QED
      BY <2>1, <3>1, <3>2
  <2>4. saslClient # "none" => saslClient \in downlinks'
    BY <1>1, <2>2
  <2> QED
    BY <1>2, <2>2, <2>3, <2>4, HeldFrame
\* A CAP NEW finds nobody who asks or uses it.
<1>7. CASE New
  <2>1. /\ demux.todo = <<"new", "offer", "req">> /\ demux'.todo = <<"offer", "req">> /\ registered
        /\ demux'.line = demux.line /\ demux.line.t \in {"NEW", "NEWx"}
        /\ demux'.had = ~(BouncerTries /\ demux.line.t = "NEW")
    BY <1>7, NewMoves
  <2>2. UNCHANGED <<usable, q, mix, reqs, saslClient, job>>
    BY <1>7 DEF New, ircd
  <2>3. Unsettled
    BY <2>1 DEF Unsettled, NewComes
  <2>4. Clean
    BY <2>1, <2>3 DEF Forgotten, Bare
  <2>5. Clean'
    BY <2>1, <2>2, <2>4 DEF Clean
  <2>6. ASSUME Trying' PROVE own' /\ usable' /\ ~bFailed'
    <3>1. BouncerTries /\ demux.line.t = "NEW"
      BY <2>1, <2>6 DEF Trying
    <3>2. own /\ bFailed' = FALSE
      BY <1>7, <3>1 DEF New, BouncerTries
    <3>3. usable
      BY <1>u, <2>1, <3>1 DEF Came, GoodComes
    <3> QED
      BY <1>2, <2>2, <3>2, <3>3
  <2>7. demux'.todo # <<"outcome", "offer">>
    BY <2>1
  <2> QED
    BY <2>5, <2>6, <2>7, HeldClean
<1>8. CASE NewReq
  <2>1. demux.todo = <<"req">> /\ demux'.todo = <<>>
    BY <1>8, ReqMoves
  <2>2. UNCHANGED <<usable, registered, bFailed, mix, saslClient, downlinks, job, q>> /\ registered
    BY <1>8 DEF NewReq, flags, ircd
  <2>3. ~Trying' /\ demux'.todo # <<"outcome", "offer">> /\ demux.todo # <<"outcome", "offer">>
    <3>1. <<>> \notin {<<"offer", "req">>, <<"req">>, <<"outcome", "offer">>}
      OBVIOUS
    <3>2. demux.todo # <<"outcome", "offer">>
      BY <2>1
    <3> QED
      BY <2>1, <3>1, <3>2 DEF Trying
  <2>4. CASE demux.had \/ upCap
    <3>1. ~demux.had => ~Trying \/ reqs' = reqs
      BY <1>8, <2>4 DEF NewReq
    <3>2. reqs' = reqs
      BY <1>8, <2>4 DEF NewReq
    <3> QED
      BY <1>1, <1>2, <2>2, <2>3, <3>2, HeldFrame
  <2>5. CASE ~(demux.had \/ upCap)
    <3>1. Trying
      BY <2>1, <2>5 DEF Trying
    <3>2. reqs = 0 /\ mix = {} /\ ~OutcomeComes /\ own /\ usable /\ ~bFailed /\ saslClient = "none"
      BY <1>4, <3>1 DEF BouncerActs
    <3>3. reqs' = 1
      BY <1>8, <2>5, <3>2 DEF NewReq
    <3>4. ~OutcomeComes'
      BY <2>2, <2>3, <3>2 DEF OutcomeComes
    <3>5. own' /\ usable' /\ ~bFailed' /\ saslClient' = "none" /\ mix' = {}
      BY <1>2, <2>2, <3>2
    <3>6. \A c \in Clients : job'[c] = "write" => saslClient' = c
      BY <1>4, <2>2
    <3>7. Ordered(q', Outcomes, Outcomes) /\ Of(q', Outcomes, {Holder'})
      <4>1. ~Has(q', Outcomes)
        BY <3>4 DEF OutcomeComes, Outcomes
      <4> QED
        BY <4>1, HasNoneOf
    <3> QED
      BY <2>3, <3>3, <3>4, <3>5, <3>6, <3>7 DEF Held
  <2> QED
    BY <2>4, <2>5
<1>9. CASE Account
  <2>1. demux.todo = <<"account">> /\ demux'.todo = <<>>
    BY <1>9, AccountMoves
  <2>2. UNCHANGED <<usable, registered, reqs, mix, saslClient, downlinks, job, q>> /\ registered
    BY <1>9 DEF Account, flags, ircd
  <2>3. bFailed' => bFailed
    BY <1>9, <2>2 DEF Account
  <2>4. ~Trying' /\ demux'.todo # <<"outcome", "offer">>
    <3>1. <<>> \notin {<<"offer", "req">>, <<"req">>, <<"outcome", "offer">>}
      OBVIOUS
    <3> QED
      BY <2>1, <3>1 DEF Trying
  <2> QED
    BY <1>1, <1>2, <2>2, <2>3, <2>4, HeldFrame
\* The outcome is the last there is, and of nobody's exchange but the holder's.
<1>10. CASE Outcome
  <2>1. demux.todo = <<"outcome", "offer">> /\ demux'.todo \in {<<"offer">>, <<>>} /\ registered
    BY <1>10, OutcomeMoves
  <2>2. UNCHANGED <<usable, reqs, mix, downlinks, job, q>> /\ saslClient' \in {saslClient, "none"}
    BY <1>10 DEF Outcome, ircd
  <2>3. OutcomeComes
    BY <2>1 DEF OutcomeComes
  <2>4. mix' = {} /\ \A c \in Clients : job'[c] # "write"
    BY <1>3, <2>1, <2>2, <2>3
  <2>5. ~Has(q', Outcomes) /\ ~(own' /\ usable' /\ reqs' > 0)
    BY <1>2, <1>3, <1>4, <2>1, <2>2, <2>3
  <2>6. ~Trying' /\ demux'.todo # <<"outcome", "offer">>
    <3>1. <<"offer">> \notin {<<"offer", "req">>, <<"req">>} /\ <<>> \notin {<<"offer", "req">>, <<"req">>}
      OBVIOUS
    <3>2. demux'.todo # <<"outcome", "offer">>
      BY <2>1
    <3> QED
      BY <2>1, <3>1, <3>2 DEF Trying
  <2>7. ~OutcomeComes' /\ ~BouncerActs'
    BY <2>4, <2>5, <2>6 DEF OutcomeComes, Outcomes, BouncerActs
  <2>8. Ordered(q', Outcomes, Outcomes) /\ Of(q', Outcomes, {Holder'})
    BY <2>5, HasNoneOf
  <2>9. saslClient' # "none" => saslClient' \in downlinks'
    BY <1>1, <2>2
  <2> QED
    BY <2>4, <2>5, <2>6, <2>7, <2>8, <2>9 DEF Held
<1>11. CASE completeRegistration
  <2>1. /\ demux.todo = <<"complete", "offer">> /\ demux'.todo = <<"offer">> /\ demux.line.t = "376"
        /\ demux'.line = demux.line
    BY <1>11, CompleteMoves
  <2>2. UNCHANGED <<q, mix, reqs, saslClient, job>>
    BY <1>11 DEF completeRegistration, ircd
  <2>3. ~registered
    BY <2>1 DEF Begins
  <2>4. q = <<>>
    BY <2>1, <2>3 DEF Begins
  <2>5. ~Has(q', Busy) /\ demux'.line.t \notin Busy
    BY <2>1, <2>2, <2>4, HasNone DEF Busy
  <2>6. Clean'
    BY <1>0, <2>2, <2>3, <2>5 DEF Clean
  <2>7. ~Trying' /\ demux'.todo # <<"outcome", "offer">>
    BY <2>1 DEF Trying
  <2> QED
    BY <2>6, <2>7, HeldClean
<1>12. CASE HandleDisconnect \/ Connect
  BY <1>12 DEF HandleDisconnect, Connect, flags, Base, Alone
\* Clients that ask for nothing they could not have.
<1>13. ASSUME NEW c \in Clients, Attach(c) \/ notifyAttachCaps(c) \/ SendNew(c) \/ RequestClientSASL(c) \/ WaitForAck(c) \/ Detach(c)
       PROVE  Held'
  <2>1. UNCHANGED <<flags, demux, q, usable, offers>> /\ registered
    BY <1>13, Others, AfterRegistration
  <2>2. UNCHANGED mix
    BY <1>13 DEF Attach, notifyAttachCaps, SendNew, RequestClientSASL, WaitForAck, Detach, ircd
  <2>3. \A d \in Clients : job'[d] = "write" => job[d] = "write"
    BY <1>0, <1>13 DEF Attach, notifyAttachCaps, SendNew, RequestClientSASL, WaitForAck, Detach
  <2>4. saslClient' = saslClient /\ (saslClient # "none" => saslClient \in downlinks')
    <3>1. Detach(c) => saslClient # c
      BY <1>u, Untroubled
    <3> QED
      BY <1>0, <1>1, <1>13, <3>1 DEF Attach, notifyAttachCaps, SendNew, RequestClientSASL, WaitForAck, Detach
  <2>5. own /\ usable => ~WaitForAck(c)
    BY DEF WaitForAck, Granted, GrantedFirst
  <2>6. ~WaitForAck(c) => reqs' = reqs
    BY <1>13 DEF Attach, notifyAttachCaps, SendNew, RequestClientSASL, Detach
  <2>7. Trying => own /\ usable
    BY <1>4 DEF BouncerActs
  <2>8. Trying' => Trying
    BY <2>1 DEF Trying
  <2>9. (own /\ usable /\ reqs' > 0 => reqs' = reqs) /\ (Trying => reqs' = reqs)
    BY <2>5, <2>6, <2>7
  <2> QED
    BY <1>2, <2>1, <2>2, <2>3, <2>4, <2>8, <2>9, HeldFrame DEF flags
\* A client begins an exchange, or goes on with its own.
<1>14. ASSUME NEW c \in Clients, forwardClientAuthenticate(c) PROVE Held'
  <2>1. UNCHANGED <<flags, demux, q, usable, offers>> /\ registered
    BY <1>14, Others, AfterRegistration
  <2>2. /\ UNCHANGED <<mix, reqs, downlinks>> /\ saslClient' = c /\ c \in downlinks /\ saslClient \in {"none", c}
        /\ saslClient = c => c \in mix
        /\ ~(own /\ ~bFailed) /\ job' = [job EXCEPT ![c] = "write"] /\ c # "none"
    <3>1. saslClient = c => c \in mix
      BY <1>u, <1>14, Untroubled
    <3> QED
      BY <3>1, <1>14, SaslAssumption DEF forwardClientAuthenticate, MayDrive, bouncerOwnsSASL, ircd
  <2>3. ~BouncerActs
    BY <1>4, <2>2
  <2>4. ~OutcomeComes
    BY <1>3, <2>1, <2>2, <2>3 DEF BouncerActs
  <2>5. ~OutcomeComes' /\ (Trying' <=> Trying)
    BY <2>1, <2>4 DEF OutcomeComes, Trying
  <2>6. ~BouncerActs'
    BY <1>2, <2>1, <2>2, <2>3, <2>5 DEF BouncerActs
  <2>7. mix' \subseteq {Holder'}
    <3>1. Holder' = c
      BY <2>2 DEF Holder
    <3>2. CASE saslClient = c
      BY <1>4, <2>2, <3>1, <3>2 DEF Holder
    <3>3. CASE saslClient = "none"
      BY <1>4, <2>2, <2>3, <3>3 DEF Holder, BouncerActs
    <3> QED
      BY <2>2, <3>2, <3>3
  <2>8. \A d \in Clients : job'[d] = "write" => saslClient' = d
    <3> SUFFICES ASSUME NEW d \in Clients, job'[d] = "write", d # c PROVE FALSE
      BY <2>2
    <3>1. job[d] = "write"
      BY <1>0, <2>2
    <3>2. saslClient = d /\ d # "none"
      BY <1>4, <3>1, SaslAssumption
    <3> QED
      BY <2>2, <3>2
  <2>9. ~Has(q', Outcomes) /\ demux'.todo # <<"outcome", "offer">>
    BY <2>5 DEF OutcomeComes, Outcomes
  <2>10. Ordered(q', Outcomes, Outcomes) /\ Of(q', Outcomes, {Holder'})
    BY <2>9, HasNoneOf
  <2>11. ~Trying' /\ ~(own' /\ usable' /\ reqs' > 0) /\ saslClient' \in downlinks'
    BY <2>2, <2>6 DEF BouncerActs
  <2> QED
    BY <2>5, <2>6, <2>7, <2>8, <2>9, <2>10, <2>11 DEF Held
<1>15. ASSUME NEW c \in Clients, Authenticate(c) PROVE Held'
  <2>1. UNCHANGED <<flags, demux, q, usable, offers>> /\ registered
    BY <1>15, Others, AfterRegistration
  <2>2. /\ UNCHANGED <<reqs, downlinks, saslClient>> /\ job[c] = "write" /\ job' = [job EXCEPT ![c] = "idle"]
        /\ mix' \subseteq mix \cup {c}
    BY <1>15 DEF Authenticate, ircd
  <2>3. saslClient = c /\ c # "none" /\ c # Bouncer
    BY <1>4, <2>2, SaslAssumption
  <2>4. Holder' = c /\ Holder = c
    BY <2>2, <2>3 DEF Holder
  <2>5. ~BouncerActs /\ ~OutcomeComes
    BY <1>3, <1>4, <2>1, <2>2, <2>3
  <2>6. ~OutcomeComes' /\ (Trying' <=> Trying)
    BY <2>1, <2>5 DEF OutcomeComes, Trying
  <2>7. Bouncer \in mix' => Bouncer \in mix
    BY <2>2, <2>3
  <2>8. ~BouncerActs'
    BY <1>2, <2>1, <2>2, <2>5, <2>6, <2>7 DEF BouncerActs
  <2>9. ~Has(q', Outcomes) /\ demux'.todo # <<"outcome", "offer">>
    BY <2>6 DEF OutcomeComes, Outcomes
  <2>10. Ordered(q', Outcomes, Outcomes) /\ Of(q', Outcomes, {Holder'})
    BY <2>9, HasNoneOf
  <2>11. ~Trying' /\ ~(own' /\ usable' /\ reqs' > 0)
    BY <2>8 DEF BouncerActs
  <2>12. mix' \subseteq {Holder'} /\ (saslClient' # "none" => saslClient' \in downlinks')
    BY <1>1, <1>4, <2>2, <2>4
  <2>13. \A d \in Clients : job'[d] = "write" => saslClient' = d
    BY <1>0, <1>4, <2>2
  <2> QED
    BY <2>6, <2>8, <2>9, <2>10, <2>11, <2>12, <2>13 DEF Held
\* The bouncer's REQ is granted: its exchange begins.
<1>16. CASE AnswerReq
  <2>1. PICK t \in {"ACK", "NAK"} : /\ Adds(<<Line(t)>>) /\ \A T : Has(<<Line(t)>>, T) <=> t \in T
                                    /\ t = "ACK" => StepPost(<<Line("ACK")>>)
                                    /\ t = "NAK" => UNCHANGED mix
    BY <1>16, AnswerSaid DEF Base
  <2>2. UNCHANGED <<flags, demux, usable, saslClient, job, downlinks>> /\ reqs > 0 /\ reqs' = reqs - 1
    BY <1>16 DEF AnswerReq
  <2>3. registered
    BY <1>16, AfterRegistration
  <2>4. <<Line(t)>> \in Seq(Lines) /\ ~Has(<<Line(t)>>, {"903", "904"}) /\ ~Has(<<Line(t)>>, Outcomes)
    BY <2>1, OneLine DEF LineTypes, Outcomes
  <2>5. (Has(q', {"903", "904"}) <=> Has(q, {"903", "904"})) /\ (Has(q', Outcomes) <=> Has(q, Outcomes))
    BY <2>1, <2>4 DEF Adds
  <2>6. (OutcomeComes' <=> OutcomeComes) /\ (Trying' <=> Trying) /\ Holder' = Holder
    BY <2>2, <2>5 DEF OutcomeComes, Trying, Holder
  <2>7. Ordered(q', Outcomes, Outcomes) /\ Of(q', Outcomes, {Holder'})
    <3>1. Ordered(<<Line(t)>>, Outcomes, Outcomes) /\ Of(<<Line(t)>>, Outcomes, {Holder})
      BY <2>4, HasNoneOf
    <3>2. q' = q \o <<Line(t)>>
      BY <2>1 DEF Adds
    <3>3. Ordered(q \o <<Line(t)>>, Outcomes, Outcomes)
      BY <1>0, <1>3, <2>3, <2>4, <3>1, OrderJoin
    <3>4. Of(q \o <<Line(t)>>, Outcomes, {Holder})
      BY <1>0, <1>3, <2>3, <2>4, <3>1, OfJoin
    <3> QED
      BY <2>6, <3>2, <3>3, <3>4
  <2>8. demux'.todo = <<"outcome", "offer">> => ~Has(q', Outcomes) /\ demux'.line.of = {Holder'}
    BY <1>3, <2>2, <2>3, <2>5, <2>6
  <2>9. mix' \subseteq mix \cup {Bouncer} /\ (~(own /\ usable) => mix' = mix)
    BY <2>1 DEF StepPost
  <2>10. CASE own /\ usable
    <3>1. BouncerActs /\ reqs = 1 /\ mix = {} /\ ~OutcomeComes /\ ~bFailed /\ saslClient = "none"
      BY <1>4, <2>2, <2>10 DEF BouncerActs
    <3>2. own' /\ usable' /\ ~bFailed' /\ saslClient' = "none" /\ reqs' = 0 /\ ~OutcomeComes'
      BY <1>2, <2>2, <2>6, <2>10, <3>1 DEF flags
    <3>3. ~Trying'
      BY <1>4, <2>2, <2>6
    <3>4. mix' \subseteq {Holder'}
      BY <2>9, <3>1, <3>2 DEF Holder
    <3>5. \A c \in Clients : job'[c] = "write" => saslClient' = c
      BY <1>4, <2>2
    <3> QED
      BY <2>7, <2>8, <3>2, <3>3, <3>4, <3>5 DEF Held
  <2>11. CASE ~(own /\ usable)
    <3>1. mix' = mix /\ ~(own' /\ usable')
      BY <1>2, <2>2, <2>9, <2>11
    <3>2. ~BouncerActs
      BY <1>4, <2>11
    <3>3. ~BouncerActs' /\ ~Trying'
      BY <2>2, <2>3, <2>6, <3>1, <3>2 DEF BouncerActs
    <3>4. OutcomeComes' => mix' = {} /\ \A c \in Clients : job'[c] # "write"
      BY <1>3, <2>2, <2>3, <2>6, <3>1
    <3>5. /\ mix' \subseteq {Holder'} /\ (saslClient' # "none" => saslClient' \in downlinks')
          /\ \A c \in Clients : job'[c] = "write" => saslClient' = c
      BY <1>1, <1>4, <2>2, <2>6, <3>1
    <3> QED
      BY <2>7, <2>8, <3>1, <3>3, <3>4, <3>5 DEF Held
  <2> QED
    BY <2>10, <2>11
\* The ircd ends the holder's exchange.
<1>17. CASE EndExchange
  <2>1. PICK u \in Seq(Lines) : /\ Adds(u) /\ Ordered(u, Outcomes, Outcomes) /\ Of(u, Outcomes, mix)
    BY <1>17, EndSays
  <2>2. /\ UNCHANGED <<flags, demux, usable, saslClient, job, downlinks, reqs>> /\ mix # {} /\ mix' = {}
        /\ \A c \in mix \cap Clients : job[c] # "write"
    BY <1>u, <1>17, Untroubled DEF EndExchange
  <2>3. mix = {Holder} /\ registered
    BY <1>4, <1>17, <2>2, AfterRegistration
  <2>4. ~OutcomeComes /\ ~Trying /\ ~(own /\ usable /\ reqs > 0)
    BY <1>3, <1>4, <2>2, <2>3
  <2>5. \A c \in Clients : job'[c] # "write"
    <3> SUFFICES ASSUME NEW c \in Clients, job[c] = "write" PROVE FALSE
      BY <2>2
    <3>1. saslClient = c /\ c # "none"
      BY <1>4, SaslAssumption
    <3>2. c \in mix
      BY <2>3, <3>1 DEF Holder
    <3> QED
      BY <2>2, <3>2
  <2>6. Holder' = Holder /\ ~Trying' /\ ~(own' /\ usable' /\ reqs' > 0)
    BY <1>2, <2>2, <2>4 DEF Holder, Trying
  <2>7. BouncerActs' => own' /\ usable' /\ ~bFailed' /\ saslClient' = "none"
    <3> SUFFICES ASSUME BouncerActs' PROVE own' /\ usable' /\ ~bFailed' /\ saslClient' = "none"
      OBVIOUS
    <3>1. saslClient = "none"
      BY <2>2, <2>6 DEF BouncerActs
    <3>2. Bouncer \in mix
      BY <2>3, <3>1 DEF Holder
    <3>3. own /\ usable /\ ~bFailed
      BY <1>4, <3>2 DEF BouncerActs
    <3> QED
      BY <1>2, <2>2, <3>1, <3>3 DEF flags
  <2>8. ~Has(q, Outcomes) /\ demux'.todo # <<"outcome", "offer">>
    BY <2>2, <2>4 DEF OutcomeComes, Outcomes
  <2>9. Ordered(q', Outcomes, Outcomes) /\ Of(q', Outcomes, {Holder'})
    <3>1. q' = q \o u
      BY <2>1 DEF Adds
    <3>2. Ordered(q \o u, Outcomes, Outcomes)
      BY <1>0, <1>3, <2>1, <2>3, <2>8, OrderJoin
    <3>3. Of(q \o u, Outcomes, {Holder})
      BY <1>0, <1>3, <2>1, <2>3, OfJoin
    <3> QED
      BY <2>6, <3>1, <3>2, <3>3
  <2>10. saslClient' # "none" => saslClient' \in downlinks'
    BY <1>1, <2>2
  <2> QED
    BY <2>2, <2>5, <2>6, <2>7, <2>8, <2>9, <2>10 DEF Held
<1>18. CASE Services
  <2>1. offers' = "none" \/ Has(q', {"NEW", "NEWx"})
    <3>1. ASSUME NEW t \in {"NEW", "NEWx"}, Adds(<<Line(t)>>), \A T : Has(<<Line(t)>>, T) <=> t \in T
          PROVE  Has(q', {"NEW", "NEWx"})
      BY <3>1 DEF Adds
    <3> QED
      BY <1>18, <3>1, ServicesSaid DEF Base
  <2> QED
    BY <2>1 DEF Unsettled, NewComes
<1>19. CASE UNCHANGED vars
  <2>1. registered /\ UNCHANGED <<usable, bFailed, reqs, mix, saslClient, downlinks, job, q, demux>>
    BY <1>19 DEF vars, flags, ircd
  <2>2. Trying' => Trying
    BY <2>1 DEF Trying
  <2> QED
    BY <1>1, <1>2, <1>19, <2>1, <2>2, HeldFrame DEF vars, flags
<1> QED
  BY <1>5, <1>6, <1>7, <1>8, <1>9, <1>10, <1>11, <1>12, <1>13, <1>14, <1>15, <1>16, <1>17, <1>18, <1>19 DEF Next

\* The outcome goes to the holder, and only if that is a client that is there.
Delivered == Fair => OutcomeToItsClient

LEMMA DeliveredStep ==
  ASSUME Base, Held, Delivered, [Next]_vars, Fair
  PROVE  OutcomeToItsClient'
<1>1. CASE UNCHANGED outcome
  BY <1>1 DEF Delivered, OutcomeToItsClient
<1>2. CASE Outcome
  <2>1. demux.todo = <<"outcome", "offer">> /\ registered
    BY <1>2, OutcomeMoves
  <2>2. demux.line.of = {Holder}
    BY <2>1 DEF Held
  <2>3. saslClient \in downlinks => demux.line.of = {saslClient}
    <3>1. downlinks \subseteq Clients
      BY DEF Base, TypeOK
    <3> QED
      BY <2>2, <3>1, SaslAssumption DEF Holder
  <2> QED
    BY <1>2, <2>3 DEF Outcome, OutcomeToItsClient
<1>3. CASE Done
  BY <1>3 DEF Done, OutcomeToItsClient
<1> QED
  BY <1>1, <1>2, <1>3 DEF Next, vars, Take, Note, AckCaps, AckOwner, Waiters, New, NewReq, Del, Offer, Account,
                    completeRegistration, HandleDisconnect, Attach, notifyAttachCaps, SendNew, RequestClientSASL, WaitForAck,
                    forwardClientAuthenticate, Authenticate, Detach, Connect, AnswerReq, EndExchange, Services

\* The invariant, for behaviours that met none of the five kinds of trouble.
Owned == Fair => /\ Begins /\ Came /\ Driven /\ Announced /\ Forgotten /\ Granted /\ Held

LEMMA OwnedInit == Init => Owned /\ Delivered
<1> SUFFICES ASSUME Init PROVE Owned /\ Delivered
  OBVIOUS
<1>1. demux = [line |-> Line(""), todo |-> <<>>, had |-> FALSE] /\ job = [c \in Clients |-> "idle"] /\ q = <<>>
  BY Zenon DEF Init
<1>2. demux.line.t = "" /\ demux.todo = <<>>
  BY <1>1 DEF Line
<1>3. /\ ~registered /\ ~avail /\ ~upCap /\ ~offer /\ saslClient = "none" /\ ~bPending /\ ~bFailed /\ ~loggedIn
      /\ ~driving /\ usable /\ offers = "off" /\ reqs = 0 /\ mix = {} /\ outcome = [of |-> {}, to |-> {}]
  BY DEF Init
<1>4. \A c \in Clients : job[c] = "idle"
  BY <1>1
<1>5. /\ demux.todo \notin {<<"note">>, <<"complete", "offer">>, <<"owner">>}
      /\ demux.todo \notin {<<"offer", "req">>, <<"req">>}
      /\ demux.todo \notin {<<"new", "offer", "req">>, <<"del", "offer", "delwaiters">>, <<"account">>,
                            <<"outcome", "offer">>}
  <2>1. <<>> \notin {<<"note">>, <<"complete", "offer">>, <<"owner">>}
    OBVIOUS
  <2>2. <<>> \notin {<<"offer", "req">>, <<"req">>}
    OBVIOUS
  <2>3. <<>> \notin {<<"new", "offer", "req">>, <<"del", "offer", "delwaiters">>, <<"account">>, <<"outcome", "offer">>}
    OBVIOUS
  <2> QED
    BY ONLY <1>2, <2>1, <2>2, <2>3
<1>6. \A T : ~Has(q, T)
  BY <1>1, HasNone
<1>7. Begins
  <2>1. Closed(q)
    <3>1. q = <<>>
      BY <1>1
    <3>2. Len(<<>>) = 0
      OBVIOUS
    <3> QED
      BY <3>1, <3>2 DEF Closed
  <2>2. q = <<>> /\ demux.line.t \notin Busy /\ demux.line.t # "376"
    BY <1>1, <1>2 DEF Busy
  <2>3. demux.todo # <<"owner">>
    BY <1>5
  <2> QED
    BY ONLY <1>2, <1>3, <1>6, <2>1, <2>2, <2>3 DEF Begins
<1>8. ~Trying /\ ~NewComes /\ ~GoodComes /\ ~OutcomeComes /\ ~DelComes /\ ~LogoutComes
  BY <1>5, <1>6 DEF Trying, NewComes, GoodComes, OutcomeComes, DelComes, LogoutComes
<1>9. Came /\ Driven
  BY <1>3, <1>8 DEF Came, Driven
<1>10. Announced
  <2>1. Ordered(q, {"901", "DEL"} \cup Coming, Coming) /\ Ordered(q, {"901"}, {"DEL"})
    BY <1>6, HasNoneOf
  <2> QED
    BY <1>5, <1>6, <1>8, <2>1 DEF Announced
<1>11. Forgotten
  BY <1>3 DEF Forgotten
<1>12. Granted
  <2>1. Led(q, {"ACK"}, {"904"})
    BY <1>6, HasNoneOf
  <2> QED
    BY <1>2, <1>3, <1>4, <2>1 DEF Granted, GrantedFirst
<1>13. Held
  BY <1>3, <1>4, <1>8 DEF Held, BouncerActs
<1>14. Delivered
  BY <1>3 DEF Delivered, OutcomeToItsClient
<1> QED
  BY <1>7, <1>9, <1>10, <1>11, <1>12, <1>13, <1>14 DEF Owned

LEMMA OwnedStep ==
  ASSUME Base, Owned, Delivered, [Next]_vars, Base'
  PROVE  Owned' /\ Delivered'
<1>1. Fair' => Fair
  BY Fixed DEF Fair
<1> SUFFICES ASSUME Fair, Fair'
             PROVE  /\ Begins' /\ Came' /\ Driven' /\ Announced' /\ Forgotten' /\ Granted' /\ Held'
                    /\ OutcomeToItsClient'
  BY <1>1 DEF Owned, Delivered
<1>2. Begins /\ Came /\ Driven /\ Announced /\ Forgotten /\ Granted /\ Held
  BY DEF Owned
<1>3. Begins'
  BY <1>2, BeginsStep
<1>4. Came' /\ Driven'
  BY <1>2, CameStep, DrivenStep DEF Base
<1>5. Announced'
  BY <1>2, AnnouncedStep
<1>6. Forgotten'
  BY <1>2, ForgottenStep
<1>7. Granted'
  BY <1>2, GrantedStep
<1>8. Held'
  BY <1>2, <1>5, <1>6, HeldStep
<1>9. OutcomeToItsClient'
  BY <1>2, DeliveredStep
<1> QED
  BY <1>3, <1>4, <1>5, <1>6, <1>7, <1>8, <1>9

\* Two exchanges never interleave on one uplink, and only the client whose exchange it was
\* is sent the outcome (forwardClientAuthenticate, routeSASLTraffic), as long as sasl is not
\* withdrawn and no client leaves in the middle of an exchange, no client's REQ or
\* AUTHENTICATE overlaps the handling of a CAP NEW or DEL, no AUTHENTICATE overlaps the
\* outcome, and neither is written after the uplink was lost.
THEOREM ExchangesAreOwned == Spec => []ExchangeOwned
<1>1. Base /\ Owned /\ Delivered => ExchangeOwned
  <2> SUFFICES ASSUME Base, Owned, Delivered, Fair PROVE NeverInterleaved /\ OutcomeToItsClient
    BY DEF ExchangeOwned, Fair
  <2>1. mix \subseteq {Holder}
    BY DEF Owned, Held
  <2>2. IsFiniteSet({Holder}) /\ Cardinality({Holder}) = 1
    BY FS_Singleton
  <2>3. NeverInterleaved
    <3>1. Cardinality(mix) <= Cardinality({Holder})
      BY <2>1, <2>2, FS_Subset
    <3> QED
      BY <2>2, <3>1 DEF NeverInterleaved
  <2> QED
    BY <2>3 DEF Delivered
<1>2. Base /\ Owned /\ Delivered /\ [Next]_vars /\ Base' => Owned' /\ Delivered'
  BY OwnedStep
<1> QED
  BY <1>1, <1>2, OwnedInit, BaseHolds, PTL DEF Spec
=============================================================================
