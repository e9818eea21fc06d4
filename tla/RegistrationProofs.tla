------------------------- MODULE RegistrationProofs -------------------------
(***************************************************************************)
(* Proofs about Registration, for any nicks, other users, SASL mechanisms  *)
(* and replies, any number of changes and of recovery loops.               *)
(*                                                                         *)
(* RegInv is for RequiredSASLHonoured.  That SASL succeeded is known to    *)
(* the machine only from a 903, so a 903 on its way must be a true one     *)
(* (SuccessIsReal), and CAP END must not be sent before an exchange that   *)
(* is required: until the outcome the ircd either has the REQ or the       *)
(* AUTHENTICATE of it to answer, or its answer is on the way (Negotiation, *)
(* HeldBack).  Welcomed says what a 001 leaves of all that.                *)
(*                                                                         *)
(* Recovery, for HeldMeansIdle, adds only the shape of the records.        *)
(*                                                                         *)
(* NickInv is for NickIsTracked.  What the driver thinks its nick is is    *)
(* what the ircd thought when it sent the last line that has been handled; *)
(* what the ircd thinks now follows from that by the lines in between,     *)
(* taken one after the other (Chain, Follows).  A rename is believed only  *)
(* from the nick we hold, so no two of them may be of different owners     *)
(* (OneNick, Named), and nothing that names a nick comes before the 001    *)
(* that first tells it (WelcomeFirst).                                     *)
(*                                                                         *)
(* LoopTypes is what TypeOK needs besides the others: rec.stop is a loop   *)
(* that runs.                                                              *)
(***************************************************************************)
EXTENDS Registration, TLAPS

\* What is in a queue, and the kinds of it.
Items(q) == {q[i] : i \in 1 .. Len(q)}
Has(q, t) == \E m \in Items(q) : m.t = t

IsQueue(q) == q \in Seq(Items(q))

\* At most one item of a kind.
Once(q, t) == \A i, j \in 1 .. Len(q) : q[i].t = t /\ q[j].t = t => i = j

\* Nothing of the list of capabilities comes after its last line.
ListEnds(q) == \A i, j \in 1 .. Len(q) : i < j /\ q[i].t = "LS" /\ ~q[i].more => q[j].t # "LS"

-----------------------------------------------------------------------------
(* Queues.                                                                   *)

LEMMA Wider ==
  ASSUME NEW S, NEW T, S \subseteq T, NEW q \in Seq(S)
  PROVE  q \in Seq(T)
  OBVIOUS

LEMMA Appended ==
  ASSUME NEW q, IsQueue(q), NEW m
  PROVE  /\ IsQueue(Append(q, m)) /\ Items(Append(q, m)) = Items(q) \cup {m}
         /\ Len(q) \in Nat /\ Len(Append(q, m)) = Len(q) + 1
         /\ Append(q, m)[Len(q) + 1] = m
         /\ \A i \in 1 .. Len(q) : Append(q, m)[i] = q[i]
         /\ \A t : (Once(q, t) /\ (m.t # t \/ ~Has(q, t)) => Once(Append(q, m), t))
         /\ ListEnds(q) /\ m.t # "LS" => ListEnds(Append(q, m))
<1> DEFINE S == Items(q) \cup {m}
           r == Append(q, m)
<1>1. q \in Seq(S) /\ m \in S
  BY Wider DEF IsQueue
<1>2. /\ Len(q) \in Nat /\ Len(r) = Len(q) + 1 /\ r[Len(q) + 1] = m /\ r \in Seq(S)
      /\ \A i \in 1 .. Len(q) : r[i] = q[i]
  BY <1>1
<1> HIDE DEF r
<1>3. Items(r) = S
  <2>1. ASSUME NEW i \in 1 .. Len(r)  PROVE r[i] \in S
    BY <1>2
  <2>2. ASSUME NEW x \in S  PROVE x \in Items(r)
    <3>1. CASE x = m
      <4>1. Len(q) + 1 \in 1 .. Len(r)
        BY <1>2
      <4> QED
        BY <1>2, <3>1, <4>1 DEF Items
    <3>2. CASE x \in Items(q)
      <4>1. PICK i \in 1 .. Len(q) : x = q[i]
        BY <3>2 DEF Items
      <4>2. i \in 1 .. Len(r) /\ r[i] = x
        BY <1>2, <4>1
      <4> QED
        BY <4>2 DEF Items
    <3> QED
      BY <3>1, <3>2
  <2> QED
    BY <2>1, <2>2 DEF Items
<1>4. \A i \in 1 .. Len(r) : i \in 1 .. Len(q) \/ (i = Len(q) + 1 /\ r[i] = m)
  BY <1>2
<1>5. ASSUME NEW t, Once(q, t), m.t # t \/ ~Has(q, t)  PROVE Once(r, t)
  <2>1. \A i \in 1 .. Len(q) : m.t = t => q[i].t # t
    BY <1>5 DEF Has, Items
  <2> QED
    BY <1>2, <1>4, <1>5, <2>1 DEF Once
<1>6. ASSUME ListEnds(q), m.t # "LS"  PROVE ListEnds(r)
  BY <1>2, <1>4, <1>6 DEF ListEnds
<1> QED
  BY <1>2, <1>3, <1>5, <1>6 DEF IsQueue, r

LEMMA Added ==
  ASSUME NEW q, IsQueue(q), NEW p, IsQueue(p)
  PROVE  /\ IsQueue(q \o p) /\ Items(q \o p) = Items(q) \cup Items(p)
         /\ Len(q) \in Nat /\ Len(p) \in Nat /\ Len(q \o p) = Len(q) + Len(p)
         /\ \A i \in 1 .. Len(q) : (q \o p)[i] = q[i]
         /\ \A i \in 1 .. Len(p) : (q \o p)[Len(q) + i] = p[i]
         /\ \A t : (Once(q, t) /\ ~Has(p, t) => Once(q \o p, t))
         /\ \A t : (Once(p, t) /\ ~Has(q, t) => Once(q \o p, t))
         /\ ListEnds(q) /\ ~Has(p, "LS") => ListEnds(q \o p)
         /\ ListEnds(p) /\ ~Has(q, "LS") => ListEnds(q \o p)
<1> DEFINE S == Items(q) \cup Items(p)
           r == q \o p
<1>1. q \in Seq(S) /\ p \in Seq(S)
  BY Wider DEF IsQueue
<1>2. /\ Len(q) \in Nat /\ Len(p) \in Nat /\ Len(r) = Len(q) + Len(p) /\ r \in Seq(S)
      /\ \A i \in 1 .. Len(q) : r[i] = q[i]
      /\ \A i \in Len(q) + 1 .. Len(r) : r[i] = p[i - Len(q)]
  BY <1>1
<1> HIDE DEF r
<1>3. \A i \in 1 .. Len(p) : r[Len(q) + i] = p[i] /\ Len(q) + i \in 1 .. Len(r)
  <2> SUFFICES ASSUME NEW i \in 1 .. Len(p)  PROVE r[Len(q) + i] = p[i] /\ Len(q) + i \in 1 .. Len(r)
    OBVIOUS
  <2>1. Len(q) + i \in Len(q) + 1 .. Len(r) /\ (Len(q) + i) - Len(q) = i /\ Len(q) + i \in 1 .. Len(r)
    BY <1>2
  <2> QED
    BY <1>2, <2>1
<1>4. \A i \in 1 .. Len(r) : i \in 1 .. Len(q) \/ \E j \in 1 .. Len(p) : i = Len(q) + j
  <2> SUFFICES ASSUME NEW i \in 1 .. Len(r), i \notin 1 .. Len(q)  PROVE \E j \in 1 .. Len(p) : i = Len(q) + j
    OBVIOUS
  <2>1. i - Len(q) \in 1 .. Len(p) /\ i = Len(q) + (i - Len(q))
    BY <1>2
  <2> QED
    BY <2>1
<1>5. Items(r) = S
  <2>1. ASSUME NEW i \in 1 .. Len(r)  PROVE r[i] \in S
    BY <1>2
  <2>2. ASSUME NEW x \in S  PROVE x \in Items(r)
    <3>1. CASE x \in Items(p)
      <4>1. PICK i \in 1 .. Len(p) : x = p[i]
        BY <3>1 DEF Items
      <4> QED
        BY <1>3, <4>1 DEF Items
    <3>2. CASE x \in Items(q)
      <4>1. PICK i \in 1 .. Len(q) : x = q[i]
        BY <3>2 DEF Items
      <4>2. i \in 1 .. Len(r) /\ r[i] = x
        BY <1>2, <4>1
      <4> QED
        BY <4>2 DEF Items
    <3> QED
      BY <3>1, <3>2
  <2> QED
    BY <2>1, <2>2 DEF Items
<1>6. ASSUME NEW t, Once(q, t), ~Has(p, t)  PROVE Once(r, t)
  <2>1. \A i \in 1 .. Len(p) : p[i].t # t
    BY <1>6 DEF Has, Items
  <2>2. ASSUME NEW i \in 1 .. Len(r), r[i].t = t  PROVE i \in 1 .. Len(q) /\ q[i].t = t
    BY <1>2, <1>3, <1>4, <2>1, <2>2
  <2> QED
    BY <1>6, <2>2 DEF Once
<1>7. ASSUME NEW t, Once(p, t), ~Has(q, t)  PROVE Once(r, t)
  <2>1. \A i \in 1 .. Len(q) : q[i].t # t
    BY <1>7 DEF Has, Items
  <2>2. ASSUME NEW i \in 1 .. Len(r), r[i].t = t  PROVE \E k \in 1 .. Len(p) : i = Len(q) + k /\ p[k].t = t
    BY <1>2, <1>3, <1>4, <2>1, <2>2
  <2>3. ASSUME NEW i \in 1 .. Len(r), NEW j \in 1 .. Len(r), r[i].t = t, r[j].t = t  PROVE i = j
    BY <1>7, <2>2, <2>3 DEF Once
  <2> QED
    BY <2>3 DEF Once
<1>8. ASSUME ListEnds(q), ~Has(p, "LS")  PROVE ListEnds(r)
  <2>1. \A i \in 1 .. Len(p) : p[i].t # "LS"
    BY <1>8 DEF Has, Items
  <2>2. ASSUME NEW i \in 1 .. Len(r), r[i].t = "LS"  PROVE i \in 1 .. Len(q) /\ r[i] = q[i]
    <3>1. i \in 1 .. Len(q)
      <4>1. ASSUME NEW j \in 1 .. Len(p), i = Len(q) + j  PROVE FALSE
        BY <1>3, <2>1, <2>2, <4>1
      <4> QED
        BY <1>4, <4>1
    <3> QED
      BY <1>2, <3>1
  <2> QED
    BY <1>8, <2>2 DEF ListEnds
<1>9. ASSUME ListEnds(p), ~Has(q, "LS")  PROVE ListEnds(r)
  <2>1. \A i \in 1 .. Len(q) : q[i].t # "LS"
    BY <1>9 DEF Has, Items
  <2>2. ASSUME NEW i \in 1 .. Len(r), r[i].t = "LS"  PROVE \E k \in 1 .. Len(p) : i = Len(q) + k /\ r[i] = p[k]
    BY <1>2, <1>3, <1>4, <2>1, <2>2
  <2>3. ASSUME NEW i \in 1 .. Len(r), NEW j \in 1 .. Len(r), i < j, r[i].t = "LS", ~r[i].more, r[j].t = "LS"
        PROVE  FALSE
    <3>1. PICK k \in 1 .. Len(p) : i = Len(q) + k /\ r[i] = p[k]
      BY <2>2, <2>3
    <3>2. PICK l \in 1 .. Len(p) : j = Len(q) + l /\ r[j] = p[l]
      BY <2>2, <2>3
    <3>3. k < l
      BY <1>2, <2>3, <3>1, <3>2
    <3> QED
      BY <1>9, <2>3, <3>1, <3>2, <3>3 DEF ListEnds
  <2> QED
    BY <2>3 DEF ListEnds
<1> QED
  BY <1>2, <1>3, <1>5, <1>6, <1>7, <1>8, <1>9 DEF IsQueue, r

LEMMA Taken ==
  ASSUME NEW q, IsQueue(q), q # <<>>
  PROVE  /\ IsQueue(Tail(q)) /\ Items(Tail(q)) \subseteq Items(q) /\ Head(q) \in Items(q) /\ Head(q) = q[1]
         /\ Len(q) = Len(Tail(q)) + 1 /\ Len(Tail(q)) \in Nat
         /\ \A i \in 1 .. Len(Tail(q)) : Tail(q)[i] = q[i + 1] /\ i + 1 \in 1 .. Len(q)
         /\ \A t : (Once(q, t) => Once(Tail(q), t) /\ (Head(q).t = t => ~Has(Tail(q), t)))
         /\ ListEnds(q) => ListEnds(Tail(q)) /\ (Head(q).t = "LS" /\ ~Head(q).more => ~Has(Tail(q), "LS"))
<1> DEFINE r == Tail(q)
<1>1. /\ Len(q) = Len(r) + 1 /\ Len(r) \in Nat /\ Head(q) = q[1] /\ r \in Seq(Items(q))
      /\ \A i \in 1 .. Len(r) : r[i] = q[i + 1]
  BY DEF IsQueue
<1> HIDE DEF r
<1>2. 1 \in 1 .. Len(q) /\ \A i \in 1 .. Len(r) : i + 1 \in 1 .. Len(q) /\ i + 1 # 1 /\ 1 < i + 1
  BY <1>1
<1>3. Items(r) \subseteq Items(q) /\ Head(q) \in Items(q)
  BY <1>1, <1>2 DEF Items
<1>4. r \in Seq(Items(r))
  <2>1. \A i \in 1 .. Len(r) : r[i] \in Items(r)
    BY DEF Items
  <2> QED
    BY <1>1, <2>1
<1>5. ASSUME NEW t, Once(q, t)  PROVE Once(r, t) /\ (Head(q).t = t => ~Has(r, t))
  <2>1. Once(r, t)
    <3> SUFFICES ASSUME NEW i \in 1 .. Len(r), NEW j \in 1 .. Len(r), r[i].t = t, r[j].t = t  PROVE i = j
      BY DEF Once
    <3>1. i + 1 = j + 1
      BY <1>1, <1>2, <1>5 DEF Once
    <3> QED
      BY <3>1
  <2>2. ASSUME Head(q).t = t, NEW i \in 1 .. Len(r), r[i].t = t  PROVE FALSE
    BY <1>1, <1>2, <1>5, <2>2 DEF Once
  <2> QED
    BY <2>1, <2>2 DEF Has, Items
<1>6. ASSUME ListEnds(q)  PROVE ListEnds(r) /\ (Head(q).t = "LS" /\ ~Head(q).more => ~Has(r, "LS"))
  <2>1. ListEnds(r)
    <3> SUFFICES ASSUME NEW i \in 1 .. Len(r), NEW j \in 1 .. Len(r), i < j, r[i].t = "LS", ~r[i].more, r[j].t = "LS"
                 PROVE  FALSE
      BY DEF ListEnds
    <3>1. i + 1 < j + 1
      BY <1>1
    <3> QED
      BY <1>1, <1>2, <1>6, <3>1 DEF ListEnds
  <2>2. ASSUME Head(q).t = "LS", ~Head(q).more, NEW i \in 1 .. Len(r), r[i].t = "LS"  PROVE FALSE
    BY <1>1, <1>2, <1>6, <2>2 DEF ListEnds
  <2> QED
    BY <2>1, <2>2 DEF Has, Items
<1> QED
  BY <1>1, <1>2, <1>3, <1>4, <1>5, <1>6 DEF IsQueue, r

-----------------------------------------------------------------------------
(* What the steps of the registration say.                                   *)

LEMMA One == \A m : IsQueue(<<m>>) /\ Items(<<m>>) = {m} /\ \A t : Once(<<m>>, t)
<1> TAKE m
<1>1. <<m>> \in Seq({m}) /\ Len(<<m>>) = 1 /\ <<m>>[1] = m /\ 1 .. 1 = {1}
  OBVIOUS
<1>2. Items(<<m>>) = {m}
  BY <1>1 DEF Items
<1>3. \A i, j \in 1 .. Len(<<m>>) : i = j
  BY <1>1
<1> QED
  BY <1>1, <1>2, <1>3 DEF IsQueue, Once

LEMMA NoneThere == IsQueue(<<>>) /\ Items(<<>>) = {} /\ \A t : ~Has(<<>>, t) /\ Once(<<>>, t)
<1>1. <<>> \in Seq({}) /\ 1 .. Len(<<>>) = {}
  OBVIOUS
<1> QED
  BY <1>1 DEF Items, IsQueue, Has, Once

LEMMA AppendedItems ==
  ASSUME NEW q, IsQueue(q), NEW m
  PROVE  /\ IsQueue(Append(q, m)) /\ Items(Append(q, m)) = Items(q) \cup {m}
         /\ \A t : (Once(q, t) /\ (m.t # t \/ ~Has(q, t)) => Once(Append(q, m), t))
<1> HIDE DEF IsQueue, Items, Once, Has
<1> QED
  BY Appended

RegShape(r) ==
  /\ {"phase", "nick", "mech", "conv", "offered", "mechs", "welcome", "why"} \subseteq DOMAIN r
  /\ r.phase \in {"cap", "authenticating", "awaiting", "complete", "failed"}
  /\ r.mech \in {"none", "SCRAM-SHA-256", "PLAIN", "EXTERNAL"} /\ r.conv \in 0 .. 3

Given == \E n \in Networks : cfg = n.cfg /\ srv = n.srv

\* Nothing is said, or only to the SASL agent.
OnlyAuth(out) == IsQueue(out) /\ \A o \in Items(out) : o.t = "AUTHENTICATE"

\* The lines that may end the negotiation.
MayEnd(m) ==
  /\ m.t \in {"LS", "ACK", "NAK", "AUTHENTICATE", "SASL"}
  /\ m.t = "LS" => ~m.more
  /\ cfg.required => \/ m.t \in {"LS", "NAK"}
                     \/ m.t = "ACK" /\ ~(cfg.wanted /\ "sasl" \in m.caps)
                     \/ m.t = "SASL" /\ m.ok

\* What a line makes of the registration r: its welcome and completion are the ircd's doing,
\* and the negotiation is asked for and ended in its turn.
Leads(r, m, x) ==
  /\ RegShape(x)
  /\ r.welcome => x.welcome
  /\ x.welcome => r.welcome \/ m.t = "001"
  /\ m.t \notin {"001", "433"} => x.nick = r.nick
  /\ x.phase = "complete" => r.phase = "complete" \/ (m.t = "376" /\ r.welcome)

Says(m, out) ==
  /\ IsQueue(out) /\ Once(out, "NICK") /\ Once(out, "CAP REQ") /\ ~(Has(out, "CAP REQ") /\ Has(out, "CAP END"))
  /\ \A o \in Items(out) :
       \/ o.t = "AUTHENTICATE"
       \/ o.t = "NICK" /\ m.t = "433"
       \/ o.t = "CAP END" /\ MayEnd(m)
       \/ o.t = "CAP REQ" /\ m.t = "LS" /\ ~m.more /\ ("sasl" \in o.caps => cfg.wanted)

Fits(r, m, s) == Leads(r, m, s.reg) /\ Says(m, s.out)

LEMMA OnlyAuthSays ==
  ASSUME NEW m, NEW out, OnlyAuth(out)
  PROVE  Says(m, out)
<1>1. ~Has(out, "CAP REQ") /\ Once(out, "CAP REQ") /\ Once(out, "NICK")
  BY DEF OnlyAuth, Has, Once, Items
<1> QED
  BY <1>1 DEF OnlyAuth, Says

LEMMA EndSays ==
  ASSUME NEW m, MayEnd(m), NEW out, OnlyAuth(out)
  PROVE  Says(m, Append(out, Line("CAP END")))
<1> DEFINE e == Line("CAP END")
           q == Append(out, e)
<1>1. e.t = "CAP END"
  BY DEF Line
<1>2. IsQueue(out) /\ ~Has(out, "CAP REQ") /\ Once(out, "CAP REQ") /\ Once(out, "NICK")
  BY DEF OnlyAuth, Has, Once, Items
<1> HIDE DEF e
<1>3. IsQueue(q) /\ Items(q) = Items(out) \cup {e} /\ Once(q, "CAP REQ") /\ Once(q, "NICK")
  BY <1>1, <1>2, AppendedItems
<1> HIDE DEF q
<1>4. \A o \in Items(q) : o.t = "AUTHENTICATE" \/ o.t = "CAP END"
  BY <1>1, <1>3 DEF OnlyAuth
<1>5. ~Has(q, "CAP REQ")
  BY <1>4 DEF Has
<1>6. Says(m, q)
  BY <1>3, <1>4, <1>5 DEF Says
<1> QED
  BY <1>6 DEF q, e

LEMMA SilentAuth == OnlyAuth(<<>>) /\ \A a : OnlyAuth(<<Auth(a)>>)
<1>1. \A a : Auth(a).t = "AUTHENTICATE"
  BY DEF Auth
<1> HIDE DEF Auth
<1> QED
  BY <1>1, NoneThere, One DEF OnlyAuth

LEMMA Payload ==
  ASSUME NEW n \in Nat
  PROVE  OnlyAuth(sendAuthenticate(n))
<1> DEFINE k == (n + ChunkSize - 1) \div ChunkSize
           chunks == [i \in 1 .. k |-> Chunk(IF i * ChunkSize <= n THEN ChunkSize ELSE n % ChunkSize)]
           plus == Auth("+")
<1>1. k \in Nat
  <2>1. n + ChunkSize - 1 \in Nat /\ ChunkSize \in Nat /\ ChunkSize > 0
    BY RegistrationAssumption
  <2>2. ASSUME NEW a \in Nat, NEW c \in Nat, c > 0  PROVE a \div c \in Nat
    BY <2>2, SMTT(30)
  <2> HIDE DEF k
  <2> QED
    BY <2>1, <2>2 DEF k
<1> HIDE DEF k
<1>2. IsQueue(chunks) /\ \A o \in Items(chunks) : o.t = "AUTHENTICATE"
  <2>1. Len(chunks) = k /\ \A i \in 1 .. k : chunks[i] \in Items(chunks) /\ chunks[i].t = "AUTHENTICATE"
    BY <1>1 DEF Items, Chunk
  <2>2. chunks \in Seq(Items(chunks))
    BY <1>1, <2>1
  <2> QED
    BY <2>1, <2>2 DEF IsQueue, Items
<1>3. plus.t = "AUTHENTICATE"
  BY DEF Auth
<1>4. OnlyAuth(<<plus>>)
  BY SilentAuth
<1>5. OnlyAuth(Append(chunks, plus))
  <2> HIDE DEF chunks, plus
  <2>1. IsQueue(Append(chunks, plus)) /\ Items(Append(chunks, plus)) = Items(chunks) \cup {plus}
    BY <1>2, AppendedItems
  <2> QED
    BY <1>2, <1>3, <2>1 DEF OnlyAuth
<1>6. sendAuthenticate(n) \in {<<plus>>, Append(chunks, plus), chunks}
  BY DEF sendAuthenticate, k
<1> QED
  BY <1>2, <1>4, <1>5, <1>6 DEF OnlyAuth

LEMMA Two == \A m, o : IsQueue(<<m, o>>) /\ Items(<<m, o>>) = {m, o}
<1> TAKE m, o
<1>1. <<m, o>> \in Seq({m, o}) /\ Len(<<m, o>>) = 2 /\ <<m, o>>[1] = m /\ <<m, o>>[2] = o /\ 1 .. 2 = {1, 2}
  OBVIOUS
<1>2. Items(<<m, o>>) = {m, o}
  BY <1>1 DEF Items
<1> QED
  BY <1>1, <1>2 DEF IsQueue

LEMMA AddedItems ==
  ASSUME NEW q, IsQueue(q), NEW p, IsQueue(p)
  PROVE  /\ IsQueue(q \o p) /\ Items(q \o p) = Items(q) \cup Items(p)
         /\ \A t : (Once(q, t) /\ ~Has(p, t) => Once(q \o p, t))
         /\ \A t : (Once(p, t) /\ ~Has(q, t) => Once(q \o p, t))
         /\ ListEnds(q) /\ ~Has(p, "LS") => ListEnds(q \o p)
         /\ ListEnds(p) /\ ~Has(q, "LS") => ListEnds(q \o p)
<1> HIDE DEF IsQueue, Items, Once, Has, ListEnds
<1> QED
  BY Added

\* The parts of Step.
LEMMA Forgets ==
  ASSUME NEW r, RegShape(r)
  PROVE  /\ RegShape(NoSASL(r)) /\ NoSASL(r).welcome = r.welcome /\ NoSASL(r).phase = r.phase
         /\ NoSASL(r).nick = r.nick
  BY DEF RegShape, NoSASL

LEMMA Phased ==
  ASSUME NEW r, RegShape(r)
  PROVE  /\ \A p \in {"authenticating", "awaiting", "failed"} :
              /\ RegShape([r EXCEPT !.phase = p]) /\ [r EXCEPT !.phase = p].welcome = r.welcome
              /\ [r EXCEPT !.phase = p].nick = r.nick
              /\ [r EXCEPT !.phase = p].phase = p
         /\ \A why : /\ RegShape([r EXCEPT !.phase = "failed", !.why = why])
                     /\ [r EXCEPT !.phase = "failed", !.why = why].welcome = r.welcome
                     /\ [r EXCEPT !.phase = "failed", !.why = why].phase = "failed"
  BY DEF RegShape

LEMMA FailFits ==
  ASSUME NEW r, NEW m, NEW x, RegShape(x), x.welcome = r.welcome, x.nick = r.nick, NEW why, NEW out, OnlyAuth(out)
  PROVE  Fits(r, m, Fail(x, why, out))
<1> DEFINE y == [x EXCEPT !.phase = "failed", !.why = why]
<1>1. RegShape(y) /\ y.welcome = r.welcome /\ y.nick = r.nick /\ y.phase = "failed"
  BY DEF RegShape
<1>2. Says(m, out)
  BY OnlyAuthSays
<1>3. Fail(x, why, out).reg = y /\ Fail(x, why, out).out = out
  BY DEF Fail, Then
<1> HIDE DEF y
<1> QED
  BY <1>1, <1>2, <1>3 DEF Fits, Leads

LEMMA EndFits ==
  ASSUME NEW r, NEW m, MayEnd(m), NEW x, RegShape(x), x.welcome = r.welcome, x.nick = r.nick, NEW out, OnlyAuth(out)
  PROVE  Fits(r, m, EndCap(x, out))
<1> DEFINE y == [x EXCEPT !.phase = "awaiting"]
           q == Append(out, Line("CAP END"))
<1>1. RegShape(y) /\ y.welcome = r.welcome /\ y.nick = r.nick /\ y.phase = "awaiting"
  BY Phased
<1>2. Says(m, q)
  BY EndSays
<1>3. EndCap(x, out).reg = y /\ EndCap(x, out).out = q
  BY DEF EndCap, Then
<1> HIDE DEF y, q
<1> QED
  BY <1>1, <1>2, <1>3 DEF Fits, Leads

LEMMA QuietFits ==
  ASSUME NEW r, NEW m, NEW x, RegShape(x), x.welcome = r.welcome, x.nick = r.nick,
         x.phase = "complete" => r.phase = "complete", NEW out, OnlyAuth(out)
  PROVE  Fits(r, m, Then(x, out))
<1>1. Then(x, out).reg = x /\ Then(x, out).out = out
  BY DEF Then
<1>2. Says(m, out)
  BY OnlyAuthSays
<1> QED
  BY <1>1, <1>2 DEF Fits, Leads

LEMMA WithoutFits ==
  ASSUME NEW r, RegShape(r), NEW m, ~cfg.required => MayEnd(m), NEW out, OnlyAuth(out)
  PROVE  Fits(r, m, WithoutSASL(r, out))
<1>1. RegShape(NoSASL(r)) /\ NoSASL(r).welcome = r.welcome /\ NoSASL(r).nick = r.nick
  BY Forgets
<1>2. CASE cfg.required
  BY <1>1, <1>2, FailFits DEF WithoutSASL
<1>3. CASE ~cfg.required
  BY <1>1, <1>3, EndFits DEF WithoutSASL
<1> QED
  BY <1>2, <1>3

LEMMA Picked ==
  \A r : pickSASLMech(r) \in {"none", "SCRAM-SHA-256", "PLAIN", "EXTERNAL"}
<1> TAKE r
<1> DEFINE usable == {i \in DOMAIN Preferred : Preferred[i] \in r.mechs}
<1>1. \/ Preferred = <<>>
      \/ Preferred = <<"SCRAM-SHA-256", "PLAIN">>
      \/ Preferred = <<"EXTERNAL">>
  BY DEF Preferred
<1>2. CASE Preferred = <<>>
  BY <1>2 DEF pickSASLMech
<1>3. CASE Preferred = <<"SCRAM-SHA-256", "PLAIN">>
  <2>1. DOMAIN Preferred = {1, 2} /\ Last(Preferred) = "PLAIN"
    BY <1>3 DEF Last
  <2>2. usable # {} => Min(usable) \in {1, 2}
    <3>1. usable \subseteq {1, 2}
      BY <2>1
    <3>2. usable # {} => \E x \in usable : \A y \in usable : x <= y
      <4>1. 1 \in usable => \A y \in usable : 1 <= y
        BY <3>1
      <4>2. 1 \notin usable /\ usable # {} => 2 \in usable /\ \A y \in usable : 2 <= y
        BY <3>1
      <4> QED
        BY <4>1, <4>2
    <3> HIDE DEF usable
    <3>3. usable # {} => Min(usable) \in usable
      BY <3>2 DEF Min
    <3> QED
      BY <3>1, <3>3
  <2>3. \A i \in {1, 2} : Preferred[i] \in {"SCRAM-SHA-256", "PLAIN"}
    BY <1>3
  <2>4. pickSASLMech(r) \in {"none", Last(Preferred)} \/ (usable # {} /\ pickSASLMech(r) = Preferred[Min(usable)])
    BY DEF pickSASLMech
  <2> HIDE DEF usable
  <2> QED
    BY <2>1, <2>2, <2>3, <2>4
<1>4. CASE Preferred = <<"EXTERNAL">>
  <2>1. DOMAIN Preferred = {1} /\ Last(Preferred) = "EXTERNAL" /\ Preferred[1] = "EXTERNAL"
    BY <1>4 DEF Last
  <2>2. usable # {} => Min(usable) = 1
    <3>1. usable \subseteq {1}
      BY <2>1
    <3>2. usable # {} => 1 \in usable /\ \A x \in usable : x = 1
      BY <3>1
    <3> HIDE DEF usable
    <3>3. usable # {} => Min(usable) \in usable
      BY <3>2 DEF Min
    <3> QED
      BY <3>2, <3>3
  <2>4. pickSASLMech(r) \in {"none", Last(Preferred)} \/ (usable # {} /\ pickSASLMech(r) = Preferred[Min(usable)])
    BY DEF pickSASLMech
  <2> HIDE DEF usable
  <2> QED
    BY <2>1, <2>2, <2>4
<1> QED
  BY <1>1, <1>2, <1>3, <1>4

LEMMA StartFits ==
  ASSUME NEW r, RegShape(r), NEW m, ~cfg.required => MayEnd(m)
  PROVE  Fits(r, m, startSASL(r))
<1> DEFINE mech == pickSASLMech(r)
           x == [r EXCEPT !.phase = "authenticating", !.mech = mech, !.conv = 0]
<1>1. mech \in {"none", "SCRAM-SHA-256", "PLAIN", "EXTERNAL"}
  BY Picked
<1>2. CASE mech = "none"
  BY <1>2, SilentAuth, WithoutFits DEF startSASL
<1>3. CASE mech # "none"
  <2>1. RegShape(x) /\ x.welcome = r.welcome /\ x.nick = r.nick /\ x.phase = "authenticating"
    <3>1. mech \in {"SCRAM-SHA-256", "PLAIN", "EXTERNAL"}
      BY <1>1, <1>3
    <3> HIDE DEF mech
    <3> QED
      BY <3>1 DEF RegShape
  <2>2. startSASL(r) = Then(x, <<Auth(mech)>>)
    BY <1>3 DEF startSASL
  <2>3. OnlyAuth(<<Auth(mech)>>)
    BY SilentAuth
  <2> HIDE DEF x, mech
  <2> QED
    BY <2>1, <2>2, <2>3, QuietFits
<1> QED
  BY <1>2, <1>3

LEMMA HearsFits ==
  ASSUME NEW r, RegShape(r), NEW m, m.t \in {"LS", "ACK", "NAK"}
  PROVE  Fits(r, m, stepCAP(r, m))
<1> DEFINE heard == [r EXCEPT !.offered = @ \union m.caps,
                              !.mechs = IF "sasl" \in m.caps THEN m.mechs ELSE @]
           req   == {c \in heard.offered : c = "sasl" => cfg.wanted}
           ask   == [t |-> "CAP REQ", caps |-> req]
<1>1. RegShape(heard) /\ heard.welcome = r.welcome /\ heard.nick = r.nick /\ heard.phase = r.phase
  BY DEF RegShape
<1>2. ask.t = "CAP REQ" /\ ask.caps = req /\ ("sasl" \in req => cfg.wanted)
  OBVIOUS
<1>3. stepCAP(r, m) =
        CASE m.t = "LS" /\ m.more -> Then(heard, <<>>)
          [] m.t = "LS" /\ ~m.more -> IF req = {} THEN EndCap(heard, <<>>) ELSE Then(heard, <<ask>>)
          [] m.t = "ACK" -> IF cfg.wanted /\ "sasl" \in m.caps THEN startSASL(r) ELSE EndCap(r, <<>>)
          [] m.t = "NAK" -> EndCap(r, <<>>)
  BY DEF stepCAP
<1> HIDE DEF heard, req, ask
<1>4. CASE m.t = "LS"
  <2>1. CASE m.more
    BY <1>1, <1>3, <1>4, <2>1, SilentAuth, QuietFits
  <2>2. CASE ~m.more /\ req = {}
    <3>1. MayEnd(m)
      BY <1>4, <2>2 DEF MayEnd
    <3> QED
      BY <1>1, <1>3, <1>4, <2>2, <3>1, SilentAuth, EndFits
  <2>3. CASE ~m.more /\ req # {}
    <3>1. stepCAP(r, m) = Then(heard, <<ask>>)
      BY <1>3, <1>4, <2>3
    <3>2. Says(m, <<ask>>)
      <4>1. IsQueue(<<ask>>) /\ Items(<<ask>>) = {ask} /\ Once(<<ask>>, "CAP REQ") /\ Once(<<ask>>, "NICK")
        BY One
      <4> QED
        BY <1>2, <1>4, <2>3, <4>1 DEF Says, Has
    <3>3. Leads(r, m, heard)
      BY <1>1 DEF Leads
    <3> QED
      BY <3>1, <3>2, <3>3 DEF Fits, Then
  <2> QED
    BY <2>1, <2>2, <2>3
<1>5. CASE m.t = "ACK"
  <2>1. CASE cfg.wanted /\ "sasl" \in m.caps
    <3>1. ~cfg.required => MayEnd(m)
      BY <1>5 DEF MayEnd
    <3> QED
      BY <1>3, <1>5, <2>1, <3>1, StartFits
  <2>2. CASE ~(cfg.wanted /\ "sasl" \in m.caps)
    <3>1. MayEnd(m)
      BY <1>5, <2>2 DEF MayEnd
    <3> QED
      BY <1>3, <1>5, <2>2, <3>1, SilentAuth, EndFits
  <2> QED
    BY <2>1, <2>2
<1>6. CASE m.t = "NAK"
  <2>1. MayEnd(m)
    BY <1>6 DEF MayEnd
  <2> QED
    BY <1>3, <1>6, <2>1, SilentAuth, EndFits
<1> QED
  BY <1>4, <1>5, <1>6

LEMMA OutcomeFits ==
  ASSUME NEW r, RegShape(r), NEW m, m.t = "SASL"
  PROVE  Fits(r, m, stepSASLOutcome(r, m))
<1>1. RegShape(NoSASL(r)) /\ NoSASL(r).welcome = r.welcome /\ NoSASL(r).phase = r.phase
      /\ NoSASL(r).nick = r.nick
  BY Forgets
<1>2. CASE r.welcome
  BY <1>1, <1>2, SilentAuth, QuietFits DEF stepSASLOutcome
<1>3. CASE ~r.welcome /\ ~m.ok
  <2>1. ~cfg.required => MayEnd(m)
    BY DEF MayEnd
  <2> QED
    BY <1>3, <2>1, SilentAuth, WithoutFits DEF stepSASLOutcome
<1>4. CASE ~r.welcome /\ m.ok
  <2>1. MayEnd(m)
    BY <1>4 DEF MayEnd
  <2> QED
    BY <1>1, <1>4, <2>1, SilentAuth, EndFits DEF stepSASLOutcome
<1> QED
  BY <1>2, <1>3, <1>4

LEMMA AuthenticateFits ==
  ASSUME NEW r, RegShape(r), Given, NEW m, m.t = "AUTHENTICATE"
  PROVE  Fits(r, m, stepAuthenticate(r, m))
<1>1. RegShape(NoSASL(r)) /\ NoSASL(r).welcome = r.welcome /\ NoSASL(r).phase = r.phase
      /\ NoSASL(r).nick = r.nick
  BY Forgets
<1>2. \A n \in Nat : OnlyAuth(sendAuthenticate(n))
  BY Payload
<1>3. cfg.payload \in Nat /\ 0 \in Nat
  BY RegistrationAssumption DEF Given
<1>4. CASE m.arg = "*"
  BY <1>1, <1>4, SilentAuth, QuietFits DEF stepAuthenticate
<1>5. CASE m.arg # "*" /\ r.mech = "SCRAM-SHA-256"
  <2>1. stepAuthenticate(r, m) = stepSCRAM(r, m.arg)
    BY <1>5 DEF stepAuthenticate
  <2>2. CASE m.arg = "bad" \/ r.conv > 2
    <3>1. stepSCRAM(r, m.arg) = abortSASL(r)
      BY <2>2 DEF stepSCRAM
    <3>2. ~cfg.required => MayEnd(m)
      BY DEF MayEnd
    <3>3. CASE r.welcome
      BY <1>1, <2>1, <3>1, <3>3, SilentAuth, QuietFits DEF abortSASL
    <3>4. CASE ~r.welcome
      BY <2>1, <3>1, <3>2, <3>4, SilentAuth, WithoutFits DEF abortSASL
    <3> QED
      BY <3>3, <3>4
  <2>3. CASE ~(m.arg = "bad" \/ r.conv > 2)
    <3> DEFINE x == [r EXCEPT !.conv = @ + 1]
               out == sendAuthenticate(IF r.conv = 2 THEN 0 ELSE cfg.payload)
    <3>1. stepSCRAM(r, m.arg) = Then(x, out)
      BY <2>3 DEF stepSCRAM
    <3>2. OnlyAuth(out)
      BY <1>2, <1>3
    <3>3. RegShape(x) /\ x.welcome = r.welcome /\ x.nick = r.nick /\ x.phase = r.phase
      <4>1. r.conv + 1 \in 0 .. 3
        BY <2>3 DEF RegShape
      <4> QED
        BY <4>1 DEF RegShape
    <3> HIDE DEF x, out
    <3> QED
      BY <2>1, <3>1, <3>2, <3>3, QuietFits
  <2> QED
    BY <2>2, <2>3
<1>6. CASE m.arg # "*" /\ r.mech = "none"
  BY <1>6, SilentAuth, QuietFits DEF stepAuthenticate
<1>7. CASE m.arg # "*" /\ r.mech \in {"PLAIN", "EXTERNAL"}
  BY <1>2, <1>3, <1>7, SilentAuth, QuietFits DEF stepAuthenticate
<1> QED
  BY <1>4, <1>5, <1>6, <1>7 DEF RegShape

LEMMA NickFits ==
  ASSUME NEW r, RegShape(r), NEW m, m.t = "433"
  PROVE  Fits(r, m, stepNickError(r, m))
<1> DEFINE next == IF cfg.recovery THEN nextNickInLadder(Ladder, r.nick, m.bad) ELSE <<>>
           x    == [r EXCEPT !.nick = next]
           say  == NickLine(next)
<1>1. RegShape(x) /\ x.welcome = r.welcome /\ x.phase = r.phase
  <2> HIDE DEF next
  <2> QED
    BY DEF RegShape
<1>2. say.t = "NICK"
  BY DEF NickLine
<1>3. \/ stepNickError(r, m) = Then(r, <<>>)
      \/ stepNickError(r, m) = Fail(r, "nick", <<>>)
      \/ stepNickError(r, m) = Then(x, <<say>>)
  BY DEF stepNickError
<1> HIDE DEF next, x, say
<1>4. Says(m, <<say>>)
  <2>1. IsQueue(<<say>>) /\ Items(<<say>>) = {say} /\ Once(<<say>>, "CAP REQ") /\ Once(<<say>>, "NICK")
    BY One
  <2> QED
    BY <1>2, <2>1 DEF Says, Has
<1>5. Fits(r, m, Then(x, <<say>>))
  BY <1>1, <1>4 DEF Fits, Leads, Then
<1>6. Fits(r, m, Then(r, <<>>)) /\ Fits(r, m, Fail(r, "nick", <<>>))
  BY SilentAuth, QuietFits, FailFits
<1> QED
  BY <1>3, <1>5, <1>6

LEMMA StepFits ==
  ASSUME NEW r, RegShape(r), Given, NEW m
  PROVE  Fits(r, m, Step(r, m))
<1>1. CASE m.t \in {"LS", "ACK", "NAK"}
  BY <1>1, HearsFits DEF Step
<1>2. CASE m.t = "AUTHENTICATE"
  BY <1>2, AuthenticateFits DEF Step
<1>3. CASE m.t = "SASL"
  BY <1>3, OutcomeFits DEF Step
<1>4. CASE m.t = "001"
  <2> DEFINE p == IF r.phase = "cap" THEN "awaiting" ELSE r.phase
             x == [r EXCEPT !.welcome = TRUE, !.nick = m.nick, !.phase = IF @ = "cap" THEN "awaiting" ELSE @]
  <2>1. RegShape(x) /\ x.welcome /\ x.phase = p
    BY DEF RegShape
  <2>2. Step(r, m) = Then(x, <<>>)
    BY <1>4 DEF Step
  <2>3. Says(m, <<>>)
    BY SilentAuth, OnlyAuthSays
  <2>4. x.phase = "complete" => r.phase = "complete"
    BY <2>1
  <2> HIDE DEF x, p
  <2> QED
    BY <1>4, <2>1, <2>2, <2>3, <2>4 DEF Fits, Leads, Then
<1>5. CASE m.t = "376"
  <2> DEFINE x == [r EXCEPT !.phase = "complete"]
  <2>1. RegShape(x) /\ x.welcome = r.welcome /\ x.nick = r.nick /\ x.phase = "complete"
    BY DEF RegShape
  <2>2. Says(m, <<>>)
    BY SilentAuth, OnlyAuthSays
  <2>3. Step(r, m) = Then(IF r.welcome THEN x ELSE r, <<>>)
    BY <1>5 DEF Step
  <2> HIDE DEF x
  <2> QED
    BY <1>5, <2>1, <2>2, <2>3 DEF Fits, Leads, Then
<1>6. CASE m.t = "433"
  BY <1>6, NickFits DEF Step
<1>7. CASE m.t = "ERROR"
  BY <1>7, SilentAuth, FailFits DEF Step
<1>8. CASE m.t \notin {"LS", "ACK", "NAK", "AUTHENTICATE", "SASL", "001", "376", "433", "ERROR"}
  <2>1. Step(r, m) = Then(r, <<>>)
    BY <1>8 DEF Step
  <2> QED
    BY <2>1, SilentAuth, QuietFits
<1> QED
  BY <1>1, <1>2, <1>3, <1>4, <1>5, <1>6, <1>7, <1>8

LEMMA PostFits ==
  ASSUME NEW r, RegShape(r), Given, NEW m
  PROVE  Fits(r, m, StepPost(r, m))
<1>1. CASE m.t = "NEW"
  <2> DEFINE x == [r EXCEPT !.offered = @ \union {"sasl"}, !.mechs = m.mechs]
  <2>1. RegShape(x) /\ x.welcome = r.welcome /\ x.nick = r.nick /\ x.phase = r.phase
    BY DEF RegShape
  <2>2. StepPost(r, m) = Then(x, <<>>)
    BY <1>1 DEF StepPost
  <2> HIDE DEF x
  <2> QED
    BY <2>1, <2>2, SilentAuth, QuietFits
<1>2. CASE m.t = "DEL"
  <2> DEFINE x == [r EXCEPT !.offered = @ \ {"sasl"}, !.mechs = {}]
  <2>1. RegShape(x) /\ x.welcome = r.welcome /\ x.nick = r.nick /\ x.phase = r.phase
    BY DEF RegShape
  <2>2. StepPost(r, m) = Then(x, <<>>)
    BY <1>2 DEF StepPost
  <2> HIDE DEF x
  <2> QED
    BY <2>1, <2>2, SilentAuth, QuietFits
<1>3. CASE m.t = "ACK"
  <2> DEFINE mech == pickSASLMech(r)
             x == [r EXCEPT !.mech = mech, !.conv = 0]
  <2>1. mech \in {"none", "SCRAM-SHA-256", "PLAIN", "EXTERNAL"}
    BY Picked
  <2>2. StepPost(r, m) \in {Then(r, <<>>), Then(x, <<Auth(mech)>>)}
    BY <1>3 DEF StepPost
  <2> HIDE DEF mech
  <2>3. RegShape(x) /\ x.welcome = r.welcome /\ x.nick = r.nick /\ x.phase = r.phase
    BY <2>1 DEF RegShape
  <2> HIDE DEF x
  <2>4. Fits(r, m, Then(r, <<>>)) /\ Fits(r, m, Then(x, <<Auth(mech)>>))
    BY <2>3, SilentAuth, QuietFits
  <2> QED
    BY <2>2, <2>4
<1>4. CASE m.t = "AUTHENTICATE"
  BY <1>4, AuthenticateFits DEF StepPost
<1>5. CASE m.t = "SASL"
  BY <1>5, OutcomeFits DEF StepPost
<1>6. CASE m.t \notin {"NEW", "DEL", "ACK", "AUTHENTICATE", "SASL"}
  <2>1. StepPost(r, m) = Then(r, <<>>)
    BY <1>6 DEF StepPost
  <2> QED
    BY <2>1, SilentAuth, QuietFits
<1> QED
  BY <1>1, <1>2, <1>3, <1>4, <1>5, <1>6

\* The welcome gives the nick and the end of the MOTD completes the registration, for good.
LEMMA StepNick ==
  ASSUME NEW r, RegShape(r), NEW m
  PROVE  /\ m.t = "001" => Step(r, m).reg.welcome /\ Step(r, m).reg.nick = m.nick
         /\ m.t = "376" /\ r.welcome => Step(r, m).reg.phase = "complete"
<1>1. CASE m.t = "001"
  <2> DEFINE x == [r EXCEPT !.welcome = TRUE, !.nick = m.nick, !.phase = IF @ = "cap" THEN "awaiting" ELSE @]
  <2>1. x.welcome /\ x.nick = m.nick
    BY DEF RegShape
  <2>2. Step(r, m) = Then(x, <<>>)
    BY <1>1 DEF Step
  <2> HIDE DEF x
  <2> QED
    BY <1>1, <2>1, <2>2 DEF Then
<1>2. CASE m.t = "376" /\ r.welcome
  <2> DEFINE x == [r EXCEPT !.phase = "complete"]
  <2>1. x.phase = "complete"
    BY DEF RegShape
  <2>2. Step(r, m) = Then(x, <<>>)
    BY <1>2 DEF Step
  <2> HIDE DEF x
  <2> QED
    BY <1>2, <2>1, <2>2 DEF Then
<1> QED
  BY <1>1, <1>2

LEMMA PostKept ==
  ASSUME NEW r, RegShape(r), r.welcome, NEW m
  PROVE  /\ StepPost(r, m).reg.phase = r.phase /\ StepPost(r, m).reg.nick = r.nick
         /\ m.t = "433" => StepPost(r, m).out = <<>>
<1> DEFINE s == StepPost(r, m)
<1>1. NoSASL(r).phase = r.phase /\ NoSASL(r).nick = r.nick
  BY Forgets
<1>2. CASE m.t = "NEW"
  <2>1. s.reg = [r EXCEPT !.offered = @ \union {"sasl"}, !.mechs = m.mechs]
    BY <1>2 DEF StepPost, Then
  <2> QED
    BY <1>2, <2>1 DEF RegShape
<1>3. CASE m.t = "DEL"
  <2>1. s.reg = [r EXCEPT !.offered = @ \ {"sasl"}, !.mechs = {}]
    BY <1>3 DEF StepPost, Then
  <2> QED
    BY <1>3, <2>1 DEF RegShape
<1>4. CASE m.t = "ACK"
  <2> DEFINE mech == pickSASLMech(r)
  <2>1. s.reg = r \/ s.reg = [r EXCEPT !.mech = mech, !.conv = 0]
    BY <1>4 DEF StepPost, Then
  <2> HIDE DEF mech
  <2> QED
    BY <1>4, <2>1 DEF RegShape
<1>5. CASE m.t = "AUTHENTICATE"
  <2>1. s.reg \in {r, NoSASL(r), [r EXCEPT !.conv = @ + 1]}
    BY <1>5 DEF StepPost, stepAuthenticate, stepSCRAM, abortSASL, Then, RegShape
  <2> QED
    BY <1>1, <1>5, <2>1 DEF RegShape
<1>6. CASE m.t = "SASL"
  <2>1. s.reg = NoSASL(r)
    BY <1>6 DEF StepPost, stepSASLOutcome, Then
  <2> QED
    BY <1>1, <1>6, <2>1
<1>7. CASE m.t \notin {"NEW", "DEL", "ACK", "AUTHENTICATE", "SASL"}
  <2>1. s = Then(r, <<>>)
    BY <1>7 DEF StepPost
  <2> QED
    BY <2>1 DEF Then
<1> QED
  BY <1>2, <1>3, <1>4, <1>5, <1>6, <1>7

-----------------------------------------------------------------------------
(* What comes when.                                                          *)

IrcdShape(i) ==
  {"neg", "user", "nick", "welcome", "acked", "sasl", "authed", "mech", "round"} \subseteq DOMAIN i

Shaped == RegShape(reg) /\ Given /\ IsQueue(toIrcd) /\ IsQueue(toUs) /\ IrcdShape(ircd)

\* What only a welcomed connection is sent, and what it brings about.
Welcomed ==
  reg.welcome \/ reg.phase = "complete" \/ Has(toUs, "001") \/ Has(toUs, "376") \/ Has(toUs, "NEW") => ircd.welcome

\* Before the welcome capabilities are listed, asked for, granted and done with in turn.
Listing  == Has(toUs, "LS")
Asking   == Has(toIrcd, "CAP REQ")
Answered == Has(toUs, "ACK") \/ Has(toUs, "NAK")
Over     == Has(toIrcd, "CAP END")

Negotiation ==
  ~ircd.welcome =>
    /\ Has(toIrcd, "CAP LS") => ~Listing /\ ~Asking /\ ~Answered /\ ~Over /\ ~ircd.acked
    /\ Listing => ircd.neg /\ ~Asking /\ ~Answered /\ ~Over /\ ~ircd.acked
    /\ Asking => ircd.neg /\ ~Answered /\ ~Over /\ ~ircd.acked
    /\ ~ircd.acked => ~ircd.sasl /\ ~Has(toUs, "AUTHENTICATE") /\ ~Has(toUs, "SASL")
    /\ \A o \in Items(toIrcd) : o.t = "CAP REQ" /\ "sasl" \in o.caps => cfg.wanted
    /\ Once(toIrcd, "CAP LS") /\ Once(toIrcd, "CAP REQ") /\ ListEnds(toUs)

\* A success is only reported of an agent that has been persuaded.
SuccessIsReal == \A o \in Items(toUs) : o.t = "SASL" /\ o.ok => ircd.authed

\* Until it has, the connection of a network that requires SASL stays in negotiation.
HeldBack ==
  cfg.required /\ ircd.acked /\ ~ircd.authed =>
    /\ cfg.wanted /\ ircd.neg /\ ~ircd.welcome
    /\ ~Has(toIrcd, "CAP LS") /\ ~Asking /\ ~Over /\ ~Listing /\ ~Has(toUs, "NAK")
    /\ \A o \in Items(toUs) : o.t = "ACK" => "sasl" \in o.caps

RegInv == Shaped /\ Welcomed /\ Negotiation /\ SuccessIsReal /\ HeldBack

\* A queue with nothing of the kinds T that the other has not.
NoMore(q, p, T) ==
  /\ IsQueue(q)
  /\ \A o \in Items(q) : o.t \in T => o \in Items(p)
  /\ \A t \in T : Once(p, t) => Once(q, t)
  /\ ListEnds(p) => ListEnds(q)

LEMMA NoneMore ==
  ASSUME NEW q, IsQueue(q), NEW T
  PROVE  /\ NoMore(q, q, T)
         /\ \A m : m.t # "LS" /\ m.t \notin T => NoMore(Append(q, m), q, T)
         /\ q # <<>> => NoMore(Tail(q), q, T)
<1>1. NoMore(q, q, T)
  BY DEF NoMore
<1>2. ASSUME NEW m, m.t # "LS", m.t \notin T  PROVE NoMore(Append(q, m), q, T)
  <2> DEFINE r == Append(q, m)
  <2>1. /\ IsQueue(r) /\ Items(r) = Items(q) \cup {m}
        /\ \A t : (Once(q, t) /\ (m.t # t \/ ~Has(q, t)) => Once(r, t))
        /\ ListEnds(q) /\ m.t # "LS" => ListEnds(r)
    BY Appended
  <2> HIDE DEF r
  <2>2. NoMore(r, q, T)
    BY <1>2, <2>1 DEF NoMore
  <2> QED
    BY <2>2 DEF r
<1>3. ASSUME q # <<>>  PROVE NoMore(Tail(q), q, T)
  <2> DEFINE r == Tail(q)
  <2>1. /\ IsQueue(r) /\ Items(r) \subseteq Items(q) /\ \A t : (Once(q, t) => Once(r, t))
        /\ ListEnds(q) => ListEnds(r)
    BY <1>3, Taken
  <2> HIDE DEF r
  <2>2. NoMore(r, q, T)
    BY <2>1 DEF NoMore
  <2> QED
    BY <2>2 DEF r
<1> QED
  BY <1>1, <1>2, <1>3

Asked == {"CAP LS", "CAP REQ", "CAP END"}
Told  == {"LS", "ACK", "NAK", "001", "376", "NEW"}

\* Steps that neither ask, list, grant or end, nor welcome.
LEMMA Framed ==
  ASSUME RegInv, UNCHANGED given, RegShape(reg'), reg'.welcome => reg.welcome,
         reg'.phase = "complete" => reg.phase = "complete",
         IrcdShape(ircd'), ircd'.welcome = ircd.welcome, ircd'.neg = ircd.neg, ircd'.acked = ircd.acked,
         ircd.authed => ircd'.authed, ircd'.sasl => ircd.sasl,
         NoMore(toIrcd', toIrcd, Asked), NoMore(toUs', toUs, Told),
         \A o \in Items(toUs') : o.t \in {"AUTHENTICATE", "SASL"} =>
            \/ o \in Items(toUs)
            \/ ircd.sasl /\ (o.t = "SASL" /\ o.ok => ircd'.authed)
  PROVE  RegInv'
<1>1. cfg' = cfg /\ Given'
  BY DEF RegInv, Shaped, Given, given
<1>2. /\ Has(toIrcd', "CAP LS") => Has(toIrcd, "CAP LS")
      /\ Has(toIrcd', "CAP REQ") => Has(toIrcd, "CAP REQ")
      /\ Has(toIrcd', "CAP END") => Has(toIrcd, "CAP END")
  BY DEF NoMore, Asked, Has
<1>3. /\ Has(toUs', "LS") => Has(toUs, "LS")
      /\ Has(toUs', "ACK") => Has(toUs, "ACK")
      /\ Has(toUs', "NAK") => Has(toUs, "NAK")
      /\ Has(toUs', "001") => Has(toUs, "001")
      /\ Has(toUs', "376") => Has(toUs, "376")
      /\ Has(toUs', "NEW") => Has(toUs, "NEW")
  BY DEF NoMore, Told, Has
<1>4. Shaped'
  BY <1>1 DEF Shaped, NoMore
<1>5. Welcomed'
  BY <1>3 DEF Welcomed, RegInv
<1>6. SuccessIsReal'
  BY DEF SuccessIsReal, RegInv
<1>7. Negotiation'
  <2> SUFFICES ASSUME ~ircd'.welcome
               PROVE  Negotiation'
    BY DEF Negotiation
  <2>1. Once(toIrcd', "CAP LS") /\ Once(toIrcd', "CAP REQ") /\ ListEnds(toUs')
    BY DEF Negotiation, RegInv, NoMore, Asked
  <2>2. \A o \in Items(toIrcd') : o.t = "CAP REQ" /\ "sasl" \in o.caps => cfg.wanted
    BY DEF Negotiation, RegInv, NoMore, Asked
  <2>3. ~ircd'.acked => ~ircd'.sasl /\ ~Has(toUs', "AUTHENTICATE") /\ ~Has(toUs', "SASL")
    BY DEF Negotiation, RegInv, Has
  <2> QED
    BY <1>1, <1>2, <1>3, <2>1, <2>2, <2>3 DEF Negotiation, RegInv, Listing, Asking, Answered, Over
<1>8. HeldBack'
  <2> SUFFICES ASSUME cfg.required, ircd.acked, ~ircd'.authed
               PROVE  HeldBack'
    BY <1>1 DEF HeldBack
  <2>1. \A o \in Items(toUs') : o.t = "ACK" => o \in Items(toUs)
    BY DEF NoMore, Told
  <2> QED
    BY <1>1, <1>2, <1>3, <2>1 DEF HeldBack, RegInv, Listing, Asking, Over
<1> QED
  BY <1>4, <1>5, <1>6, <1>7, <1>8 DEF RegInv

Answers == {"AUTHENTICATE", "SASL"}

LEMMA Steady ==
  ASSUME RegInv, UNCHANGED <<given, reg>>, IrcdShape(ircd'), ircd'.welcome = ircd.welcome, ircd'.neg = ircd.neg,
         ircd'.acked = ircd.acked, ircd'.authed = ircd.authed, ircd'.sasl => ircd.sasl,
         NoMore(toIrcd', toIrcd, Asked), NoMore(toUs', toUs, Told \cup Answers)
  PROVE  RegInv'
<1>1. RegShape(reg') /\ (reg'.welcome => reg.welcome) /\ (reg'.phase = "complete" => reg.phase = "complete")
  BY DEF RegInv, Shaped
<1>2. NoMore(toUs', toUs, Told)
  BY DEF NoMore
<1>3. \A o \in Items(toUs') : o.t \in {"AUTHENTICATE", "SASL"} => o \in Items(toUs)
  BY DEF NoMore, Answers
<1>4. ircd.authed => ircd'.authed
  OBVIOUS
<1>5. UNCHANGED given
  OBVIOUS
<1> HIDE DEF RegInv
<1> QED
  BY <1>1, <1>2, <1>3, <1>4, <1>5, Framed

\* The steps of recovery, of a client and of other users.
LEMMA Still ==
  ASSUME RegInv, UNCHANGED <<given, reg, ircd>>,
         NoMore(toIrcd', toIrcd, Asked), NoMore(toUs', toUs, Told \cup Answers)
  PROVE  RegInv'
<1>1. IrcdShape(ircd') /\ (ircd'.sasl => ircd.sasl)
  BY DEF RegInv, Shaped
<1>2. UNCHANGED <<given, reg>> /\ ircd'.welcome = ircd.welcome /\ ircd'.neg = ircd.neg
      /\ ircd'.acked = ircd.acked /\ ircd'.authed = ircd.authed
  OBVIOUS
<1> QED
  BY <1>1, <1>2, Steady

LEMMA QuietSteps ==
  ASSUME RegInv,
         \/ \E i \in Loops : Loop(i) \/ LoopExit(i)
         \/ handleRecoveryISON \/ Reclaim \/ handleSelfNickChange \/ clearNickRecoveryHold \/ ClientNick
         \/ IrcdError \/ IrcdRename(Guest) \/ ClientISON(Guest)
         \/ \E n \in {Guest, cfg.primary} : StopNickRecovery(n)
         \/ \E n \in Range(Ladder) : OtherUser(n)
         \/ UNCHANGED vars
  PROVE  RegInv'
<1> USE DEF Asked, Told, Answers
<1>1. IsQueue(toIrcd) /\ IsQueue(toUs) /\ IrcdShape(ircd)
  BY DEF RegInv, Shaped
<1>2. NoMore(toIrcd, toIrcd, Asked) /\ NoMore(toUs, toUs, Told \cup Answers)
  BY <1>1, NoneMore
<1>3. /\ \A m : m.t # "LS" /\ m.t \notin Asked => NoMore(Append(toIrcd, m), toIrcd, Asked)
      /\ \A m : m.t # "LS" /\ m.t \notin Told \cup Answers => NoMore(Append(toUs, m), toUs, Told \cup Answers)
      /\ toUs # <<>> => NoMore(Tail(toUs), toUs, Told \cup Answers)
  BY <1>1, NoneMore
<1> HIDE DEF RegInv
<1>4. \A n : NickLine(n).t = "NICK"
  BY DEF NickLine
<1>5. ASSUME NEW i \in Loops, Loop(i) \/ LoopExit(i)  PROVE RegInv'
  <2>1. CASE TickCheck(i) \/ TickPend(i) \/ LoopExit(i)
    BY <1>2, <2>1, Still DEF TickCheck, TickPend, LoopExit, wire
  <2>2. CASE TickSend(i)
    <3> DEFINE m == [t |-> "ISON", own |-> TRUE, nicks |-> loop[i].ask]
    <3>1. m.t = "ISON"
      OBVIOUS
    <3> HIDE DEF m
    <3>2. toIrcd' = Append(toIrcd, m) /\ UNCHANGED <<given, reg, ircd, toUs>>
      BY <2>2 DEF TickSend, m
    <3>3. NoMore(toIrcd', toIrcd, Asked)
      BY <1>3, <3>1, <3>2
    <3> QED
      BY <1>2, <3>2, <3>3, Still
  <2> QED
    BY <1>5, <2>1, <2>2 DEF Loop
<1>6. CASE handleRecoveryISON \/ handleSelfNickChange
  <2>1. toUs # <<>> /\ toUs' = Tail(toUs) /\ UNCHANGED <<given, reg, ircd, toIrcd>>
    BY <1>6 DEF handleRecoveryISON, handleSelfNickChange, Takes
  <2>2. NoMore(toUs', toUs, Told \cup Answers)
    BY <1>3, <2>1
  <2> QED
    BY <1>2, <2>1, <2>2, Still
<1>7. CASE Reclaim
  <2>1. toIrcd' = Append(toIrcd, NickLine(rx.want)) /\ UNCHANGED <<given, reg, ircd, toUs>>
    BY <1>7 DEF Reclaim
  <2>2. NoMore(toIrcd', toIrcd, Asked)
    BY <1>3, <1>4, <2>1
  <2> QED
    BY <1>2, <2>1, <2>2, Still
<1>8. CASE ClientNick
  <2>1. toIrcd' = Append(toIrcd, NickLine(client)) /\ UNCHANGED <<given, reg, ircd, toUs>>
    BY <1>8 DEF ClientNick
  <2>2. NoMore(toIrcd', toIrcd, Asked)
    BY <1>3, <1>4, <2>1
  <2> QED
    BY <1>2, <2>1, <2>2, Still
<1>9. CASE ClientISON(Guest)
  <2> DEFINE m == [t |-> "ISON", own |-> FALSE, nicks |-> {Guest}]
  <2>1. m.t = "ISON"
    OBVIOUS
  <2> HIDE DEF m
  <2>2. toIrcd' = Append(toIrcd, m) /\ UNCHANGED <<given, reg, ircd, toUs>>
    BY <1>9 DEF ClientISON, m
  <2>3. NoMore(toIrcd', toIrcd, Asked)
    BY <1>3, <2>1, <2>2
  <2> QED
    BY <1>2, <2>2, <2>3, Still
<1>10. CASE clearNickRecoveryHold \/ (\E n \in {Guest, cfg.primary} : StopNickRecovery(n))
            \/ (\E n \in Range(Ladder) : OtherUser(n))
  <2>1. UNCHANGED <<given, reg, ircd>> /\ UNCHANGED wire
    BY <1>10 DEF clearNickRecoveryHold, StopNickRecovery, OtherUser
  <2>2. NoMore(toIrcd', toIrcd, Asked) /\ NoMore(toUs', toUs, Told \cup Answers)
    BY <1>2, <2>1 DEF wire
  <2> QED
    BY <2>1, <2>2, Still
<1>11. CASE IrcdError
  <2>1. Reply("ERROR").t = "ERROR"
    BY DEF Reply
  <2>2. toUs' = Append(toUs, Reply("ERROR")) /\ UNCHANGED <<given, reg, ircd, toIrcd>>
    BY <1>11 DEF IrcdError
  <2>3. NoMore(toUs', toUs, Told \cup Answers)
    BY <1>3, <2>1, <2>2
  <2> QED
    BY <1>2, <2>2, <2>3, Still
<1>12. CASE IrcdRename(Guest)
  <2> DEFINE m == [t |-> "NICK", from |-> ircd.nick, nick |-> Guest]
  <2>1. m.t = "NICK"
    OBVIOUS
  <2> HIDE DEF m
  <2>2. toUs' = Append(toUs, m) /\ ircd' = [ircd EXCEPT !.nick = Guest] /\ UNCHANGED <<given, reg, toIrcd>>
    BY <1>12 DEF IrcdRename, m
  <2>3. NoMore(toUs', toUs, Told \cup Answers)
    BY <1>3, <2>1, <2>2
  <2>4. IrcdShape(ircd') /\ ircd'.welcome = ircd.welcome /\ ircd'.neg = ircd.neg /\ ircd'.acked = ircd.acked
        /\ ircd'.authed = ircd.authed /\ ircd'.sasl = ircd.sasl
    BY <1>1, <2>2 DEF IrcdShape
  <2> QED
    BY <1>2, <2>2, <2>3, <2>4, Steady
<1>13. CASE UNCHANGED vars
  <2>1. UNCHANGED <<given, reg, ircd, toIrcd, toUs>>
    BY <1>13 DEF vars, given
  <2>2. NoMore(toIrcd', toIrcd, Asked) /\ NoMore(toUs', toUs, Told \cup Answers)
    BY <1>2, <2>1
  <2> QED
    BY <2>1, <2>2, Still
<1> QED
  BY <1>5, <1>6, <1>7, <1>8, <1>9, <1>10, <1>11, <1>12, <1>13

\* The ircd's answers to nicks and enquiries, the welcome, and the capabilities that come and go.
LEMMA IrcdSteps ==
  ASSUME RegInv, IrcdNick \/ IrcdISON \/ IrcdCapDel
  PROVE  RegInv'
<1> USE DEF Asked, Told, Answers
<1>1. IsQueue(toIrcd) /\ IsQueue(toUs) /\ IrcdShape(ircd)
  BY DEF RegInv, Shaped
<1>2. NoMore(toIrcd, toIrcd, Asked) /\ NoMore(toUs, toUs, Told \cup Answers)
  BY <1>1, NoneMore
<1>3. /\ toIrcd # <<>> => NoMore(Tail(toIrcd), toIrcd, Asked)
      /\ \A m : m.t # "LS" /\ m.t \notin Told \cup Answers => NoMore(Append(toUs, m), toUs, Told \cup Answers)
  BY <1>1, NoneMore
<1> HIDE DEF RegInv
<1>4. CASE IrcdNick
  <2> DEFINE bad  == Head(toIrcd).nick
             nick == Prefix(bad, srv.nickLen)
             no   == [t |-> "433", bad |-> bad]
             new  == [t |-> "NICK", from |-> ircd.nick, nick |-> nick]
  <2>1. no.t = "433" /\ new.t = "NICK"
    OBVIOUS
  <2> HIDE DEF no, new
  <2>2. toIrcd # <<>> /\ toIrcd' = Tail(toIrcd) /\ UNCHANGED <<given, reg>>
    BY <1>4 DEF IrcdNick, Serve
  <2>3. /\ toUs' \in {toUs, Append(toUs, no), Append(toUs, new)}
        /\ ircd' = ircd \/ ircd' = [ircd EXCEPT !.nick = nick]
    BY <1>4 DEF IrcdNick, no, new
  <2> HIDE DEF nick
  <2>4. IrcdShape(ircd') /\ ircd'.welcome = ircd.welcome /\ ircd'.neg = ircd.neg /\ ircd'.acked = ircd.acked
        /\ ircd'.authed = ircd.authed /\ ircd'.sasl = ircd.sasl
    BY <1>1, <2>3 DEF IrcdShape
  <2>5. NoMore(toIrcd', toIrcd, Asked) /\ NoMore(toUs', toUs, Told \cup Answers)
    BY <1>2, <1>3, <2>1, <2>2, <2>3
  <2> QED
    BY <2>2, <2>4, <2>5, Steady
<1>5. CASE IrcdISON
  <2> DEFINE online == {Fold(n) : n \in Head(toIrcd).nicks} \intersect (taken \union {Fold(ircd.nick)})
             m == [t |-> "303", own |-> Head(toIrcd).own, online |-> online]
  <2>1. m.t = "303"
    OBVIOUS
  <2> HIDE DEF m
  <2>2. toIrcd # <<>> /\ toIrcd' = Tail(toIrcd) /\ UNCHANGED <<given, reg, ircd>> /\ toUs' = Append(toUs, m)
    BY <1>5 DEF IrcdISON, Serve, m
  <2>3. NoMore(toIrcd', toIrcd, Asked) /\ NoMore(toUs', toUs, Told \cup Answers)
    BY <1>3, <2>1, <2>2
  <2> QED
    BY <2>2, <2>3, Still
<1>6. CASE IrcdCapDel
  <2>1. Reply("DEL").t = "DEL"
    BY DEF Reply
  <2>2. toUs' = Append(toUs, Reply("DEL")) /\ ircd' = [ircd EXCEPT !.sasl = FALSE, !.mech = "none", !.round = 0]
        /\ UNCHANGED <<given, reg, toIrcd>>
    BY <1>6 DEF IrcdCapDel
  <2>3. IrcdShape(ircd') /\ ircd'.welcome = ircd.welcome /\ ircd'.neg = ircd.neg /\ ircd'.acked = ircd.acked
        /\ ircd'.authed = ircd.authed /\ ~ircd'.sasl
    BY <1>1, <2>2 DEF IrcdShape
  <2>4. NoMore(toIrcd', toIrcd, Asked) /\ NoMore(toUs', toUs, Told \cup Answers)
    BY <1>2, <1>3, <2>1, <2>2
  <2> QED
    BY <2>2, <2>3, <2>4, Steady
<1> QED
  BY <1>4, <1>5, <1>6

\* To a welcomed connection any line may come.
LEMMA WelcomeKeeps ==
  ASSUME RegInv, UNCHANGED <<given, reg>>, IsQueue(toIrcd'), IsQueue(toUs'), IrcdShape(ircd'),
         ircd'.welcome, ircd'.acked = ircd.acked, ircd'.authed = ircd.authed,
         ircd.welcome \/ ~ircd.neg,
         \A o \in Items(toUs') : o.t = "SASL" => o \in Items(toUs)
  PROVE  RegInv'
<1>1. cfg' = cfg /\ Given' /\ reg' = reg
  BY DEF RegInv, Shaped, Given, given
<1>2. Shaped' /\ Welcomed' /\ Negotiation'
  BY <1>1 DEF Shaped, Welcomed, Negotiation, RegInv
<1>3. SuccessIsReal'
  BY DEF SuccessIsReal, RegInv
<1>4. ~(cfg.required /\ ircd.acked /\ ~ircd.authed)
  BY DEF HeldBack, RegInv
<1>5. HeldBack'
  BY <1>1, <1>4 DEF HeldBack
<1> QED
  BY <1>2, <1>3, <1>5 DEF RegInv

LEMMA WelcomeSteps ==
  ASSUME RegInv, IrcdWelcome \/ IrcdCapNew
  PROVE  RegInv'
<1>1. IsQueue(toIrcd) /\ IsQueue(toUs) /\ IrcdShape(ircd)
  BY DEF RegInv, Shaped
<1> HIDE DEF RegInv
<1>2. CASE IrcdWelcome
  <2> DEFINE w == [t |-> "001", nick |-> ircd.nick]
             e == Reply("376")
  <2>1. w.t = "001" /\ e.t = "376"
    BY DEF Reply
  <2> HIDE DEF w, e
  <2>2. toUs' = toUs \o <<w, e>> /\ ircd' = [ircd EXCEPT !.welcome = TRUE] /\ ~ircd.neg
        /\ UNCHANGED <<given, reg, toIrcd>>
    BY <1>2 DEF IrcdWelcome, w, e
  <2>3. IrcdShape(ircd') /\ ircd'.welcome /\ ircd'.acked = ircd.acked /\ ircd'.authed = ircd.authed
    BY <1>1, <2>2 DEF IrcdShape
  <2>4. IsQueue(<<w, e>>) /\ Items(<<w, e>>) = {w, e}
    BY Two
  <2>5. IsQueue(toUs') /\ Items(toUs') = Items(toUs) \cup {w, e}
    BY <1>1, <2>2, <2>4, AddedItems
  <2>6. \A o \in Items(toUs') : o.t = "SASL" => o \in Items(toUs)
    BY <2>1, <2>5
  <2>7. IsQueue(toIrcd')
    BY <1>1, <2>2
  <2> QED
    BY <2>2, <2>3, <2>5, <2>6, <2>7, WelcomeKeeps
<1>3. CASE IrcdCapNew
  <2> DEFINE m == [t |-> "NEW", mechs |-> srv.mechs]
  <2>1. m.t = "NEW"
    OBVIOUS
  <2> HIDE DEF m
  <2>2. toUs' = Append(toUs, m) /\ ircd.welcome /\ UNCHANGED <<given, reg, toIrcd, ircd>>
    BY <1>3 DEF IrcdCapNew, m
  <2>3. IsQueue(toUs') /\ Items(toUs') = Items(toUs) \cup {m}
    BY <1>1, <2>2, AppendedItems
  <2>4. \A o \in Items(toUs') : o.t = "SASL" => o \in Items(toUs)
    BY <2>1, <2>3
  <2>5. IsQueue(toIrcd') /\ IrcdShape(ircd') /\ ircd'.welcome /\ ircd'.acked = ircd.acked
        /\ ircd'.authed = ircd.authed
    BY <1>1, <2>2
  <2> QED
    BY <2>2, <2>3, <2>4, <2>5, WelcomeKeeps
<1> QED
  BY <1>2, <1>3

\* The negotiation, one request at a time.
LEMMA Lists ==
  ASSUME Given
  PROVE  /\ IsQueue(CapList) /\ ListEnds(CapList) /\ \A o \in Items(CapList) : o.t = "LS"
         /\ CapList # <<>> => srv.cap
<1> DEFINE ls(caps, more) == [t |-> "LS", caps |-> caps, mechs |-> srv.mechs, more |-> more]
           all  == ls(srv.caps, FALSE)
           most == ls(srv.caps \ {"sasl"}, TRUE)
           sasl == ls(srv.caps \intersect {"sasl"}, FALSE)
<1>1. all.t = "LS" /\ most.t = "LS" /\ sasl.t = "LS" /\ most.more
  OBVIOUS
<1>2. CapList = IF ~srv.cap THEN <<>> ELSE IF srv.split THEN <<most, sasl>> ELSE <<all>>
  BY DEF CapList
<1> HIDE DEF all, most, sasl
<1>3. CASE ~srv.cap
  <2>1. CapList = <<>>
    BY <1>2, <1>3
  <2>2. IsQueue(<<>>) /\ Items(<<>>) = {} /\ ListEnds(<<>>)
    BY NoneThere DEF ListEnds
  <2> QED
    BY <2>1, <2>2
<1>4. CASE srv.cap /\ srv.split
  <2>1. CapList = <<most, sasl>>
    BY <1>2, <1>4
  <2>2. IsQueue(<<most, sasl>>) /\ Items(<<most, sasl>>) = {most, sasl}
    BY Two
  <2>3. ListEnds(<<most, sasl>>)
    BY <1>1 DEF ListEnds
  <2> QED
    BY <1>1, <1>4, <2>1, <2>2, <2>3
<1>5. CASE srv.cap /\ ~srv.split
  <2>1. CapList = <<all>>
    BY <1>2, <1>5
  <2>2. IsQueue(<<all>>) /\ Items(<<all>>) = {all}
    BY One
  <2>3. ListEnds(<<all>>)
    BY DEF ListEnds
  <2> QED
    BY <1>1, <1>5, <2>1, <2>2, <2>3
<1> QED
  BY <1>3, <1>4, <1>5

LEMMA NextAsked ==
  ASSUME RegInv, toIrcd # <<>>, toIrcd' = Tail(toIrcd)
  PROVE  /\ IsQueue(toIrcd') /\ Items(toIrcd') \subseteq Items(toIrcd)
         /\ \A t : (Has(toIrcd', t) => Has(toIrcd, t)) /\ Has(toIrcd, Head(toIrcd).t)
                   /\ (Once(toIrcd, t) => Once(toIrcd', t) /\ (Head(toIrcd).t = t => ~Has(toIrcd', t)))
<1>1. IsQueue(toIrcd)
  BY DEF RegInv, Shaped
<1>2. /\ IsQueue(toIrcd') /\ Items(toIrcd') \subseteq Items(toIrcd) /\ Head(toIrcd) \in Items(toIrcd)
      /\ \A t : (Once(toIrcd, t) => Once(toIrcd', t) /\ (Head(toIrcd).t = t => ~Has(toIrcd', t)))
  BY <1>1, Taken
<1>3. \A t : Has(toIrcd', t) => Has(toIrcd, t)
  BY <1>2 DEF Has
<1>4. Has(toIrcd, Head(toIrcd).t)
  BY <1>2 DEF Has
<1> QED
  BY <1>2, <1>3, <1>4

LEMMA ListKeeps ==
  ASSUME RegInv, Serve("CAP LS"), ircd' = [ircd EXCEPT !.neg = srv.cap], toUs' = toUs \o CapList
  PROVE  RegInv'
<1>1. /\ IsQueue(toIrcd) /\ IsQueue(toUs) /\ IrcdShape(ircd) /\ Given
      /\ cfg' = cfg /\ reg' = reg /\ Given' /\ RegShape(reg')
  BY DEF RegInv, Shaped, Serve, given, Given
<1>2. toIrcd # <<>> /\ toIrcd' = Tail(toIrcd) /\ Head(toIrcd).t = "CAP LS"
  BY DEF Serve
<1>3. /\ IsQueue(toIrcd') /\ Items(toIrcd') \subseteq Items(toIrcd) /\ Has(toIrcd, "CAP LS")
      /\ \A t : (Has(toIrcd', t) => Has(toIrcd, t))
      /\ \A t : (Once(toIrcd, t) => Once(toIrcd', t))
      /\ Once(toIrcd, "CAP LS") => ~Has(toIrcd', "CAP LS")
  BY <1>2, NextAsked
<1>4. /\ IrcdShape(ircd') /\ ircd'.welcome = ircd.welcome /\ ircd'.neg = srv.cap /\ ircd'.acked = ircd.acked
      /\ ircd'.authed = ircd.authed /\ ircd'.sasl = ircd.sasl
  BY <1>1 DEF IrcdShape
<1>5. /\ IsQueue(CapList) /\ ListEnds(CapList) /\ \A o \in Items(CapList) : o.t = "LS"
      /\ CapList # <<>> => srv.cap
  BY <1>1, Lists
<1> DEFINE q == CapList
<1> HIDE DEF q
<1>6. /\ IsQueue(toUs') /\ Items(toUs') = Items(toUs) \cup Items(CapList)
      /\ ~Has(toUs, "LS") => ListEnds(toUs')
  BY <1>1, <1>5, AddedItems
<1>7. \A t : t # "LS" /\ Has(toUs', t) => Has(toUs, t)
  BY <1>5, <1>6 DEF Has
<1>8. ~Has(toUs, "LS") /\ Has(toUs', "LS") => srv.cap
  <2>1. Items(<<>>) = {}
    BY NoneThere
  <2> QED
    BY <1>5, <1>6, <2>1 DEF Has
<1>9. Shaped' /\ Welcomed' /\ SuccessIsReal'
  BY <1>1, <1>3, <1>4, <1>5, <1>6, <1>7 DEF Shaped, Welcomed, SuccessIsReal, RegInv
<1>10. Negotiation'
  <2> SUFFICES ASSUME ~ircd.welcome
               PROVE  Negotiation'
    BY <1>4 DEF Negotiation
  <2>1. /\ ~Has(toUs, "LS") /\ ~Has(toIrcd, "CAP REQ") /\ ~Has(toUs, "ACK") /\ ~Has(toUs, "NAK")
        /\ ~Has(toIrcd, "CAP END") /\ ~ircd.acked /\ ~ircd.sasl
        /\ ~Has(toUs, "AUTHENTICATE") /\ ~Has(toUs, "SASL")
        /\ Once(toIrcd, "CAP LS") /\ Once(toIrcd, "CAP REQ")
    BY <1>3 DEF RegInv, Negotiation, Listing, Asking, Answered, Over
  <2>2. \A o \in Items(toIrcd') : o.t = "CAP REQ" /\ "sasl" \in o.caps => cfg.wanted
    BY <1>3 DEF RegInv, Negotiation
  <2> QED
    BY <1>1, <1>3, <1>4, <1>6, <1>7, <1>8, <2>1, <2>2 DEF Negotiation, Listing, Asking, Answered, Over
<1>11. HeldBack'
  BY <1>1, <1>3, <1>4 DEF HeldBack, RegInv
<1> QED
  BY <1>9, <1>10, <1>11 DEF RegInv

LEMMA EndKeeps ==
  ASSUME RegInv, Serve("CAP END"), ircd' = [ircd EXCEPT !.neg = FALSE], toUs' = toUs
  PROVE  RegInv'
<1>1. /\ IsQueue(toIrcd) /\ IsQueue(toUs) /\ IrcdShape(ircd) /\ Given
      /\ cfg' = cfg /\ reg' = reg /\ Given' /\ RegShape(reg')
  BY DEF RegInv, Shaped, Serve, given, Given
<1>2. toIrcd # <<>> /\ toIrcd' = Tail(toIrcd) /\ Head(toIrcd).t = "CAP END"
  BY DEF Serve
<1>3. /\ IsQueue(toIrcd') /\ Items(toIrcd') \subseteq Items(toIrcd) /\ Has(toIrcd, "CAP END")
      /\ \A t : (Has(toIrcd', t) => Has(toIrcd, t))
      /\ \A t : (Once(toIrcd, t) => Once(toIrcd', t))
  BY <1>2, NextAsked
<1>4. /\ IrcdShape(ircd') /\ ircd'.welcome = ircd.welcome /\ ircd'.acked = ircd.acked
      /\ ircd'.authed = ircd.authed /\ ircd'.sasl = ircd.sasl
  BY <1>1 DEF IrcdShape
<1>5. Shaped' /\ Welcomed' /\ SuccessIsReal'
  BY <1>1, <1>3, <1>4 DEF Shaped, Welcomed, SuccessIsReal, RegInv
<1>6. Negotiation'
  <2> SUFFICES ASSUME ~ircd.welcome
               PROVE  Negotiation'
    BY <1>4 DEF Negotiation
  <2>1. /\ ~Has(toIrcd, "CAP LS") /\ ~Has(toUs, "LS") /\ ~Has(toIrcd, "CAP REQ")
        /\ Once(toIrcd, "CAP LS") /\ Once(toIrcd, "CAP REQ") /\ ListEnds(toUs)
        /\ ~ircd.acked => ~ircd.sasl /\ ~Has(toUs, "AUTHENTICATE") /\ ~Has(toUs, "SASL")
    BY <1>3 DEF RegInv, Negotiation, Listing, Asking, Over
  <2>2. \A o \in Items(toIrcd') : o.t = "CAP REQ" /\ "sasl" \in o.caps => cfg.wanted
    BY <1>3 DEF RegInv, Negotiation
  <2> QED
    BY <1>1, <1>3, <1>4, <2>1, <2>2 DEF Negotiation, Listing, Asking
<1>7. HeldBack'
  BY <1>1, <1>3, <1>4 DEF HeldBack, RegInv, Over
<1> QED
  BY <1>5, <1>6, <1>7 DEF RegInv

LEMMA GrantKeeps ==
  ASSUME RegInv, Serve("CAP REQ"), NEW m,
         \/ /\ m.t = "ACK" /\ m.caps = Head(toIrcd).caps
            /\ ircd' = [ircd EXCEPT !.sasl = @ \/ "sasl" \in Head(toIrcd).caps,
                                    !.acked = @ \/ (~ircd.welcome /\ "sasl" \in Head(toIrcd).caps)]
         \/ m.t = "NAK" /\ ircd' = ircd,
         toUs' = Append(toUs, m)
  PROVE  RegInv'
<1> DEFINE got == m.t = "ACK" /\ "sasl" \in Head(toIrcd).caps
<1>1. /\ IsQueue(toIrcd) /\ IsQueue(toUs) /\ IrcdShape(ircd) /\ Given
      /\ cfg' = cfg /\ reg' = reg /\ Given' /\ RegShape(reg')
  BY DEF RegInv, Shaped, Serve, given, Given
<1>2. toIrcd # <<>> /\ toIrcd' = Tail(toIrcd) /\ Head(toIrcd).t = "CAP REQ"
  BY DEF Serve
<1>3. /\ IsQueue(toIrcd') /\ Items(toIrcd') \subseteq Items(toIrcd) /\ Has(toIrcd, "CAP REQ")
      /\ \A t : (Has(toIrcd', t) => Has(toIrcd, t))
      /\ \A t : (Once(toIrcd, t) => Once(toIrcd', t))
      /\ Once(toIrcd, "CAP REQ") => ~Has(toIrcd', "CAP REQ")
  BY <1>2, NextAsked
<1>4. IrcdShape(ircd') /\ ircd'.welcome = ircd.welcome /\ ircd'.neg = ircd.neg /\ ircd'.authed = ircd.authed
  BY <1>1 DEF IrcdShape
<1>5. /\ ircd'.sasl <=> ircd.sasl \/ got
      /\ ircd'.acked <=> ircd.acked \/ (~ircd.welcome /\ got)
  BY <1>1 DEF IrcdShape
<1>6. /\ IsQueue(toUs') /\ Items(toUs') = Items(toUs) \cup {m} /\ m.t # "LS"
      /\ ListEnds(toUs) => ListEnds(toUs')
  <2>1. m.t \in {"ACK", "NAK"} /\ m.t # "LS"
    OBVIOUS
  <2>2. /\ IsQueue(toUs') /\ Items(toUs') = Items(toUs) \cup {m}
        /\ ListEnds(toUs) /\ m.t # "LS" => ListEnds(toUs')
    BY <1>1, Appended
  <2> QED
    BY <2>1, <2>2
<1>7. \A t : t \notin {"ACK", "NAK"} /\ Has(toUs', t) => Has(toUs, t)
  BY <1>6 DEF Has
<1>8. m.t = "ACK" => m.caps = Head(toIrcd).caps
  OBVIOUS
<1>9. Shaped' /\ Welcomed' /\ SuccessIsReal'
  BY <1>1, <1>3, <1>4, <1>6, <1>7 DEF Shaped, Welcomed, SuccessIsReal, RegInv
<1>10. ASSUME ~ircd.welcome
      PROVE  /\ ~Has(toUs, "LS") /\ ~Has(toIrcd, "CAP LS") /\ ~Has(toIrcd, "CAP END") /\ ircd.neg
             /\ ~Has(toUs, "ACK") /\ ~Has(toUs, "NAK") /\ ~ircd.acked /\ ~ircd.sasl
             /\ ~Has(toUs, "AUTHENTICATE") /\ ~Has(toUs, "SASL")
             /\ Once(toIrcd, "CAP LS") /\ Once(toIrcd, "CAP REQ") /\ ListEnds(toUs)
             /\ got => cfg.wanted
  <2>1. Head(toIrcd) \in Items(toIrcd)
    BY <1>1, <1>2, Taken
  <2> QED
    BY <1>2, <1>3, <1>10, <2>1 DEF RegInv, Negotiation, Listing, Asking, Answered, Over
<1>11. Negotiation'
  <2> SUFFICES ASSUME ~ircd.welcome
               PROVE  Negotiation'
    BY <1>4 DEF Negotiation
  <2>1. \A o \in Items(toIrcd') : o.t = "CAP REQ" /\ "sasl" \in o.caps => cfg.wanted
    BY <1>3 DEF RegInv, Negotiation
  <2> HIDE DEF got
  <2> QED
    BY <1>1, <1>3, <1>4, <1>5, <1>6, <1>7, <1>10, <2>1 DEF Negotiation, Listing, Asking, Answered, Over
<1>12. HeldBack'
  <2>1. CASE ircd.welcome
    BY <1>1, <1>4, <1>5, <2>1 DEF HeldBack, RegInv
  <2>2. CASE ~ircd.welcome /\ ~got
    BY <1>1, <1>4, <1>5, <1>10, <2>2 DEF HeldBack
  <2>3. CASE ~ircd.welcome /\ got
    <3>1. \A o \in Items(toUs') : (o.t = "ACK" => "sasl" \in o.caps) /\ o.t # "NAK"
      BY <1>6, <1>8, <1>10, <2>3 DEF Has
    <3>2. ~Has(toUs', "NAK") /\ ~Has(toUs', "LS")
      <4>1. ~Has(toUs', "NAK")
        BY <3>1 DEF Has
      <4>2. ~Has(toUs', "LS")
        BY <1>7, <1>10, <2>3
      <4> QED
        BY <4>1, <4>2
    <3>3. ~Has(toIrcd', "CAP LS") /\ ~Has(toIrcd', "CAP REQ") /\ ~Has(toIrcd', "CAP END") /\ cfg.wanted /\ ircd.neg
      BY <1>3, <1>10, <2>3
    <3>4. cfg'.wanted /\ ircd'.neg /\ ~ircd'.welcome
      BY <1>1, <1>4, <2>3, <3>3
    <3> HIDE DEF got
    <3> QED
      BY <3>1, <3>2, <3>3, <3>4 DEF HeldBack, Asking, Over, Listing
  <2> QED
    BY <2>1, <2>2, <2>3
<1> QED
  BY <1>9, <1>11, <1>12 DEF RegInv

LEMMA CapSteps ==
  ASSUME RegInv, IrcdCap
  PROVE  RegInv'
<1> HIDE DEF RegInv
<1>1. CASE Serve("CAP LS") /\ ircd' = [ircd EXCEPT !.neg = srv.cap] /\ toUs' = toUs \o CapList
  BY <1>1, ListKeeps
<1>2. CASE Serve("CAP END") /\ ircd' = [ircd EXCEPT !.neg = FALSE] /\ toUs' = toUs
  BY <1>2, EndKeeps
<1>3. CASE Serve("USER") /\ ircd' = [ircd EXCEPT !.user = TRUE] /\ toUs' = toUs
  <2>1. IsQueue(toIrcd) /\ IsQueue(toUs) /\ IrcdShape(ircd)
    BY DEF RegInv, Shaped
  <2>2. toIrcd # <<>> /\ toIrcd' = Tail(toIrcd) /\ UNCHANGED <<given, reg>>
    BY <1>3 DEF Serve
  <2>3. IrcdShape(ircd') /\ ircd'.welcome = ircd.welcome /\ ircd'.neg = ircd.neg /\ ircd'.acked = ircd.acked
        /\ ircd'.authed = ircd.authed /\ ircd'.sasl = ircd.sasl
    BY <1>3, <2>1 DEF IrcdShape
  <2>4. NoMore(toIrcd', toIrcd, Asked) /\ NoMore(toUs', toUs, Told \cup Answers)
    BY <1>3, <2>1, <2>2, NoneMore
  <2> QED
    BY <2>2, <2>3, <2>4, Steady
<1>4. CASE /\ Serve("CAP REQ")
           /\ toUs' = Append(toUs, [t |-> "ACK", caps |-> Head(toIrcd).caps])
           /\ ircd' = [ircd EXCEPT !.sasl = @ \/ "sasl" \in Head(toIrcd).caps,
                                   !.acked = @ \/ (~ircd.welcome /\ "sasl" \in Head(toIrcd).caps)]
  <2> DEFINE m == [t |-> "ACK", caps |-> Head(toIrcd).caps]
  <2>1. m.t = "ACK" /\ m.caps = Head(toIrcd).caps
    OBVIOUS
  <2>2. toUs' = Append(toUs, m)
    BY <1>4
  <2> HIDE DEF m
  <2> QED
    BY <1>4, <2>1, <2>2, GrantKeeps
<1>5. CASE Serve("CAP REQ") /\ toUs' = Append(toUs, Reply("NAK")) /\ ircd' = ircd
  <2>1. Reply("NAK").t = "NAK"
    BY DEF Reply
  <2> QED
    BY <1>5, <2>1, GrantKeeps
<1> QED
  BY <1>1, <1>2, <1>3, <1>4, <1>5 DEF IrcdCap

\* The SASL agent only answers who was granted sasl, and a success is one.
LEMMA AgentKeeps ==
  ASSUME RegInv, IrcdAuthenticate
  PROVE  RegInv'
<1> DEFINE m == Head(toIrcd)
           ended == [ircd EXCEPT !.mech = "none", !.round = 0]
           no == Outcome(FALSE)
<1>1. IsQueue(toIrcd) /\ IsQueue(toUs) /\ IrcdShape(ircd) /\ RegShape(reg)
  BY DEF RegInv, Shaped
<1>2. \A o \in Items(toUs) : o.t = "SASL" /\ o.ok => ircd.authed
  BY DEF RegInv, SuccessIsReal
<1> HIDE DEF RegInv
<1>3. toIrcd # <<>> /\ toIrcd' = Tail(toIrcd) /\ UNCHANGED <<given, reg>>
  BY DEF IrcdAuthenticate, Serve
<1>4. NoMore(toIrcd', toIrcd, Asked)
  BY <1>1, <1>3, NoneMore
<1>5. /\ \A a : Auth(a).t = "AUTHENTICATE"
      /\ \A ok : Outcome(ok).t = "SASL" /\ Outcome(ok).ok = ok
  BY DEF Auth, Outcome
\* What it answers.
<1>6. ASSUME IrcdShape(ircd'), ircd'.welcome = ircd.welcome, ircd'.neg = ircd.neg, ircd'.acked = ircd.acked,
             ircd.authed => ircd'.authed, ircd'.sasl = ircd.sasl, ircd.sasl,
             NEW p, IsQueue(p), toUs' = toUs \o p,
             \A o \in Items(p) : o.t \in {"AUTHENTICATE", "SASL"} /\ (o.t = "SASL" /\ o.ok => ircd'.authed)
      PROVE  RegInv'
  <2>1. IsQueue(toUs') /\ Items(toUs') = Items(toUs) \cup Items(p) /\ (\A t : (Once(toUs, t) /\ ~Has(p, t) => Once(toUs', t)))
        /\ (ListEnds(toUs) /\ ~Has(p, "LS") => ListEnds(toUs'))
    BY <1>1, <1>6, AddedItems
  <2>2. \A t : t \notin {"AUTHENTICATE", "SASL"} => ~Has(p, t)
    BY <1>6 DEF Has
  <2>3. NoMore(toUs', toUs, Told)
    BY <1>6, <2>1, <2>2 DEF NoMore, Told
  <2>4. \A o \in Items(toUs') : o.t \in {"AUTHENTICATE", "SASL"} =>
            \/ o \in Items(toUs)
            \/ ircd.sasl /\ (o.t = "SASL" /\ o.ok => ircd'.authed)
    BY <1>6, <2>1
  <2>5. RegShape(reg') /\ (reg'.welcome => reg.welcome) /\ (reg'.phase = "complete" => reg.phase = "complete")
    BY <1>1, <1>3
  <2>6. UNCHANGED given
    BY <1>3
  <2>7. ircd'.sasl => ircd.sasl
    BY <1>6
  <2> QED
    BY <1>4, <1>6, <2>3, <2>4, <2>5, <2>6, <2>7, Framed
<1>7. ASSUME ircd.sasl, NEW o, toUs' = Append(toUs, o),
             IrcdShape(ircd'), ircd'.welcome = ircd.welcome, ircd'.neg = ircd.neg, ircd'.acked = ircd.acked,
             ircd'.authed = ircd.authed, ircd'.sasl = ircd.sasl,
             o.t \in {"AUTHENTICATE", "SASL"}, o.t = "SASL" => ~o.ok
      PROVE  RegInv'
  <2>1. IsQueue(<<o>>) /\ Items(<<o>>) = {o}
    BY One
  <2>2. toUs' = toUs \o <<o>>
    <3>1. toUs \in Seq(Items(toUs) \cup {o})
      BY <1>1, Wider DEF IsQueue
    <3> QED
      BY <1>7, <3>1
  <2> QED
    BY <1>6, <1>7, <2>1, <2>2
\* When it does.
<1>8. CASE UNCHANGED <<ircd, toUs>>
  <2>1. NoMore(toUs', toUs, Told \cup Answers)
    BY <1>1, <1>8, NoneMore
  <2>2. UNCHANGED <<given, reg, ircd>>
    BY <1>3, <1>8
  <2> QED
    BY <1>4, <2>1, <2>2, Still
<1>9. CASE ircd.sasl /\ toUs' = Append(toUs, no) /\ ircd' \in {ended, ircd}
  <2>1. no.t = "SASL" /\ ~no.ok
    BY <1>5
  <2>2. IrcdShape(ircd') /\ ircd'.welcome = ircd.welcome /\ ircd'.neg = ircd.neg /\ ircd'.acked = ircd.acked
        /\ ircd'.authed = ircd.authed /\ ircd'.sasl = ircd.sasl
    BY <1>1, <1>9 DEF IrcdShape
  <2> HIDE DEF no
  <2> QED
    BY <1>7, <1>9, <2>1, <2>2
<1>10. CASE ircd.sasl /\ \E a : toUs' = Append(toUs, Auth(a))
                  /\ \E x, n : ircd' \in {[ircd EXCEPT !.mech = x], [ircd EXCEPT !.round = n]}
  <2>1. PICK a : toUs' = Append(toUs, Auth(a))
    BY <1>10
  <2>2. PICK x, n : ircd' \in {[ircd EXCEPT !.mech = x], [ircd EXCEPT !.round = n]}
    BY <1>10
  <2>3. IrcdShape(ircd') /\ ircd'.welcome = ircd.welcome /\ ircd'.neg = ircd.neg /\ ircd'.acked = ircd.acked
        /\ ircd'.authed = ircd.authed /\ ircd'.sasl = ircd.sasl
    BY <1>1, <2>2 DEF IrcdShape
  <2>4. Auth(a).t = "AUTHENTICATE"
    BY <1>5
  <2> QED
    BY <1>7, <1>10, <2>1, <2>3, <2>4
<1>11. CASE ircd.sasl /\ \E v \in Verdicts : ircd' = [ended EXCEPT !.authed = v[1]] /\ toUs' = toUs \o v[2]
  <2>1. PICK v \in Verdicts : ircd' = [ended EXCEPT !.authed = v[1]] /\ toUs' = toUs \o v[2]
    BY <1>11
  <2> DEFINE star == Auth("*")
             yes  == Outcome(TRUE)
  <2>2. star.t = "AUTHENTICATE" /\ no.t = "SASL" /\ ~no.ok /\ yes.t = "SASL"
    BY <1>5
  <2>3. /\ v[1] = ircd.authed \/ v[1] = TRUE
        /\ v[2] \in {<<no>>, <<star, no>>} \/ (v[2] = <<yes>> /\ v[1] = TRUE)
    <3>1. \/ v = <<ircd.authed, <<no>>>>
          \/ v = <<ircd.authed, <<star, no>>>>
          \/ v = <<TRUE, <<yes>>>>
      BY DEF Verdicts
    <3>2. \A a, b : <<a, b>>[1] = a /\ <<a, b>>[2] = b
      OBVIOUS
    <3> HIDE DEF no, star, yes
    <3>3. CASE v = <<ircd.authed, <<no>>>>
      BY <3>2, <3>3
    <3>4. CASE v = <<ircd.authed, <<star, no>>>>
      BY <3>2, <3>4
    <3>5. CASE v = <<TRUE, <<yes>>>>
      BY <3>2, <3>5
    <3> QED
      BY <3>1, <3>3, <3>4, <3>5
  <2>4. /\ IrcdShape(ircd') /\ ircd'.welcome = ircd.welcome /\ ircd'.neg = ircd.neg /\ ircd'.acked = ircd.acked
        /\ ircd'.sasl = ircd.sasl /\ ircd'.authed = v[1]
    BY <1>1, <2>1 DEF IrcdShape
  <2>5. ircd.authed => ircd'.authed
    BY <2>3, <2>4
  <2> HIDE DEF no, star, yes
  <2>6. IsQueue(v[2]) /\ \A o \in Items(v[2]) :
             o.t \in {"AUTHENTICATE", "SASL"} /\ (o.t = "SASL" /\ o.ok => ircd'.authed)
    <3>1. CASE v[2] = <<no>>
      <4>1. IsQueue(<<no>>) /\ Items(<<no>>) = {no}
        BY One
      <4> QED
        BY <2>2, <3>1, <4>1
    <3>2. CASE v[2] = <<star, no>>
      <4>1. IsQueue(<<star, no>>) /\ Items(<<star, no>>) = {star, no}
        BY Two
      <4> QED
        BY <2>2, <3>2, <4>1
    <3>3. CASE v[2] = <<yes>> /\ v[1] = TRUE
      <4>1. IsQueue(<<yes>>) /\ Items(<<yes>>) = {yes}
        BY One
      <4>2. ircd'.authed
        BY <2>4, <3>3
      <4> QED
        BY <2>2, <3>3, <4>1, <4>2
    <3> QED
      BY <2>3, <3>1, <3>2, <3>3
  <2> QED
    BY <1>6, <1>11, <2>1, <2>4, <2>5, <2>6
<1> QED
  <2>1. CASE ~ircd.sasl
    BY <1>8, <2>1 DEF IrcdAuthenticate
  <2>2. CASE ircd.sasl /\ m.arg = "*"
    BY <1>9, <2>2 DEF IrcdAuthenticate
  <2>3. CASE ircd.sasl /\ m.arg # "*" /\ ircd.mech = "none"
    <3>1. \/ \E x : ircd' = [ircd EXCEPT !.mech = x] /\ toUs' = Append(toUs, Auth("+"))
          \/ ircd' = ircd /\ toUs' = Append(toUs, no)
      BY <2>3 DEF IrcdAuthenticate
    <3>2. CASE \E x : ircd' = [ircd EXCEPT !.mech = x] /\ toUs' = Append(toUs, Auth("+"))
      <4>1. \E x, n : ircd' \in {[ircd EXCEPT !.mech = x], [ircd EXCEPT !.round = n]}
        BY <3>2
      <4>2. \E a : toUs' = Append(toUs, Auth(a))
        BY <3>2
      <4> QED
        BY <1>10, <2>3, <4>1, <4>2
    <3>3. CASE ircd' = ircd /\ toUs' = Append(toUs, no)
      BY <1>9, <2>3, <3>3
    <3> QED
      BY <3>1, <3>2, <3>3
  <2>4. CASE ircd.sasl /\ m.arg = "chunk" /\ m.n = ChunkSize /\ ircd.mech # "none"
    BY <1>8, <2>4 DEF IrcdAuthenticate
  <2>5. CASE ircd.sasl /\ m.arg # "*" /\ ircd.mech # "none" /\ ~(m.arg = "chunk" /\ m.n = ChunkSize)
    <3>1. \/ \E n : ircd' = [ircd EXCEPT !.round = n] /\ \E a : toUs' = Append(toUs, Auth(a))
          \/ \E v \in Verdicts : ircd' = [ended EXCEPT !.authed = v[1]] /\ toUs' = toUs \o v[2]
      BY <2>5 DEF IrcdAuthenticate
    <3>2. CASE \E n : ircd' = [ircd EXCEPT !.round = n] /\ \E a : toUs' = Append(toUs, Auth(a))
      <4>1. \E x, n : ircd' \in {[ircd EXCEPT !.mech = x], [ircd EXCEPT !.round = n]}
        BY <3>2
      <4> QED
        BY <1>10, <2>5, <3>2, <4>1
    <3>3. CASE \E v \in Verdicts : ircd' = [ended EXCEPT !.authed = v[1]] /\ toUs' = toUs \o v[2]
      BY <1>11, <2>5, <3>3
    <3> QED
      BY <3>1, <3>2, <3>3
  <2> QED
    BY <2>1, <2>2, <2>3, <2>4, <2>5

\* What handling a line says to the ircd, and what it leaves behind.
LEMMA LineKeeps ==
  ASSUME RegInv, HandleLine
  PROVE  RegInv'
<1> DEFINE m == Head(toUs)
           req == [t |-> "CAP REQ", caps |-> {"sasl"}]
<1>1. IsQueue(toIrcd) /\ IsQueue(toUs) /\ IrcdShape(ircd) /\ RegShape(reg) /\ Given
  BY DEF RegInv, Shaped
<1>2. toUs # <<>> /\ toUs' = Tail(toUs) /\ UNCHANGED <<given, ircd>>
  BY DEF HandleLine, Takes
<1>3. cfg' = cfg /\ srv' = srv /\ Given'
  BY <1>1, <1>2 DEF given, Given
<1>4. /\ IsQueue(toUs') /\ Items(toUs') \subseteq Items(toUs) /\ m \in Items(toUs)
      /\ ListEnds(toUs) => ListEnds(toUs') /\ (m.t = "LS" /\ ~m.more => ~Has(toUs', "LS"))
  BY <1>1, <1>2, Taken
<1>5. /\ \A t : Has(toUs', t) => Has(toUs, t)
      /\ Has(toUs, m.t)
  BY <1>4 DEF Has
<1>6. PICK r \in {IF reg.phase = "complete" THEN StepPost(reg, m) ELSE Step(reg, m)} :
        \E asks \in {SesAsks(m, r.reg)} :
           /\ reg' = r.reg
           /\ toIrcd' = toIrcd \o r.out \o IF asks THEN <<req>> ELSE <<>>
  BY Zenon DEF HandleLine
<1>7. PICK asks \in {SesAsks(m, r.reg)} :
           /\ reg' = r.reg
           /\ toIrcd' = toIrcd \o r.out \o IF asks THEN <<req>> ELSE <<>>
  BY <1>6
<1>8. Fits(reg, m, r)
  BY <1>1, <1>6, StepFits, PostFits
<1> DEFINE out == r.out
           more == IF asks THEN <<req>> ELSE <<>>
<1>9. IsQueue(out) /\ IsQueue(toIrcd \o out) /\ Items(toIrcd \o out) = Items(toIrcd) \cup Items(out)
      /\ \A t : ((Once(toIrcd, t) /\ ~Has(out, t)) \/ (Once(out, t) /\ ~Has(toIrcd, t)) => Once(toIrcd \o out, t))
  <2>1. IsQueue(out)
    BY <1>8 DEF Fits, Says
  <2> HIDE DEF out
  <2> QED
    BY <1>1, <2>1, AddedItems
<1>10. IsQueue(toIrcd')
  <2>1. IsQueue(more)
    BY One, NoneThere
  <2> HIDE DEF more, out
  <2>2. IsQueue(toIrcd \o out \o more)
    BY <1>9, <2>1, AddedItems
  <2> QED
    BY <1>7, <2>2 DEF more, out
<1>11. RegShape(reg') /\ (reg'.welcome => reg.welcome \/ m.t = "001")
       /\ (reg'.phase = "complete" => reg.phase = "complete" \/ (m.t = "376" /\ reg.welcome))
  BY <1>7, <1>8 DEF Fits, Leads
<1>12. Shaped' /\ SuccessIsReal'
  BY <1>1, <1>2, <1>3, <1>4, <1>10, <1>11 DEF Shaped, SuccessIsReal, RegInv
<1>13. Welcomed'
  BY <1>2, <1>5, <1>11 DEF Welcomed, RegInv
<1>14. CASE ircd.welcome
  <2>1. Negotiation'
    BY <1>2, <1>14 DEF Negotiation
  <2>2. HeldBack'
    BY <1>2, <1>3, <1>14 DEF HeldBack, RegInv
  <2> QED
    BY <1>12, <1>13, <2>1, <2>2 DEF RegInv
<1>15. CASE ~ircd.welcome
  <2>1. m.t # "NEW" /\ m.t # "376" /\ m.t # "001"
    BY <1>5, <1>15 DEF RegInv, Welcomed
  <2>2. ~asks
    BY <1>7, <2>1 DEF SesAsks
  <2>3. toIrcd' = toIrcd \o out
    <3>1. toIrcd \o out \in Seq(Items(toIrcd \o out))
      BY <1>9 DEF IsQueue
    <3>2. (toIrcd \o out) \o <<>> = toIrcd \o out
      BY <3>1
    <3> QED
      BY <1>7, <2>2, <3>2
  <2> HIDE DEF out, more
  <2>4. /\ Items(toIrcd') = Items(toIrcd) \cup Items(out)
        /\ \A t : ((Once(toIrcd, t) /\ ~Has(out, t)) \/ (Once(out, t) /\ ~Has(toIrcd, t)) => Once(toIrcd', t))
    BY <1>9, <2>3
  <2>5. Says(m, out)
    BY <1>8 DEF Fits, out
  <2>6. ~Has(out, "CAP LS") /\ (Has(out, "CAP END") => MayEnd(m) /\ ~Has(out, "CAP REQ"))
        /\ (Has(out, "CAP REQ") => m.t = "LS" /\ ~m.more)
    BY <2>5 DEF Says, Has
  <2>7. \A t : Has(toIrcd', t) => Has(toIrcd, t) \/ Has(out, t)
    BY <2>4 DEF Has
  <2>8. m.t = "LS" => Has(toUs, "LS")
    BY <1>5
  <2>9. /\ m.t = "ACK" => Has(toUs, "ACK")
        /\ m.t = "NAK" => Has(toUs, "NAK")
        /\ m.t = "AUTHENTICATE" => Has(toUs, "AUTHENTICATE")
        /\ m.t = "SASL" => Has(toUs, "SASL")
    BY <1>5
  <2>10. Negotiation'
    <3>1. Once(toIrcd', "CAP LS") /\ ListEnds(toUs')
      BY <1>4, <1>15, <2>4, <2>6 DEF RegInv, Negotiation
    <3>2. Once(toIrcd', "CAP REQ")
      <4>1. CASE Has(out, "CAP REQ")
        <5>1. ~Has(toIrcd, "CAP REQ")
          BY <1>15, <2>6, <2>8, <4>1 DEF RegInv, Negotiation, Listing, Asking
        <5>2. Once(out, "CAP REQ")
          BY <2>5 DEF Says
        <5> QED
          BY <2>4, <5>1, <5>2
      <4>2. CASE ~Has(out, "CAP REQ")
        BY <1>15, <2>4, <4>2 DEF RegInv, Negotiation
      <4> QED
        BY <4>1, <4>2
    <3>3. \A o \in Items(toIrcd') : o.t = "CAP REQ" /\ "sasl" \in o.caps => cfg'.wanted
      <4>1. \A o \in Items(toIrcd) : o.t = "CAP REQ" /\ "sasl" \in o.caps => cfg.wanted
        BY <1>15 DEF RegInv, Negotiation
      <4>2. \A o \in Items(out) : o.t = "CAP REQ" /\ "sasl" \in o.caps => cfg.wanted
        BY <2>5 DEF Says
      <4> QED
        BY <1>3, <2>4, <4>1, <4>2
    <3>4. ~ircd.acked => ~ircd.sasl /\ ~Has(toUs', "AUTHENTICATE") /\ ~Has(toUs', "SASL")
      BY <1>5, <1>15 DEF RegInv, Negotiation
    <3>5. Has(toIrcd', "CAP LS") =>
            /\ ~Has(toUs', "LS") /\ ~Has(toIrcd', "CAP REQ") /\ ~Has(toUs', "ACK") /\ ~Has(toUs', "NAK")
            /\ ~Has(toIrcd', "CAP END") /\ ~ircd.acked
      <4> SUFFICES ASSUME Has(toIrcd', "CAP LS")
                   PROVE  /\ ~Has(toUs', "LS") /\ ~Has(toIrcd', "CAP REQ") /\ ~Has(toUs', "ACK")
                          /\ ~Has(toUs', "NAK") /\ ~Has(toIrcd', "CAP END") /\ ~ircd.acked
        OBVIOUS
      <4>1. /\ ~Has(toUs, "LS") /\ ~Has(toIrcd, "CAP REQ") /\ ~Has(toUs, "ACK") /\ ~Has(toUs, "NAK")
            /\ ~Has(toIrcd, "CAP END") /\ ~ircd.acked /\ ~Has(toUs, "AUTHENTICATE") /\ ~Has(toUs, "SASL")
        BY <1>15, <2>6, <2>7 DEF RegInv, Negotiation, Listing, Asking, Answered, Over
      <4>2. ~Has(out, "CAP END") /\ ~Has(out, "CAP REQ")
        BY <2>6, <2>8, <2>9, <4>1 DEF MayEnd
      <4> QED
        BY <1>5, <2>7, <4>1, <4>2
    <3>6. Has(toUs', "LS") =>
            /\ ircd.neg /\ ~Has(toIrcd', "CAP REQ") /\ ~Has(toUs', "ACK") /\ ~Has(toUs', "NAK")
            /\ ~Has(toIrcd', "CAP END") /\ ~ircd.acked
      <4> SUFFICES ASSUME Has(toUs', "LS")
                   PROVE  /\ ircd.neg /\ ~Has(toIrcd', "CAP REQ") /\ ~Has(toUs', "ACK")
                          /\ ~Has(toUs', "NAK") /\ ~Has(toIrcd', "CAP END") /\ ~ircd.acked
        OBVIOUS
      <4>1. /\ ircd.neg /\ ~Has(toIrcd, "CAP REQ") /\ ~Has(toUs, "ACK") /\ ~Has(toUs, "NAK")
            /\ ~Has(toIrcd, "CAP END") /\ ~ircd.acked /\ ~Has(toUs, "AUTHENTICATE") /\ ~Has(toUs, "SASL")
            /\ ListEnds(toUs)
        BY <1>5, <1>15 DEF RegInv, Negotiation, Listing, Asking, Answered, Over
      <4>2. ~(m.t = "LS" /\ ~m.more)
        BY <1>4, <4>1
      <4>3. ~Has(out, "CAP END") /\ ~Has(out, "CAP REQ")
        BY <2>6, <2>9, <4>1, <4>2 DEF MayEnd
      <4> QED
        BY <1>5, <2>7, <4>1, <4>3
    <3>7. Has(toIrcd', "CAP REQ") =>
            ircd.neg /\ ~Has(toUs', "ACK") /\ ~Has(toUs', "NAK") /\ ~Has(toIrcd', "CAP END") /\ ~ircd.acked
      <4> SUFFICES ASSUME Has(toIrcd', "CAP REQ")
                   PROVE  ircd.neg /\ ~Has(toUs', "ACK") /\ ~Has(toUs', "NAK") /\ ~Has(toIrcd', "CAP END")
                          /\ ~ircd.acked
        OBVIOUS
      <4>1. /\ ircd.neg /\ ~Has(toUs, "ACK") /\ ~Has(toUs, "NAK") /\ ~Has(toIrcd, "CAP END") /\ ~ircd.acked
            /\ ~Has(toUs, "AUTHENTICATE") /\ ~Has(toUs, "SASL")
        BY <1>15, <2>6, <2>7, <2>8 DEF RegInv, Negotiation, Listing, Asking, Answered, Over
      <4>2. ~Has(out, "CAP END")
        <5>1. CASE Has(toIrcd, "CAP REQ")
          <6>1. ~Has(toUs, "LS")
            BY <1>15, <5>1 DEF RegInv, Negotiation, Listing, Asking
          <6> QED
            BY <2>6, <2>8, <2>9, <4>1, <6>1 DEF MayEnd
        <5>2. CASE Has(out, "CAP REQ")
          BY <2>6, <5>2
        <5> QED
          BY <2>7, <5>1, <5>2
      <4> QED
        BY <1>5, <2>7, <4>1, <4>2
    <3> QED
      BY <1>2, <3>1, <3>2, <3>3, <3>4, <3>5, <3>6, <3>7 DEF Negotiation, Listing, Asking, Answered, Over
  <2>11. HeldBack'
    <3> SUFFICES ASSUME cfg.required, ircd.acked, ~ircd.authed
                 PROVE  HeldBack'
      BY <1>2, <1>3 DEF HeldBack
    <3>1. /\ cfg.wanted /\ ircd.neg /\ ~ircd.welcome
          /\ ~Has(toIrcd, "CAP LS") /\ ~Has(toIrcd, "CAP REQ") /\ ~Has(toIrcd, "CAP END")
          /\ ~Has(toUs, "LS") /\ ~Has(toUs, "NAK")
          /\ \A o \in Items(toUs) : o.t = "ACK" => "sasl" \in o.caps
      BY DEF RegInv, HeldBack, Listing, Asking, Over
    <3>2. m.t = "SASL" => ~m.ok
      BY <1>4 DEF RegInv, SuccessIsReal
    <3>3. m.t = "ACK" => "sasl" \in m.caps
      BY <1>4, <3>1
    <3>4. ~Has(out, "CAP END") /\ ~Has(out, "CAP REQ")
      BY <2>6, <2>8, <2>9, <3>1, <3>2, <3>3 DEF MayEnd
    <3>5. ~Has(toIrcd', "CAP LS") /\ ~Has(toIrcd', "CAP REQ") /\ ~Has(toIrcd', "CAP END")
          /\ ~Has(toUs', "LS") /\ ~Has(toUs', "NAK")
      BY <1>5, <2>6, <2>7, <3>1, <3>4
    <3>6. \A o \in Items(toUs') : o.t = "ACK" => "sasl" \in o.caps
      BY <1>4, <3>1
    <3> QED
      BY <1>2, <1>3, <3>1, <3>5, <3>6 DEF HeldBack, Listing, Asking, Over
  <2> QED
    BY <1>12, <1>13, <2>10, <2>11 DEF RegInv
<1> QED
  BY <1>14, <1>15

LEMMA RegInvHolds == Spec => []RegInv
<1>1. Init => RegInv
  <2> SUFFICES ASSUME Init
               PROVE  RegInv
    OBVIOUS
  <2> DEFINE ls == Line("CAP LS")
             n  == NickLine(cfg.primary)
             u  == Line("USER")
  <2>1. ls.t = "CAP LS" /\ n.t = "NICK" /\ u.t = "USER"
    BY DEF Line, NickLine
  <2>2. toIrcd = <<ls, n, u>> /\ toUs = <<>>
    BY DEF Init, Start
  <2> HIDE DEF ls, n, u
  <2>3. Len(toIrcd) = 3 /\ toIrcd[1] = ls /\ toIrcd[2] = n /\ toIrcd[3] = u /\ toIrcd \in Seq({ls, n, u})
        /\ 1 .. 3 = {1, 2, 3}
    BY <2>2
  <2>4. Items(toIrcd) = {ls, n, u} /\ IsQueue(toIrcd)
    <3>1. Items(toIrcd) = {ls, n, u}
      BY <2>3 DEF Items
    <3> QED
      BY <2>3, <3>1 DEF IsQueue
  <2>5. Once(toIrcd, "CAP LS") /\ Once(toIrcd, "CAP REQ")
    <3>1. \A i \in 1 .. Len(toIrcd) : (toIrcd[i].t = "CAP LS" => i = 1) /\ toIrcd[i].t # "CAP REQ"
      BY <2>1, <2>3
    <3> QED
      BY <3>1 DEF Once
  <2>6. IsQueue(toUs) /\ Items(toUs) = {} /\ ListEnds(toUs) /\ \A t : ~Has(toUs, t)
    <3>1. ListEnds(<<>>)
      BY DEF ListEnds
    <3> QED
      BY <2>2, <3>1, NoneThere
  <2>7. RegShape(reg) /\ ~reg.welcome /\ reg.phase = "cap"
    BY DEF Init, NewState, RegShape
  <2>8. IrcdShape(ircd) /\ ~ircd.acked /\ ~ircd.sasl /\ ~ircd.welcome
    BY DEF Init, IrcdShape
  <2>9. Given
    BY DEF Init, Given
  <2>10. ~Has(toIrcd, "CAP REQ") /\ ~Has(toIrcd, "CAP END")
    BY <2>1, <2>4 DEF Has
  <2>11. \A o \in Items(toIrcd) : o.t # "CAP REQ"
    BY <2>1, <2>4
  <2>12. Negotiation
    BY <2>5, <2>6, <2>8, <2>10, <2>11 DEF Negotiation, Listing, Asking, Answered, Over
  <2>13. Shaped /\ Welcomed /\ SuccessIsReal /\ HeldBack
    BY <2>4, <2>6, <2>7, <2>8, <2>9 DEF Shaped, Welcomed, SuccessIsReal, HeldBack
  <2> QED
    BY <2>12, <2>13 DEF RegInv
<1>2. RegInv /\ [Next]_vars => RegInv'
  <2> SUFFICES ASSUME RegInv, [Next]_vars
               PROVE  RegInv'
    OBVIOUS
  <2> HIDE DEF RegInv
  <2> QED
    BY QuietSteps, IrcdSteps, WelcomeSteps, CapSteps, AgentKeeps, LineKeeps DEF Next, Run, Ircd, Others
<1> QED
  BY <1>1, <1>2, PTL DEF Spec

\* A network that requires SASL, on an ircd that granted the capability, is never registered without
\* having authenticated, whichever way the exchange ends (stepSASLOutcome, startSASL, abortSASL).
THEOREM RequiredSASLHonoured == Spec => []SASLHonoured
<1>1. RegInv => SASLHonoured
  BY DEF RegInv, Welcomed, HeldBack, SASLHonoured
<1> QED
  BY <1>1, RegInvHolds, PTL

-----------------------------------------------------------------------------
(* Nick recovery.                                                            *)

Recovery ==
  /\ {"stop", "pending", "held"} \subseteq DOMAIN rec
  /\ DOMAIN loop = Loops /\ \A i \in Loops : {"s", "ask"} \subseteq DOMAIN loop[i]
  /\ HeldIsIdle

\* A loop past its check, an enquiry, a nick about to be asked for: what goes on for a registered connection only.
Checked == \E i \in Loops : loop[i].s = "checked"
Busy    == rec.pending \/ client # <<>> \/ rx.s = "reclaim" \/ Checked

LEMMA Stopped ==
  ASSUME Recovery
  PROVE  LET x == stopNickRecovery(rec)
         IN /\ {"stop", "pending", "held"} \subseteq DOMAIN x
            /\ x.stop = 0 /\ ~x.pending /\ x.held = rec.held
  BY DEF Recovery, stopNickRecovery

LEMMA Moved ==
  ASSUME Recovery, NEW i \in Loops, NEW x, {"s", "ask"} \subseteq DOMAIN x, loop' = [loop EXCEPT ![i] = x]
  PROVE  /\ DOMAIN loop' = Loops /\ \A j \in Loops : {"s", "ask"} \subseteq DOMAIN loop'[j]
         /\ loop'[i] = x /\ \A j \in Loops : j # i => loop'[j] = loop[j]
         /\ x.s # "checked" => (Checked' => Checked)
<1>1. DOMAIN loop' = Loops /\ loop'[i] = x /\ \A j \in Loops : j # i => loop'[j] = loop[j]
  BY DEF Recovery
<1>2. \A j \in Loops : {"s", "ask"} \subseteq DOMAIN loop'[j]
  BY <1>1 DEF Recovery
<1>3. x.s # "checked" => (Checked' => Checked)
  BY <1>1 DEF Checked, Loops
<1> QED
  BY <1>1, <1>2, <1>3

LEMMA Started ==
  ASSUME Recovery, NEW n, startNickRecoveryIfNeeded(n)
  PROVE  Recovery' /\ rec'.pending = rec.pending /\ (Checked' => Checked)
<1>1. CASE UNCHANGED <<rec, loop>>
  BY <1>1 DEF Recovery, HeldIsIdle, Checked
<1>2. CASE ~rec.held /\ \E i \in Loops : /\ loop' = [loop EXCEPT ![i].s = "new"]
                                         /\ rec' = [rec EXCEPT !.stop = i]
  <2>1. PICK i \in Loops : loop' = [loop EXCEPT ![i].s = "new"] /\ rec' = [rec EXCEPT !.stop = i]
    BY <1>2
  <2> DEFINE x == [loop[i] EXCEPT !.s = "new"]
  <2>2. {"s", "ask"} \subseteq DOMAIN x /\ x.s = "new"
    BY DEF Recovery
  <2>3. loop' = [loop EXCEPT ![i] = x]
    BY <2>1
  <2> HIDE DEF x
  <2>4. /\ DOMAIN loop' = Loops /\ \A j \in Loops : {"s", "ask"} \subseteq DOMAIN loop'[j]
        /\ x.s # "checked" => (Checked' => Checked)
    BY <2>2, <2>3, Moved
  <2>5. {"stop", "pending", "held"} \subseteq DOMAIN rec' /\ rec'.pending = rec.pending /\ rec'.held = rec.held
    BY <2>1 DEF Recovery
  <2>6. HeldIsIdle'
    BY <1>2, <2>5 DEF HeldIsIdle
  <2> QED
    BY <2>2, <2>4, <2>5, <2>6 DEF Recovery
<1> QED
  BY <1>1, <1>2 DEF startNickRecoveryIfNeeded

LEMMA LoopSteps ==
  ASSUME Recovery, NEW i \in Loops, Loop(i) \/ LoopExit(i)
  PROVE  Recovery' /\ (Busy' => Busy \/ reg.phase = "complete")
<1> DEFINE asking == [s |-> "checked", ask |-> isonTargets(CurrentNick)]
           sent   == [loop[i] EXCEPT !.s = "sending"]
<1>1. /\ {"s", "ask"} \subseteq DOMAIN Idle /\ Idle.s = "idle" /\ {"s", "ask"} \subseteq DOMAIN Off /\ Off.s = "off"
      /\ {"s", "ask"} \subseteq DOMAIN asking
  BY DEF Idle, Off
<1>2. {"s", "ask"} \subseteq DOMAIN sent /\ sent.s = "sending"
  BY DEF Recovery
<1>3. UNCHANGED <<rx, client>>
  BY DEF Loop, TickCheck, TickPend, TickSend, LoopExit
<1>4. ASSUME NEW x, {"s", "ask"} \subseteq DOMAIN x, loop' = [loop EXCEPT ![i] = x],
             x.s = "checked" => reg.phase = "complete",
             {"stop", "pending", "held"} \subseteq DOMAIN rec',
             rec'.held => rec'.stop = 0 /\ ~rec'.pending, rec'.pending => rec.pending \/ Checked
      PROVE  Recovery' /\ (Busy' => Busy \/ reg.phase = "complete")
  <2>1. /\ DOMAIN loop' = Loops /\ \A j \in Loops : {"s", "ask"} \subseteq DOMAIN loop'[j]
        /\ x.s # "checked" => (Checked' => Checked)
    BY <1>4, Moved
  <2>2. Recovery'
    BY <1>4, <2>1 DEF Recovery, HeldIsIdle
  <2>3. Busy' => Busy \/ reg.phase = "complete"
    BY <1>3, <1>4, <2>1 DEF Busy
  <2> QED
    BY <2>2, <2>3
<1>5. CASE UNCHANGED rec /\ \E x \in {Idle, Off} : loop' = [loop EXCEPT ![i] = x]
  <2>1. PICK x \in {Idle, Off} : loop' = [loop EXCEPT ![i] = x]
    BY <1>5
  <2>2. {"s", "ask"} \subseteq DOMAIN x /\ x.s # "checked"
    BY <1>1
  <2>3. {"stop", "pending", "held"} \subseteq DOMAIN rec' /\ (rec'.held => rec'.stop = 0 /\ ~rec'.pending)
        /\ (rec'.pending => rec.pending)
    BY <1>5 DEF Recovery, HeldIsIdle
  <2> QED
    BY <1>4, <2>1, <2>2, <2>3
<1>6. CASE TickCheck(i)
  <2>1. CASE rec' = stopNickRecovery(rec) /\ loop' = [loop EXCEPT ![i] = Idle]
    <3>1. {"stop", "pending", "held"} \subseteq DOMAIN rec' /\ rec'.stop = 0 /\ ~rec'.pending
      BY <2>1, Stopped
    <3> QED
      BY <1>1, <1>4, <2>1, <3>1
  <2>2. CASE reg.phase = "complete" /\ loop' = [loop EXCEPT ![i] = asking] /\ UNCHANGED rec
    <3> HIDE DEF asking
    <3>1. {"stop", "pending", "held"} \subseteq DOMAIN rec' /\ (rec'.held => rec'.stop = 0 /\ ~rec'.pending)
          /\ (rec'.pending => rec.pending)
      BY <2>2 DEF Recovery, HeldIsIdle
    <3> QED
      BY <1>1, <1>4, <2>2, <3>1
  <2> QED
    BY <1>6, <2>1, <2>2 DEF TickCheck
<1>7. CASE TickPend(i)
  <2>1. CASE loop' = [loop EXCEPT ![i] = Idle] /\ UNCHANGED rec
    BY <1>5, <2>1
  <2>2. CASE /\ rec.stop # 0 /\ loop[i].s = "checked"
             /\ loop' = [loop EXCEPT ![i].s = "sending"] /\ rec' = [rec EXCEPT !.pending = TRUE]
    <3>1. loop' = [loop EXCEPT ![i] = sent]
      BY <2>2
    <3> HIDE DEF sent
    <3>2. {"stop", "pending", "held"} \subseteq DOMAIN rec' /\ rec'.held = rec.held
      BY <2>2 DEF Recovery
    <3>3. ~rec.held
      BY <2>2 DEF Recovery, HeldIsIdle
    <3>4. Checked
      BY <2>2 DEF Checked
    <3> QED
      BY <1>2, <1>4, <3>1, <3>2, <3>3, <3>4
  <2> QED
    BY <1>7, <2>1, <2>2 DEF TickPend
<1>8. CASE TickSend(i) \/ LoopExit(i)
  BY <1>5, <1>8 DEF TickSend, LoopExit
<1> QED
  BY <1>6, <1>7, <1>8 DEF Loop

LEMMA RecoverySteps ==
  ASSUME Recovery, [Next]_vars
  PROVE  Recovery' /\ (Busy' => Busy \/ reg.phase = "complete")
<1>1. CASE UNCHANGED <<rec, loop, rx, client>>
  BY <1>1 DEF Recovery, HeldIsIdle, Busy, Checked
<1>2. ASSUME NEW i \in Loops, Loop(i) \/ LoopExit(i)
      PROVE  Recovery' /\ (Busy' => Busy \/ reg.phase = "complete")
  BY <1>2, LoopSteps
<1>3. CASE HandleLine
  <2>1. UNCHANGED <<rx, client>>
    BY <1>3 DEF HandleLine
  <2>2. UNCHANGED <<rec, loop>> \/ \E n : startNickRecoveryIfNeeded(n)
    BY <1>3 DEF HandleLine
  <2>3. CASE UNCHANGED <<rec, loop>>
    BY <1>1, <2>1, <2>3
  <2>4. CASE \E n : startNickRecoveryIfNeeded(n)
    <3>1. Recovery' /\ rec'.pending = rec.pending /\ (Checked' => Checked)
      BY <2>4, Started
    <3> QED
      BY <2>1, <3>1 DEF Busy
  <2> QED
    BY <2>2, <2>3, <2>4
<1>4. CASE handleRecoveryISON
  <2>1. rec' = [rec EXCEPT !.pending = FALSE] /\ UNCHANGED <<loop, client>> /\ (rx'.s = "reclaim" => rec.pending)
    BY <1>4 DEF handleRecoveryISON, NoRx
  <2>2. {"stop", "pending", "held"} \subseteq DOMAIN rec' /\ rec'.held = rec.held /\ rec'.stop = rec.stop
        /\ ~rec'.pending
    BY <2>1 DEF Recovery
  <2> QED
    BY <2>1, <2>2 DEF Recovery, HeldIsIdle, Busy, Checked
<1>5. CASE Reclaim
  BY <1>5 DEF Reclaim, NoRx, Recovery, HeldIsIdle, Busy, Checked
<1>6. CASE handleSelfNickChange
  <2>1. UNCHANGED client /\ (rx'.s = "reclaim" => rx.s = "reclaim")
    BY <1>6 DEF handleSelfNickChange
  <2>2. \/ UNCHANGED <<rec, loop>>
        \/ rec' = stopNickRecovery(rec) /\ UNCHANGED loop
        \/ \E n : startNickRecoveryIfNeeded(n)
    BY <1>6 DEF handleSelfNickChange
  <2>3. CASE UNCHANGED <<rec, loop>>
    BY <2>1, <2>3 DEF Recovery, HeldIsIdle, Busy, Checked
  <2>4. CASE rec' = stopNickRecovery(rec) /\ UNCHANGED loop
    <3>1. {"stop", "pending", "held"} \subseteq DOMAIN rec' /\ rec'.stop = 0 /\ ~rec'.pending
      BY <2>4, Stopped
    <3> QED
      BY <2>1, <2>4, <3>1 DEF Recovery, HeldIsIdle, Busy, Checked
  <2>5. CASE \E n : startNickRecoveryIfNeeded(n)
    <3>1. Recovery' /\ rec'.pending = rec.pending /\ (Checked' => Checked)
      BY <2>5, Started
    <3> QED
      BY <2>1, <3>1 DEF Busy
  <2> QED
    BY <2>2, <2>3, <2>4, <2>5
<1>7. CASE clearNickRecoveryHold
  <2>1. rec' = [rec EXCEPT !.held = FALSE] /\ UNCHANGED <<loop, client>> /\ rx'.s # "reclaim"
    BY <1>7 DEF clearNickRecoveryHold, NoRx
  <2>2. {"stop", "pending", "held"} \subseteq DOMAIN rec' /\ rec'.pending = rec.pending /\ ~rec'.held
    BY <2>1 DEF Recovery
  <2> QED
    BY <2>1, <2>2 DEF Recovery, HeldIsIdle, Busy, Checked
<1>8. CASE ClientNick
  BY <1>8 DEF ClientNick, Recovery, HeldIsIdle, Busy, Checked
<1>9. ASSUME NEW n, StopNickRecovery(n)
      PROVE  Recovery' /\ (Busy' => Busy \/ reg.phase = "complete")
  <2> DEFINE x == stopNickRecovery(rec)
  <2>1. {"stop", "pending", "held"} \subseteq DOMAIN x /\ x.stop = 0 /\ ~x.pending
    BY Stopped
  <2>2. rec' = [x EXCEPT !.held = TRUE] /\ UNCHANGED <<loop, rx>> /\ reg.phase = "complete"
    BY <1>9 DEF StopNickRecovery
  <2> HIDE DEF x
  <2>3. {"stop", "pending", "held"} \subseteq DOMAIN rec' /\ rec'.stop = 0 /\ ~rec'.pending
    BY <2>1, <2>2
  <2> QED
    BY <2>2, <2>3 DEF Recovery, HeldIsIdle
<1>10. CASE Ircd
  <2>1. UNCHANGED recVars
    BY <1>10 DEF Ircd, IrcdCap, IrcdNick, IrcdISON, IrcdAuthenticate, Serve, IrcdWelcome
  <2> QED
    BY <1>1, <2>1 DEF recVars
<1>11. CASE IrcdError \/ IrcdCapDel \/ IrcdCapNew \/ IrcdRename(Guest) \/ ClientISON(Guest)
            \/ \E n \in Range(Ladder) : OtherUser(n)
  <2>1. UNCHANGED recVars
    BY <1>11 DEF IrcdError, IrcdCapDel, IrcdCapNew, IrcdRename, ClientISON, OtherUser
  <2> QED
    BY <1>1, <2>1 DEF recVars
<1>12. CASE UNCHANGED vars
  BY <1>1, <1>12 DEF vars
<1> QED
  BY <1>2, <1>3, <1>4, <1>5, <1>6, <1>7, <1>8, <1>9, <1>10, <1>11, <1>12 DEF Next, Run, Others

LEMMA RecoveryHolds == Spec => []Recovery
<1>1. Init => Recovery
  <2> SUFFICES ASSUME Init
               PROVE  Recovery
    OBVIOUS
  <2>1. {"stop", "pending", "held"} \subseteq DOMAIN rec /\ rec.held = FALSE
    BY DEF Init
  <2>2. loop = [i \in Loops |-> Off] /\ {"s", "ask"} \subseteq DOMAIN Off
    BY DEF Init, Off
  <2> QED
    BY <2>1, <2>2 DEF Recovery, HeldIsIdle
<1>2. Recovery /\ [Next]_vars => Recovery'
  BY RecoverySteps
<1> QED
  BY <1>1, <1>2, PTL DEF Spec

\* While a client's NICK holds recovery back there is no recovery loop to be ticking and no reply to
\* react to (StopNickRecovery, startNickRecoveryIfNeeded, nickRecoveryTick).
THEOREM HeldMeansIdle == Spec => []HeldIsIdle
<1>1. Recovery => HeldIsIdle
  BY DEF Recovery
<1> QED
  BY <1>1, RecoveryHolds, PTL

-----------------------------------------------------------------------------
(* The nick.                                                                 *)

Settled == (reg.phase = "complete" => reg.welcome) /\ (Busy => reg.phase = "complete")

\* Before that one nick at a time is on its way to the ircd, refused by it or the connection's.
OneNick ==
  reg.phase # "complete" =>
    /\ Once(toIrcd, "NICK") /\ Once(toUs, "433")
    /\ Has(toIrcd, "NICK") => ~Has(toUs, "433") /\ ircd.nick = <<>>
    /\ Has(toUs, "433") => ircd.nick = <<>>

IsNick(n) == n \in Seq(STRING) /\ n # <<>>

\* No nick is empty that the connection has, is given, or asks for once it is registered.
Named ==
  /\ ircd.welcome => ircd.nick # <<>>
  /\ reg.phase = "complete" => current # <<>> /\ \A o \in Items(toIrcd) : o.t = "NICK" => IsNick(o.nick)
  /\ \A o \in Items(toUs) : o.t \in {"NICK", "001"} => o.nick # <<>>
  /\ reg.welcome => reg.nick # <<>>
  /\ rx.s = "reclaim" => IsNick(rx.want)
  /\ client # <<>> => IsNick(client)

\* The 001 comes before the end of the MOTD, and any change of nick after that.
Ordered(q) ==
  /\ Once(q, "001") /\ Once(q, "376")
  /\ \A i, j \in 1 .. Len(q) :
       i < j => /\ q[i].t = "NICK" => q[j].t \notin {"001", "376"}
                /\ q[i].t = "376" => q[j].t # "001"

WelcomeFirst ==
  /\ Ordered(toUs) /\ (Has(toUs, "NICK") => ircd.welcome)
  /\ reg.welcome => ~Has(toUs, "001")
  /\ ircd.welcome /\ reg.phase # "failed" =>
       (reg.welcome \/ Has(toUs, "001")) /\ (reg.phase = "complete" \/ Has(toUs, "376"))

\* Who has the nick a and reads the changes of nick in q knows each for its own, and has the nick b after them.
Chain(q, a, b) ==
  \E h : /\ h[0] = a /\ h[Len(q)] = b
         /\ \A i \in 1 .. Len(q) :
              IF q[i].t = "NICK" THEN q[i].from = h[i - 1] /\ h[i] = q[i].nick ELSE h[i] = h[i - 1]

Follows ==
  ircd.welcome /\ reg.phase # "failed" =>
    /\ reg.phase = "complete" => Chain(toUs, current, ircd.nick)
    /\ reg.phase # "complete" /\ reg.welcome => Chain(toUs, reg.nick, ircd.nick)
    /\ ~reg.welcome => \A o \in Items(toUs) : o.t = "001" => Chain(toUs, o.nick, ircd.nick)

NickInv == Settled /\ OneNick /\ Named /\ WelcomeFirst /\ Follows

\* Chains and queues.
LEMMA ChainTaken ==
  ASSUME NEW q, IsQueue(q), q # <<>>, NEW a, NEW b, Chain(q, a, b)
  PROVE  /\ Head(q).t = "NICK" => Head(q).from = a /\ Chain(Tail(q), Head(q).nick, b)
         /\ Head(q).t # "NICK" => Chain(Tail(q), a, b)
<1> DEFINE r == Tail(q)
<1>1. /\ Head(q) = q[1] /\ Len(q) = Len(r) + 1 /\ Len(r) \in Nat
      /\ \A i \in 1 .. Len(r) : r[i] = q[i + 1] /\ i + 1 \in 1 .. Len(q)
  BY Taken
<1> HIDE DEF r
<1>2. PICK h : /\ h[0] = a /\ h[Len(q)] = b
               /\ \A i \in 1 .. Len(q) :
                    IF q[i].t = "NICK" THEN q[i].from = h[i - 1] /\ h[i] = q[i].nick ELSE h[i] = h[i - 1]
  BY DEF Chain
<1> DEFINE k == [i \in 0 .. Len(r) |-> h[i + 1]]
<1>3. 1 \in 1 .. Len(q) /\ 0 \in 0 .. Len(r) /\ Len(r) \in 0 .. Len(r)
  BY <1>1
<1>4. k[0] = h[1] /\ k[Len(r)] = b
  BY <1>1, <1>2, <1>3
<1>5. \A i \in 1 .. Len(r) : k[i] = h[i + 1] /\ k[i - 1] = h[i]
  BY <1>1
<1> HIDE DEF k
<1>6. \A i \in 1 .. Len(r) :
        IF r[i].t = "NICK" THEN r[i].from = k[i - 1] /\ k[i] = r[i].nick ELSE k[i] = k[i - 1]
  <2> TAKE i \in 1 .. Len(r)
  <2>1. i + 1 \in 1 .. Len(q) /\ (i + 1) - 1 = i /\ r[i] = q[i + 1]
    BY <1>1
  <2>2. IF q[i + 1].t = "NICK" THEN q[i + 1].from = h[i] /\ h[i + 1] = q[i + 1].nick ELSE h[i + 1] = h[i]
    BY <1>2, <2>1
  <2> QED
    BY <1>5, <2>1, <2>2
<1>7. Chain(r, h[1], b)
  BY <1>4, <1>6 DEF Chain
<1>8. IF q[1].t = "NICK" THEN q[1].from = h[0] /\ h[1] = q[1].nick ELSE h[1] = h[0]
  BY <1>2, <1>3
<1> QED
  BY <1>1, <1>2, <1>7, <1>8 DEF r

LEMMA ChainAppended ==
  ASSUME NEW q, IsQueue(q), NEW a, NEW b, Chain(q, a, b), NEW m
  PROVE  /\ m.t = "NICK" /\ m.from = b => Chain(Append(q, m), a, m.nick)
         /\ m.t # "NICK" => Chain(Append(q, m), a, b)
<1> DEFINE r == Append(q, m)
           c == IF m.t = "NICK" THEN m.nick ELSE b
<1>1. /\ Len(q) \in Nat /\ Len(r) = Len(q) + 1 /\ r[Len(q) + 1] = m
      /\ \A i \in 1 .. Len(q) : r[i] = q[i]
  BY Appended
<1> HIDE DEF r
<1>2. PICK h : /\ h[0] = a /\ h[Len(q)] = b
               /\ \A i \in 1 .. Len(q) :
                    IF q[i].t = "NICK" THEN q[i].from = h[i - 1] /\ h[i] = q[i].nick ELSE h[i] = h[i - 1]
  BY DEF Chain
<1> DEFINE k == [i \in 0 .. Len(r) |-> IF i = Len(r) THEN c ELSE h[i]]
<1>3. k[Len(r)] = c /\ \A i \in 0 .. Len(q) : k[i] = h[i]
  <2> HIDE DEF c
  <2>1. Len(r) \in 0 .. Len(r) /\ \A i \in 0 .. Len(q) : i \in 0 .. Len(r) /\ i # Len(r)
    BY <1>1
  <2> QED
    BY <2>1
<1> HIDE DEF k
<1>4. k[0] = a
  BY <1>1, <1>2, <1>3
<1>5. ASSUME m.t = "NICK" => m.from = b, NEW i \in 1 .. Len(r)
      PROVE  IF r[i].t = "NICK" THEN r[i].from = k[i - 1] /\ k[i] = r[i].nick ELSE k[i] = k[i - 1]
  <2>1. CASE i \in 1 .. Len(q)
    <3>1. r[i] = q[i] /\ k[i] = h[i] /\ k[i - 1] = h[i - 1]
      <4>1. i \in 0 .. Len(q) /\ i - 1 \in 0 .. Len(q)
        BY <1>1, <2>1
      <4> QED
        BY <1>1, <1>3, <2>1, <4>1
    <3>2. IF q[i].t = "NICK" THEN q[i].from = h[i - 1] /\ h[i] = q[i].nick ELSE h[i] = h[i - 1]
      BY <1>2, <2>1
    <3> QED
      BY <3>1, <3>2
  <2>2. CASE i = Len(q) + 1
    <3>1. r[i] = m /\ k[i] = c /\ k[i - 1] = b
      <4>1. i - 1 = Len(q) /\ Len(q) \in 0 .. Len(q) /\ i = Len(r)
        BY <1>1, <2>2
      <4>2. k[i - 1] = h[Len(q)] /\ k[i] = c
        BY <1>3, <4>1
      <4> QED
        BY <1>1, <1>2, <2>2, <4>2
    <3> QED
      BY <1>5, <3>1
  <2> QED
    BY <1>1, <2>1, <2>2
<1>6. (m.t = "NICK" => m.from = b) => Chain(r, a, c)
  <2> HIDE DEF c
  <2> QED
    BY <1>3, <1>4, <1>5 DEF Chain
<1> QED
  BY <1>6 DEF r

LEMMA ChainFlat ==
  ASSUME NEW q, IsQueue(q), ~Has(q, "NICK"), NEW a
  PROVE  Chain(q, a, a)
<1>1. Len(q) \in Nat
  BY DEF IsQueue
<1> DEFINE h == [i \in 0 .. Len(q) |-> a]
<1>2. h[0] = a /\ h[Len(q)] = a /\ \A i \in 1 .. Len(q) : h[i] = a /\ h[i - 1] = a
  <2>1. \A i \in 0 .. Len(q) : h[i] = a
    OBVIOUS
  <2>2. 0 \in 0 .. Len(q) /\ Len(q) \in 0 .. Len(q) /\ \A i \in 1 .. Len(q) : i \in 0 .. Len(q) /\ i - 1 \in 0 .. Len(q)
    BY <1>1
  <2> HIDE DEF h
  <2> QED
    BY <2>1, <2>2
<1>3. \A i \in 1 .. Len(q) : q[i].t # "NICK"
  BY DEF Has, Items
<1> HIDE DEF h
<1> QED
  BY <1>2, <1>3 DEF Chain

LEMMA AddedAt ==
  ASSUME NEW q, IsQueue(q), NEW p, IsQueue(p), NEW r, r = q \o p
  PROVE  /\ Len(q) \in Nat /\ Len(p) \in Nat /\ Len(r) = Len(q) + Len(p)
         /\ \A i \in 1 .. Len(q) : r[i] = q[i]
         /\ \A i \in 1 .. Len(p) : r[Len(q) + i] = p[i]
<1>1. q \in Seq(Items(q) \cup Items(p)) /\ p \in Seq(Items(q) \cup Items(p))
  BY Wider DEF IsQueue
<1>2. /\ Len(q) \in Nat /\ Len(p) \in Nat /\ Len(r) = Len(q) + Len(p)
      /\ \A i \in 1 .. Len(q) : r[i] = q[i]
      /\ \A i \in Len(q) + 1 .. Len(r) : r[i] = p[i - Len(q)]
  BY <1>1
<1>3. ASSUME NEW i \in 1 .. Len(p)  PROVE r[Len(q) + i] = p[i]
  <2>1. Len(q) + i \in Len(q) + 1 .. Len(r) /\ (Len(q) + i) - Len(q) = i
    BY <1>2
  <2> QED
    BY <1>2, <2>1
<1> QED
  BY <1>2, <1>3

LEMMA ChainAdded ==
  ASSUME NEW q, IsQueue(q), NEW a, NEW b, Chain(q, a, b), NEW p, IsQueue(p), ~Has(p, "NICK")
  PROVE  Chain(q \o p, a, b)
<1> DEFINE r == q \o p
<1>1. /\ Len(q) \in Nat /\ Len(p) \in Nat /\ Len(r) = Len(q) + Len(p)
      /\ \A i \in 1 .. Len(q) : r[i] = q[i]
      /\ \A i \in 1 .. Len(p) : r[Len(q) + i] = p[i]
  BY AddedAt
<1> HIDE DEF r
<1>2. PICK h : /\ h[0] = a /\ h[Len(q)] = b
               /\ \A i \in 1 .. Len(q) :
                    IF q[i].t = "NICK" THEN q[i].from = h[i - 1] /\ h[i] = q[i].nick ELSE h[i] = h[i - 1]
  BY DEF Chain
<1>3. \A i \in 1 .. Len(p) : p[i].t # "NICK"
  BY DEF Has, Items
<1> DEFINE k == [i \in 0 .. Len(r) |-> IF i <= Len(q) THEN h[i] ELSE b]
<1>4. /\ \A i \in 0 .. Len(q) : k[i] = h[i]
      /\ \A i \in Len(q) .. Len(r) : k[i] = b
  <2>1. \A i \in 0 .. Len(q) : i \in 0 .. Len(r) /\ i <= Len(q)
    BY <1>1
  <2>2. \A i \in Len(q) .. Len(r) : i \in 0 .. Len(r) /\ (i = Len(q) \/ ~(i <= Len(q)))
    BY <1>1
  <2>3. Len(q) \in 0 .. Len(r) /\ Len(q) <= Len(q)
    BY <1>1
  <2> QED
    BY <1>2, <2>1, <2>2, <2>3
<1> HIDE DEF k
<1>5. k[0] = a /\ k[Len(r)] = b
  BY <1>1, <1>2, <1>4
<1>6. ASSUME NEW i \in 1 .. Len(r)
      PROVE  IF r[i].t = "NICK" THEN r[i].from = k[i - 1] /\ k[i] = r[i].nick ELSE k[i] = k[i - 1]
  <2>1. CASE i \in 1 .. Len(q)
    <3>1. r[i] = q[i] /\ k[i] = h[i] /\ k[i - 1] = h[i - 1]
      <4>1. i \in 0 .. Len(q) /\ i - 1 \in 0 .. Len(q)
        BY <1>1, <2>1
      <4> QED
        BY <1>1, <1>4, <2>1, <4>1
    <3>2. IF q[i].t = "NICK" THEN q[i].from = h[i - 1] /\ h[i] = q[i].nick ELSE h[i] = h[i - 1]
      BY <1>2, <2>1
    <3> QED
      BY <3>1, <3>2
  <2>2. CASE i \notin 1 .. Len(q)
    <3>1. i - Len(q) \in 1 .. Len(p) /\ Len(q) + (i - Len(q)) = i
          /\ i \in Len(q) .. Len(r) /\ i - 1 \in Len(q) .. Len(r)
      BY <1>1, <2>2
    <3>2. r[i] = p[i - Len(q)]
      BY <1>1, <3>1
    <3>3. r[i].t # "NICK"
      BY <1>3, <3>1, <3>2
    <3> QED
      BY <1>4, <3>1, <3>3
  <2> QED
    BY <2>1, <2>2
<1>7. Chain(r, a, b)
  BY <1>5, <1>6 DEF Chain
<1> QED
  BY <1>7 DEF r

LEMMA OrderedTaken ==
  ASSUME NEW q, IsQueue(q), q # <<>>, Ordered(q)
  PROVE  /\ Ordered(Tail(q))
         /\ Head(q).t = "NICK" => ~Has(Tail(q), "001") /\ ~Has(Tail(q), "376")
         /\ Head(q).t = "376" => ~Has(Tail(q), "001") /\ ~Has(Tail(q), "376")
         /\ Head(q).t = "001" => ~Has(Tail(q), "001")
<1> DEFINE r == Tail(q)
<1>1. /\ Head(q) = q[1] /\ Len(q) = Len(r) + 1 /\ Len(r) \in Nat
      /\ \A i \in 1 .. Len(r) : r[i] = q[i + 1] /\ i + 1 \in 1 .. Len(q)
      /\ \A t : (Once(q, t) => Once(r, t) /\ (Head(q).t = t => ~Has(r, t)))
  BY Taken
<1> HIDE DEF r
<1>2. Once(r, "001") /\ Once(r, "376") /\ (Head(q).t = "001" => ~Has(r, "001"))
      /\ (Head(q).t = "376" => ~Has(r, "376"))
  BY <1>1 DEF Ordered
<1>3. \A i, j \in 1 .. Len(r) :
       i < j => /\ r[i].t = "NICK" => r[j].t \notin {"001", "376"}
                /\ r[i].t = "376" => r[j].t # "001"
  <2> TAKE i, j \in 1 .. Len(r)
  <2> HAVE i < j
  <2>1. i + 1 < j + 1
    BY <1>1
  <2> QED
    BY <1>1, <2>1 DEF Ordered
<1>4. ASSUME NEW i \in 1 .. Len(r)
      PROVE  /\ q[1].t = "NICK" => r[i].t \notin {"001", "376"}
             /\ q[1].t = "376" => r[i].t # "001"
  <2>1. 1 \in 1 .. Len(q) /\ i + 1 \in 1 .. Len(q) /\ 1 < i + 1 /\ r[i] = q[i + 1]
    BY <1>1
  <2> QED
    BY <2>1 DEF Ordered
<1>5. /\ Head(q).t = "NICK" => ~Has(r, "001") /\ ~Has(r, "376")
      /\ Head(q).t = "376" => ~Has(r, "001")
  BY <1>1, <1>4 DEF Has, Items
<1> QED
  BY <1>2, <1>3, <1>5 DEF Ordered, r

LEMMA OrderedAdded ==
  ASSUME NEW q, IsQueue(q), Ordered(q), NEW p, IsQueue(p), ~Has(p, "001"), ~Has(p, "376")
  PROVE  Ordered(q \o p)
<1> DEFINE r == q \o p
<1>1. /\ Len(q) \in Nat /\ Len(p) \in Nat /\ Len(r) = Len(q) + Len(p)
      /\ \A i \in 1 .. Len(q) : r[i] = q[i]
      /\ \A i \in 1 .. Len(p) : r[Len(q) + i] = p[i]
      /\ \A t : (Once(q, t) /\ ~Has(p, t) => Once(r, t))
  BY Added
<1> HIDE DEF r
<1>2. Once(r, "001") /\ Once(r, "376")
  BY <1>1 DEF Ordered
<1>3. \A i \in 1 .. Len(p) : p[i].t \notin {"001", "376"}
  BY DEF Has, Items
<1>4. ASSUME NEW j \in 1 .. Len(r), j \notin 1 .. Len(q)  PROVE r[j].t \notin {"001", "376"}
  <2>1. j - Len(q) \in 1 .. Len(p) /\ Len(q) + (j - Len(q)) = j
    BY <1>1, <1>4
  <2>2. r[j] = p[j - Len(q)]
    BY <1>1, <2>1
  <2> QED
    BY <1>3, <2>1, <2>2
<1>5. \A i, j \in 1 .. Len(r) :
       i < j => /\ r[i].t = "NICK" => r[j].t \notin {"001", "376"}
                /\ r[i].t = "376" => r[j].t # "001"
  <2> TAKE i, j \in 1 .. Len(r)
  <2> HAVE i < j
  <2>1. CASE j \notin 1 .. Len(q)
    BY <1>4, <2>1
  <2>2. CASE j \in 1 .. Len(q)
    <3>1. i \in 1 .. Len(q)
      BY <1>1, <2>2
    <3> QED
      BY <1>1, <2>2, <3>1 DEF Ordered
  <2> QED
    BY <2>1, <2>2
<1> QED
  BY <1>2, <1>5 DEF Ordered, r

\* What comes before what in a queue that no welcome is added to.
LEMMA OrderedAppended ==
  ASSUME NEW q, IsQueue(q), Ordered(q), NEW m, m.t \notin {"001", "376"}
  PROVE  Ordered(Append(q, m))
<1> DEFINE r == Append(q, m)
<1>1. /\ Len(q) \in Nat /\ Len(r) = Len(q) + 1 /\ r[Len(q) + 1] = m
      /\ \A i \in 1 .. Len(q) : r[i] = q[i]
      /\ \A t : (Once(q, t) /\ (m.t # t \/ ~Has(q, t)) => Once(r, t))
  BY Appended
<1> HIDE DEF r
<1>2. Once(r, "001") /\ Once(r, "376")
  BY <1>1 DEF Ordered
<1>3. \A i, j \in 1 .. Len(r) :
       i < j => /\ r[i].t = "NICK" => r[j].t \notin {"001", "376"}
                /\ r[i].t = "376" => r[j].t # "001"
  <2> TAKE i, j \in 1 .. Len(r)
  <2> HAVE i < j
  <2>1. CASE j = Len(q) + 1
    BY <1>1, <2>1
  <2>2. CASE j \in 1 .. Len(q)
    <3>1. i \in 1 .. Len(q)
      BY <1>1, <2>2
    <3> QED
      BY <1>1, <2>2, <3>1 DEF Ordered
  <2> QED
    BY <1>1, <2>1, <2>2
<1> QED
  BY <1>2, <1>3 DEF Ordered, r

\* The welcome after a queue that has none of it.
LEMMA OrderedWelcome ==
  ASSUME NEW q, IsQueue(q), ~Has(q, "001"), ~Has(q, "376"), ~Has(q, "NICK"),
         NEW w, w.t = "001", NEW e, e.t = "376"
  PROVE  Ordered(q \o <<w, e>>)
<1> DEFINE p == <<w, e>>
           r == q \o p
<1>1. IsQueue(p) /\ Len(p) = 2 /\ p[1] = w /\ p[2] = e /\ 1 .. Len(p) = {1, 2}
  <2>1. IsQueue(p)
    BY Two
  <2> QED
    BY <2>1
<1> HIDE DEF p
<1>2. /\ Len(q) \in Nat /\ Len(r) = Len(q) + Len(p)
      /\ \A i \in 1 .. Len(q) : r[i] = q[i]
      /\ \A i \in 1 .. Len(p) : r[Len(q) + i] = p[i]
  <2>1. IsQueue(p)
    BY <1>1
  <2> QED
    BY <2>1, AddedAt
<1> HIDE DEF r
<1>3. r[Len(q) + 1] = w /\ r[Len(q) + 2] = e
  <2>1. 1 \in 1 .. Len(p) /\ 2 \in 1 .. Len(p)
    BY <1>1
  <2>2. r[Len(q) + 1] = p[1] /\ r[Len(q) + 2] = p[2]
    BY <1>2, <2>1
  <2> QED
    BY <1>1, <2>2
<1>4. ASSUME NEW i \in 1 .. Len(q)  PROVE r[i].t \notin {"001", "376", "NICK"}
  <2>1. r[i] = q[i] /\ q[i] \in Items(q)
    BY <1>2 DEF Items
  <2> QED
    BY <2>1 DEF Has
<1>5. \A i \in 1 .. Len(r) : i \in 1 .. Len(q) \/ i = Len(q) + 1 \/ i = Len(q) + 2
  <2>1. Len(q) \in Nat /\ Len(r) = Len(q) + 2
    BY <1>1, <1>2
  <2> QED
    BY <2>1
<1>6. \A i \in 1 .. Len(r) : /\ r[i].t = "001" => i = Len(q) + 1
                             /\ r[i].t = "376" => i = Len(q) + 2
                             /\ r[i].t # "NICK"
  <2> TAKE i \in 1 .. Len(r)
  <2>1. CASE i \in 1 .. Len(q)
    BY <1>4, <2>1
  <2>2. CASE i = Len(q) + 1
    BY <1>3, <2>2
  <2>3. CASE i = Len(q) + 2
    BY <1>3, <2>3
  <2> QED
    BY <1>5, <2>1, <2>2, <2>3
<1>7. \A i, j \in 1 .. Len(r) : i < j => ~(i = Len(q) + 2 /\ j = Len(q) + 1)
  BY <1>2
<1>8. Ordered(r)
  BY <1>6, <1>7 DEF Ordered, Once
<1> QED
  BY <1>8 DEF r, p

\* A queue with no more of the kind t than the other.
Less(q, p, t) ==
  IsQueue(q) /\ (\A o \in Items(q) : o.t = t => o \in Items(p)) /\ (Once(p, t) => Once(q, t))

LEMMA LessBy ==
  ASSUME NEW p, IsQueue(p), NEW t
  PROVE  /\ Less(p, p, t)
         /\ p # <<>> => Less(Tail(p), p, t)
         /\ \A m : m.t # t => Less(Append(p, m), p, t)
         /\ \A s : IsQueue(s) /\ ~Has(s, t) => Less(p \o s, p, t)
<1>1. p # <<>> => Less(Tail(p), p, t)
  BY Taken DEF Less
<1>2. ASSUME NEW m, m.t # t  PROVE Less(Append(p, m), p, t)
  <2> DEFINE r == Append(p, m)
  <2>1. IsQueue(r) /\ Items(r) = Items(p) \cup {m} /\ (Once(p, t) => Once(r, t))
    BY <1>2, AppendedItems
  <2> HIDE DEF r
  <2>2. Less(r, p, t)
    BY <1>2, <2>1 DEF Less
  <2> QED
    BY <2>2 DEF r
<1>3. ASSUME NEW s, IsQueue(s), ~Has(s, t)  PROVE Less(p \o s, p, t)
  <2> DEFINE r == p \o s
  <2>1. IsQueue(r) /\ Items(r) = Items(p) \cup Items(s) /\ (Once(p, t) => Once(r, t))
    BY <1>3, AddedItems
  <2> HIDE DEF r
  <2>2. Less(r, p, t)
    BY <1>3, <2>1 DEF Less, Has
  <2> QED
    BY <2>2 DEF r
<1> QED
  BY <1>1, <1>2, <1>3 DEF Less

\* A queue with the changes of nick of the other and no more of the welcome or of refusals.
Kept(q, p) ==
  /\ \A t \in {"NICK", "001", "376", "433"} : \A o \in Items(q) : o.t = t => o \in Items(p)
  /\ IsQueue(q) /\ (Ordered(p) => Ordered(q)) /\ (Once(p, "433") => Once(q, "433"))
  /\ \A a, b : Chain(p, a, b) => Chain(q, a, b)

News == {"NICK", "001", "376", "433"}

LEMMA KeptBy ==
  ASSUME NEW p, IsQueue(p)
  PROVE  /\ Kept(p, p)
         /\ p # <<>> /\ Head(p).t # "NICK" => Kept(Tail(p), p)
         /\ \A m : m.t \notin News => Kept(Append(p, m), p)
         /\ \A s : IsQueue(s) /\ (\A o \in Items(s) : o.t \notin News) => Kept(p \o s, p)
<1>1. ASSUME p # <<>>, Head(p).t # "NICK"  PROVE Kept(Tail(p), p)
  <2> DEFINE r == Tail(p)
  <2>1. IsQueue(r) /\ Items(r) \subseteq Items(p) /\ (Once(p, "433") => Once(r, "433"))
    BY <1>1, Taken
  <2>2. Ordered(p) => Ordered(r)
    BY <1>1, OrderedTaken
  <2>3. \A a, b : Chain(p, a, b) => Chain(r, a, b)
    BY <1>1, ChainTaken
  <2> HIDE DEF r
  <2>4. Kept(r, p)
    BY <2>1, <2>2, <2>3 DEF Kept
  <2> QED
    BY <2>4 DEF r
<1>2. ASSUME NEW m, m.t \notin News  PROVE Kept(Append(p, m), p)
  <2> DEFINE r == Append(p, m)
  <2>1. IsQueue(r) /\ Items(r) = Items(p) \cup {m} /\ (Once(p, "433") => Once(r, "433"))
    BY <1>2, AppendedItems DEF News
  <2>2. Ordered(p) => Ordered(r)
    BY <1>2, OrderedAppended DEF News
  <2>3. \A a, b : Chain(p, a, b) => Chain(r, a, b)
    BY <1>2, ChainAppended DEF News
  <2> HIDE DEF r
  <2>4. Kept(r, p)
    BY <1>2, <2>1, <2>2, <2>3 DEF Kept, News
  <2> QED
    BY <2>4 DEF r
<1>3. ASSUME NEW s, IsQueue(s), \A o \in Items(s) : o.t \notin News  PROVE Kept(p \o s, p)
  <2> DEFINE r == p \o s
  <2>1. ~Has(s, "NICK") /\ ~Has(s, "001") /\ ~Has(s, "376") /\ ~Has(s, "433")
    BY <1>3 DEF Has, News
  <2>2. IsQueue(r) /\ Items(r) = Items(p) \cup Items(s) /\ (Once(p, "433") => Once(r, "433"))
    BY <1>3, <2>1, AddedItems
  <2>3. Ordered(p) => Ordered(r)
    BY <1>3, <2>1, OrderedAdded
  <2>4. \A a, b : Chain(p, a, b) => Chain(r, a, b)
    BY <1>3, <2>1, ChainAdded
  <2> HIDE DEF r
  <2>5. Kept(r, p)
    BY <1>3, <2>2, <2>3, <2>4 DEF Kept, News
  <2> QED
    BY <2>5 DEF r
<1>4. Kept(p, p)
  BY DEF Kept
<1> QED
  BY <1>1, <1>2, <1>3, <1>4

\* What is left of a queue once its head is taken.
LEMMA Left ==
  ASSUME NEW q, IsQueue(q), q # <<>>
  PROVE  Items(q) = Items(Tail(q)) \cup {Head(q)}
<1> DEFINE r == Tail(q)
<1>1. /\ Items(r) \subseteq Items(q) /\ Head(q) \in Items(q) /\ Head(q) = q[1]
      /\ Len(q) = Len(r) + 1 /\ Len(r) \in Nat
      /\ \A i \in 1 .. Len(r) : r[i] = q[i + 1]
  BY Taken
<1> HIDE DEF r
<1>2. ASSUME NEW i \in 1 .. Len(q), i # 1  PROVE q[i] \in Items(r)
  <2>1. i - 1 \in 1 .. Len(r) /\ (i - 1) + 1 = i
    BY <1>1, <1>2
  <2>2. r[i - 1] = q[i]
    BY <1>1, <2>1
  <2> QED
    BY <2>1, <2>2 DEF Items
<1>3. Items(q) = Items(r) \cup {Head(q)}
  BY <1>1, <1>2 DEF Items
<1> QED
  BY <1>3 DEF r

\* Steps that leave the nick alone.
LEMMA NickFramed ==
  ASSUME NickInv, Settled', Less(toIrcd', toIrcd, "NICK"), Kept(toUs', toUs),
         reg.welcome \/ (Has(toUs, "001") => Has(toUs', "001")),
         reg.phase = "complete" \/ (Has(toUs, "376") => Has(toUs', "376")),
         reg'.phase = "complete" <=> reg.phase = "complete", reg.phase = "failed" => reg'.phase = "failed",
         reg.welcome => reg'.welcome, reg'.welcome => reg.welcome, reg'.nick = reg.nick, current' = current,
         ircd'.nick = ircd.nick, ircd'.welcome = ircd.welcome,
         rx'.s = "reclaim" => IsNick(rx'.want), client' # <<>> => IsNick(client')
  PROVE  NickInv'
<1>1. /\ Has(toUs', "NICK") => Has(toUs, "NICK")
      /\ Has(toUs', "001") => Has(toUs, "001")
      /\ Has(toUs', "433") => Has(toUs, "433")
      /\ Has(toIrcd', "NICK") => Has(toIrcd, "NICK")
  BY DEF Kept, Less, Has
<1>2. OneNick'
  BY <1>1 DEF OneNick, NickInv, Kept, Less
<1>3. Named'
  <2>1. \A o \in Items(toUs') : o.t \in {"NICK", "001"} => o.nick # <<>>
    BY DEF Named, NickInv, Kept
  <2>2. reg.phase = "complete" => \A o \in Items(toIrcd') : o.t = "NICK" => IsNick(o.nick)
    BY DEF Named, NickInv, Less
  <2> QED
    BY <2>1, <2>2 DEF Named, NickInv
<1>4. WelcomeFirst'
  BY <1>1 DEF WelcomeFirst, NickInv, Kept
<1>5. Follows'
  <2>1. \A o \in Items(toUs') : o.t = "001" => o \in Items(toUs)
    BY DEF Kept
  <2>2. \A a, b : Chain(toUs, a, b) => Chain(toUs', a, b)
    BY DEF Kept
  <2> QED
    BY <2>1, <2>2 DEF Follows, NickInv
<1> QED
  BY <1>2, <1>3, <1>4, <1>5 DEF NickInv

\* A queue that has had lines without a word about the nick added to it.
Grown(q, p) == Kept(q, p) /\ Items(p) \subseteq Items(q)

LEMMA GrownBy ==
  ASSUME NEW p, IsQueue(p)
  PROVE  /\ Grown(p, p)
         /\ \A m : m.t \notin News => Grown(Append(p, m), p)
         /\ \A s : IsQueue(s) /\ (\A o \in Items(s) : o.t \notin News) => Grown(p \o s, p)
<1>1. \A m : Items(p) \subseteq Items(Append(p, m))
  <2> TAKE m
  <2>1. Items(Append(p, m)) = Items(p) \cup {m}
    BY AppendedItems
  <2> QED
    BY <2>1
<1>2. \A s : IsQueue(s) => Items(p) \subseteq Items(p \o s)
  <2> TAKE s
  <2> HAVE IsQueue(s)
  <2>1. Items(p \o s) = Items(p) \cup Items(s)
    BY AddedItems
  <2> QED
    BY <2>1
<1> QED
  BY <1>1, <1>2, KeptBy DEF Grown

LEMMA NickStill ==
  ASSUME NickInv, Settled', UNCHANGED <<reg, current>>, Less(toIrcd', toIrcd, "NICK"), Grown(toUs', toUs),
         ircd'.nick = ircd.nick, ircd'.welcome = ircd.welcome,
         rx'.s = "reclaim" => IsNick(rx'.want), client' # <<>> => IsNick(client')
  PROVE  NickInv'
<1>1. Kept(toUs', toUs) /\ (Has(toUs, "001") => Has(toUs', "001")) /\ (Has(toUs, "376") => Has(toUs', "376"))
  BY DEF Grown, Has
<1> HIDE DEF NickInv
<1> QED
  BY <1>1, NickFramed

LEMMA RegisteredByLine ==
  ASSUME [Next]_vars
  PROVE  HandleLine \/ UNCHANGED reg
<1>1. CASE handleRecoveryISON \/ Reclaim \/ handleSelfNickChange \/ clearNickRecoveryHold \/ ClientNick
  BY <1>1 DEF handleRecoveryISON, Reclaim, handleSelfNickChange, clearNickRecoveryHold, ClientNick
<1>2. CASE Ircd
  BY <1>2 DEF Ircd, IrcdCap, IrcdNick, IrcdISON, IrcdAuthenticate, Serve, IrcdWelcome
<1>3. CASE Others
  BY <1>3 DEF Others, IrcdError, IrcdCapDel, IrcdCapNew, IrcdRename, ClientISON, OtherUser, StopNickRecovery
<1>4. CASE \E i \in Loops : Loop(i) \/ LoopExit(i)
  BY <1>4 DEF Loop, TickCheck, TickPend, TickSend, LoopExit
<1>5. CASE UNCHANGED vars
  BY <1>5 DEF vars
<1> QED
  BY <1>1, <1>2, <1>3, <1>4, <1>5 DEF Next, Run

LEMMA SettledSteps ==
  ASSUME RegInv, Recovery, Settled, [Next]_vars
  PROVE  Settled'
<1>1. Busy' => Busy \/ reg.phase = "complete"
  BY RecoverySteps
<1>2. CASE UNCHANGED reg
  BY <1>1, <1>2 DEF Settled
<1>3. CASE HandleLine
  <2> DEFINE m == Head(toUs)
  <2>1. RegShape(reg) /\ Given
    BY DEF RegInv, Shaped
  <2>2. PICK r \in {IF reg.phase = "complete" THEN StepPost(reg, m) ELSE Step(reg, m)} : reg' = r.reg
    BY <1>3 DEF HandleLine
  <2>3. Fits(reg, m, r)
    BY <2>1, <2>2, StepFits, PostFits
  <2>4. /\ reg.welcome => reg'.welcome
        /\ reg'.phase = "complete" => reg.phase = "complete" \/ reg.welcome
    BY <2>2, <2>3 DEF Fits, Leads
  <2>5. reg.phase = "complete" => reg'.phase = "complete"
    BY <2>1, <2>2, PostKept DEF Settled
  <2> QED
    BY <1>1, <2>4, <2>5 DEF Settled
<1> QED
  BY <1>2, <1>3, RegisteredByLine

LEMMA AgentAnswers ==
  ASSUME IrcdAuthenticate, IrcdShape(ircd)
  PROVE  /\ \/ toUs' = toUs
            \/ \E o : o.t \notin News /\ toUs' = Append(toUs, o)
            \/ \E s : IsQueue(s) /\ (\A o \in Items(s) : o.t \notin News) /\ toUs' = toUs \o s
         /\ ircd'.nick = ircd.nick /\ ircd'.welcome = ircd.welcome
<1> DEFINE ended == [ircd EXCEPT !.mech = "none", !.round = 0]
           no == Outcome(FALSE)
           yes == Outcome(TRUE)
           star == Auth("*")
<1>1. (\A a : Auth(a).t \notin News) /\ no.t \notin News /\ yes.t \notin News /\ star.t \notin News
  BY DEF Auth, Outcome, News
<1>2. ASSUME NEW v \in Verdicts
      PROVE  IsQueue(v[2]) /\ \A o \in Items(v[2]) : o.t \notin News
  <2>1. v \in {<<ircd.authed, <<no>>>>, <<ircd.authed, <<star, no>>>>, <<TRUE, <<yes>>>>}
    BY DEF Verdicts
  <2>2. \A a, b : <<a, b>>[2] = b
    OBVIOUS
  <2> HIDE DEF no, yes, star
  <2>3. v[2] \in {<<no>>, <<star, no>>, <<yes>>}
    BY <2>1, <2>2
  <2>4. CASE v[2] = <<no>>
    <3>1. IsQueue(<<no>>) /\ Items(<<no>>) = {no}
      BY One
    <3> QED
      BY <1>1, <2>4, <3>1
  <2>5. CASE v[2] = <<star, no>>
    <3>1. IsQueue(<<star, no>>) /\ Items(<<star, no>>) = {star, no}
      BY Two
    <3> QED
      BY <1>1, <2>5, <3>1
  <2>6. CASE v[2] = <<yes>>
    <3>1. IsQueue(<<yes>>) /\ Items(<<yes>>) = {yes}
      BY One
    <3> QED
      BY <1>1, <2>6, <3>1
  <2> QED
    BY <2>3, <2>4, <2>5, <2>6
<1>3. \/ toUs' = toUs
      \/ toUs' = Append(toUs, no)
      \/ \E a : toUs' = Append(toUs, Auth(a))
      \/ \E v \in Verdicts : toUs' = toUs \o v[2]
  BY DEF IrcdAuthenticate
<1>4. \/ ircd' \in {ircd, ended}
      \/ \E x : ircd' = [ircd EXCEPT !.mech = x]
      \/ \E n : ircd' = [ircd EXCEPT !.round = n]
      \/ \E v \in Verdicts : ircd' = [ended EXCEPT !.authed = v[1]]
  BY DEF IrcdAuthenticate
<1> HIDE DEF no
<1>5. \/ toUs' = toUs
      \/ \E o : o.t \notin News /\ toUs' = Append(toUs, o)
      \/ \E s : IsQueue(s) /\ (\A o \in Items(s) : o.t \notin News) /\ toUs' = toUs \o s
  BY <1>1, <1>2, <1>3
<1>6. ircd'.nick = ircd.nick /\ ircd'.welcome = ircd.welcome
  BY <1>4 DEF IrcdShape
<1> QED
  BY <1>5, <1>6

\* Everything that is not about the nick.
LEMMA NickQuiet ==
  ASSUME RegInv, NickInv, Settled',
         \/ \E i \in Loops : Loop(i) \/ LoopExit(i)
         \/ clearNickRecoveryHold
         \/ \E n \in {Guest, cfg.primary} : StopNickRecovery(n)
         \/ ClientISON(Guest)
         \/ \E n \in Range(Ladder) : OtherUser(n)
         \/ IrcdCap \/ IrcdISON \/ IrcdAuthenticate \/ IrcdError \/ IrcdCapDel \/ IrcdCapNew
         \/ UNCHANGED vars
  PROVE  NickInv'
<1>1. IsQueue(toIrcd) /\ IsQueue(toUs) /\ IrcdShape(ircd) /\ Given
  BY DEF RegInv, Shaped
<1>2. /\ rx.s = "reclaim" => IsNick(rx.want)
      /\ client # <<>> => IsNick(client)
  BY DEF NickInv, Named
<1> HIDE DEF RegInv, NickInv
<1>3. /\ Less(toIrcd, toIrcd, "NICK")
      /\ toIrcd # <<>> => Less(Tail(toIrcd), toIrcd, "NICK")
      /\ \A m : m.t # "NICK" => Less(Append(toIrcd, m), toIrcd, "NICK")
  BY <1>1, LessBy
<1>4. /\ Grown(toUs, toUs)
      /\ \A m : m.t \notin News => Grown(Append(toUs, m), toUs)
      /\ \A s : IsQueue(s) /\ (\A o \in Items(s) : o.t \notin News) => Grown(toUs \o s, toUs)
  BY <1>1, GrownBy
\* A line from us at the most.
<1>5. ASSUME UNCHANGED <<reg, current, ircd, toUs>>, Less(toIrcd', toIrcd, "NICK"),
             rx'.s = "reclaim" => IsNick(rx'.want), client' # <<>> => IsNick(client')
      PROVE  NickInv'
  <2>1. Grown(toUs', toUs)
    BY <1>4, <1>5
  <2> QED
    BY <1>5, <2>1, NickStill
\* A line to us at the most.
<1>6. ASSUME UNCHANGED <<reg, current, rx, client>>, Less(toIrcd', toIrcd, "NICK"),
             ircd'.nick = ircd.nick, ircd'.welcome = ircd.welcome,
             \/ toUs' = toUs
             \/ \E o : o.t \notin News /\ toUs' = Append(toUs, o)
             \/ \E s : IsQueue(s) /\ (\A o \in Items(s) : o.t \notin News) /\ toUs' = toUs \o s
      PROVE  NickInv'
  <2>1. Grown(toUs', toUs)
    BY <1>4, <1>6
  <2>2. UNCHANGED <<reg, current>> /\ (rx'.s = "reclaim" => IsNick(rx'.want)) /\ (client' # <<>> => IsNick(client'))
    BY <1>2, <1>6
  <2> QED
    BY <1>6, <2>1, <2>2, NickStill
<1>7. ASSUME NEW i \in Loops, Loop(i) \/ LoopExit(i)
      PROVE  NickInv'
  <2> DEFINE m == [t |-> "ISON", own |-> TRUE, nicks |-> loop[i].ask]
  <2>1. m.t # "NICK"
    OBVIOUS
  <2>2. UNCHANGED <<reg, current, ircd, toUs, rx, client>> /\ toIrcd' \in {toIrcd, Append(toIrcd, m)}
    BY <1>7 DEF Loop, TickCheck, TickPend, TickSend, LoopExit, wire
  <2> HIDE DEF m
  <2>3. Less(toIrcd', toIrcd, "NICK")
    BY <1>3, <2>1, <2>2
  <2> QED
    BY <1>2, <1>5, <2>2, <2>3
<1>8. CASE clearNickRecoveryHold
  <2>1. UNCHANGED <<reg, current, ircd, toUs, toIrcd, client>> /\ rx'.s # "reclaim"
    BY <1>8 DEF clearNickRecoveryHold, wire, NoRx
  <2> QED
    BY <1>2, <1>3, <1>5, <2>1
<1>9. ASSUME NEW n \in {Guest, cfg.primary}, StopNickRecovery(n)
      PROVE  NickInv'
  <2>1. UNCHANGED <<reg, current, ircd, toUs, toIrcd, rx>> /\ client' = n
    BY <1>9 DEF StopNickRecovery, wire
  <2>2. IsNick(n)
    BY <1>1, RegistrationAssumption DEF Given, IsNick
  <2> QED
    BY <1>2, <1>3, <1>5, <2>1, <2>2
<1>10. CASE ClientISON(Guest)
  <2> DEFINE m == [t |-> "ISON", own |-> FALSE, nicks |-> {Guest}]
  <2>1. m.t # "NICK"
    OBVIOUS
  <2>2. UNCHANGED <<reg, current, ircd, toUs, rx, client>> /\ toIrcd' = Append(toIrcd, m)
    BY <1>10 DEF ClientISON, recVars
  <2> HIDE DEF m
  <2>3. Less(toIrcd', toIrcd, "NICK")
    BY <1>3, <2>1, <2>2
  <2> QED
    BY <1>2, <1>5, <2>2, <2>3
<1>11. CASE \E n \in Range(Ladder) : OtherUser(n)
  <2>1. UNCHANGED <<reg, current, ircd, toUs, toIrcd, rx, client>>
    BY <1>11 DEF OtherUser, wire, recVars
  <2> QED
    BY <1>2, <1>3, <1>5, <2>1
<1>12. CASE UNCHANGED vars
  <2>1. UNCHANGED <<reg, current, ircd, toUs, toIrcd, rx, client>>
    BY <1>12 DEF vars
  <2> QED
    BY <1>2, <1>3, <1>5, <2>1
<1>13. CASE IrcdCap
  <2>1. toIrcd # <<>> /\ toIrcd' = Tail(toIrcd) /\ UNCHANGED <<reg, current, rx, client>>
    BY <1>13 DEF IrcdCap, Serve, recVars
  <2> DEFINE ack == [t |-> "ACK", caps |-> Head(toIrcd).caps]
             nak == Reply("NAK")
  <2>2. ack.t \notin News /\ nak.t \notin News
    BY DEF News, Reply
  <2>3. toUs' \in {toUs, Append(toUs, ack), Append(toUs, nak), toUs \o CapList}
    BY <1>13 DEF IrcdCap
  <2>4. ircd'.nick = ircd.nick /\ ircd'.welcome = ircd.welcome
    BY <1>1, <1>13 DEF IrcdCap, IrcdShape
  <2>5. IsQueue(CapList) /\ \A o \in Items(CapList) : o.t \notin News
    BY <1>1, Lists DEF News
  <2> HIDE DEF ack, nak
  <2>6. \/ toUs' = toUs
        \/ \E o : o.t \notin News /\ toUs' = Append(toUs, o)
        \/ \E s : IsQueue(s) /\ (\A o \in Items(s) : o.t \notin News) /\ toUs' = toUs \o s
    BY <2>2, <2>3, <2>5
  <2> QED
    BY <1>3, <1>6, <2>1, <2>4, <2>6
<1>14. CASE IrcdISON
  <2> DEFINE online == {Fold(n) : n \in Head(toIrcd).nicks} \intersect (taken \union {Fold(ircd.nick)})
             m == [t |-> "303", own |-> Head(toIrcd).own, online |-> online]
  <2>1. m.t \notin News
    BY DEF News
  <2> HIDE DEF m
  <2>2. toIrcd # <<>> /\ toIrcd' = Tail(toIrcd) /\ UNCHANGED <<reg, current, rx, client, ircd>>
        /\ toUs' = Append(toUs, m)
    BY <1>14 DEF IrcdISON, Serve, recVars, m
  <2> QED
    BY <1>3, <1>6, <2>1, <2>2
<1>15. CASE IrcdAuthenticate
  <2>1. toIrcd # <<>> /\ toIrcd' = Tail(toIrcd) /\ UNCHANGED <<reg, current, rx, client>>
    BY <1>15 DEF IrcdAuthenticate, Serve, recVars
  <2> QED
    BY <1>1, <1>3, <1>6, <1>15, <2>1, AgentAnswers
<1>16. CASE IrcdError \/ IrcdCapDel \/ IrcdCapNew
  <2> DEFINE new == [t |-> "NEW", mechs |-> srv.mechs]
             err == Reply("ERROR")
             del == Reply("DEL")
  <2>1. new.t \notin News /\ err.t \notin News /\ del.t \notin News
    BY DEF News, Reply
  <2>2. UNCHANGED <<reg, current, rx, client, toIrcd>>
        /\ toUs' \in {Append(toUs, new), Append(toUs, err), Append(toUs, del)}
    BY <1>16 DEF IrcdError, IrcdCapDel, IrcdCapNew, recVars
  <2>3. ircd'.nick = ircd.nick /\ ircd'.welcome = ircd.welcome
    BY <1>1, <1>16 DEF IrcdError, IrcdCapDel, IrcdCapNew, IrcdShape
  <2> HIDE DEF new, err, del
  <2>4. \E o : o.t \notin News /\ toUs' = Append(toUs, o)
    BY <2>1, <2>2
  <2> QED
    BY <1>3, <1>6, <2>2, <2>3, <2>4
<1> QED
  BY <1>7, <1>8, <1>9, <1>10, <1>11, <1>12, <1>13, <1>14, <1>15, <1>16

\* A nick is asked for by a client or reclaimed.
LEMMA NickAsked ==
  ASSUME RegInv, NickInv, Settled', ClientNick \/ Reclaim
  PROVE  NickInv'
<1>1. IsQueue(toIrcd) /\ IsQueue(toUs)
  BY DEF RegInv, Shaped
<1>2. PICK n : /\ toIrcd' = Append(toIrcd, NickLine(n)) /\ IsNick(n)
               /\ UNCHANGED <<reg, current, toUs, ircd>> /\ reg.phase = "complete"
               /\ rx'.s = "reclaim" => IsNick(rx'.want)
               /\ client' # <<>> => IsNick(client')
  <2>1. CASE ClientNick
    <3>1. IsNick(client) /\ reg.phase = "complete" /\ (rx.s = "reclaim" => IsNick(rx.want))
      BY <2>1 DEF ClientNick, NickInv, Named, Settled, Busy
    <3> QED
      BY <2>1, <3>1 DEF ClientNick
  <2>2. CASE Reclaim
    <3>1. IsNick(rx.want) /\ reg.phase = "complete" /\ (client # <<>> => IsNick(client))
      BY <2>2 DEF Reclaim, NickInv, Named, Settled, Busy
    <3> QED
      BY <2>2, <3>1 DEF Reclaim, NoRx
  <2> QED
    BY <2>1, <2>2
<1> DEFINE l == NickLine(n)
<1>3. l.nick = n
  BY DEF NickLine
<1> HIDE DEF l
<1>4. Items(toIrcd') = Items(toIrcd) \cup {l}
  <2>1. toIrcd' = Append(toIrcd, l)
    BY <1>2 DEF l
  <2> QED
    BY <1>1, <2>1, AppendedItems
<1>5. Named'
  <2>1. \A o \in Items(toIrcd') : o.t = "NICK" => IsNick(o.nick)
    BY <1>2, <1>3, <1>4 DEF NickInv, Named
  <2> QED
    BY <1>2, <2>1 DEF NickInv, Named
<1>6. OneNick' /\ WelcomeFirst' /\ Follows'
  BY <1>2 DEF NickInv, OneNick, WelcomeFirst, Follows
<1> QED
  BY <1>5, <1>6 DEF NickInv

\* A reply to an enquiry.
LEMMA NickEnquired ==
  ASSUME RegInv, NickInv, Settled', handleRecoveryISON
  PROVE  NickInv'
<1> DEFINE m == Head(toUs)
           want == Wanted(CurrentNick, m.online)
<1>1. IsQueue(toIrcd) /\ IsQueue(toUs) /\ Given
  BY DEF RegInv, Shaped
<1>2. toUs # <<>> /\ toUs' = Tail(toUs) /\ m.t = "303" /\ UNCHANGED <<reg, current, client, toIrcd, ircd>>
  BY DEF handleRecoveryISON, Takes
<1>3. want # <<>> => IsNick(want)
  <2>1. want \in {<<>>, cfg.primary, cfg.alt}
    BY DEF Wanted
  <2>2. cfg.primary \in Seq(STRING) /\ cfg.alt \in Seq(STRING)
    BY <1>1, RegistrationAssumption DEF Given
  <2> HIDE DEF want
  <2> QED
    BY <2>1, <2>2 DEF IsNick
<1>4. rx'.s = "reclaim" => IsNick(rx'.want)
  <2>1. rx' = NoRx \/ (rx' = [s |-> "reclaim", want |-> want] /\ want # <<>>)
    BY DEF handleRecoveryISON
  <2> HIDE DEF want
  <2> QED
    BY <1>3, <2>1 DEF NoRx
<1>5. Items(toUs) = Items(toUs') \cup {m}
  BY <1>1, <1>2, Left
<1>6. (Has(toUs, "001") => Has(toUs', "001")) /\ (Has(toUs, "376") => Has(toUs', "376"))
  BY <1>2, <1>5 DEF Has
<1>7. Kept(toUs', toUs) /\ Less(toIrcd', toIrcd, "NICK")
  BY <1>1, <1>2, KeptBy, LessBy
<1>8. client' # <<>> => IsNick(client')
  BY <1>2 DEF NickInv, Named
<1> HIDE DEF NickInv, m
<1> QED
  BY <1>2, <1>4, <1>6, <1>7, <1>8, NickFramed

\* The ircd refuses a nick or gives it.
LEMMA NickGiven ==
  ASSUME RegInv, NickInv, Settled', IrcdNick
  PROVE  NickInv'
<1> DEFINE bad  == Head(toIrcd).nick
           nick == Prefix(bad, srv.nickLen)
           no   == [t |-> "433", bad |-> bad]
           new  == [t |-> "NICK", from |-> ircd.nick, nick |-> nick]
<1>1. IsQueue(toIrcd) /\ IsQueue(toUs) /\ IrcdShape(ircd) /\ Given
  BY DEF RegInv, Shaped
<1>2. toIrcd # <<>> /\ toIrcd' = Tail(toIrcd) /\ Head(toIrcd).t = "NICK" /\ UNCHANGED <<reg, current, rx, client>>
  BY DEF IrcdNick, Serve, recVars
<1>3. /\ IsQueue(toIrcd') /\ Items(toIrcd') \subseteq Items(toIrcd) /\ Head(toIrcd) \in Items(toIrcd)
      /\ Once(toIrcd, "NICK") => Once(toIrcd', "NICK") /\ ~Has(toIrcd', "NICK")
  BY <1>1, <1>2, Taken
<1>4. Has(toIrcd, "NICK")
  BY <1>2, <1>3 DEF Has
<1>5. reg.phase = "complete" => IsNick(bad) /\ nick # <<>>
  <2> SUFFICES ASSUME reg.phase = "complete"
               PROVE  IsNick(bad) /\ nick # <<>>
    OBVIOUS
  <2>1. IsNick(bad)
    BY <1>2, <1>3 DEF NickInv, Named
  <2>2. srv.nickLen \in Nat \ {0}
    BY <1>1, RegistrationAssumption DEF Given
  <2> HIDE DEF bad
  <2>3. bad \in Seq(STRING) /\ Len(bad) \in Nat \ {0}
    BY <2>1 DEF IsNick
  <2> DEFINE k == IF srv.nickLen < Len(bad) THEN srv.nickLen ELSE Len(bad)
  <2>4. k \in 1 .. Len(bad)
    BY <2>2, <2>3
  <2> HIDE DEF k
  <2>5. SubSeq(bad, 1, k) # <<>>
    <3>1. Len(SubSeq(bad, 1, k)) = k
      BY <2>3, <2>4
    <3> QED
      BY <2>4, <3>1
  <2> QED
    BY <2>1, <2>5 DEF Prefix, k
\* Before the end of the registration the connection has no nick yet.
<1>6. reg.phase # "complete" =>
        /\ Once(toIrcd', "NICK") /\ ~Has(toIrcd', "NICK") /\ Once(toUs, "433") /\ ~Has(toUs, "433")
        /\ ircd.nick = <<>> /\ ~ircd.welcome
  BY <1>3, <1>4 DEF NickInv, OneNick, Named
<1>7. reg.phase = "complete" => ircd.welcome
  BY DEF RegInv, Welcomed
<1>8. \A o \in Items(toIrcd') : o.t = "NICK" /\ reg.phase = "complete" => IsNick(o.nick)
  BY <1>3 DEF NickInv, Named
<1>9. CASE toUs' = Append(toUs, no) /\ ircd' = ircd
  <2>1. no.t = "433"
    OBVIOUS
  <2> HIDE DEF no
  <2>2. /\ IsQueue(toUs') /\ Items(toUs') = Items(toUs) \cup {no}
        /\ Once(toUs, "433") /\ ~Has(toUs, "433") => Once(toUs', "433")
    BY <1>1, <1>9, AppendedItems
  <2>3. Ordered(toUs) => Ordered(toUs')
    BY <1>1, <1>9, <2>1, OrderedAppended
  <2>4. \A a, b : Chain(toUs, a, b) => Chain(toUs', a, b)
    BY <1>1, <1>9, <2>1, ChainAppended
  <2>5. /\ Has(toUs', "NICK") => Has(toUs, "NICK")
        /\ Has(toUs', "001") <=> Has(toUs, "001")
        /\ Has(toUs, "376") => Has(toUs', "376")
    BY <2>1, <2>2 DEF Has
  <2>6. OneNick'
    BY <1>2, <1>6, <1>9, <2>2 DEF OneNick
  <2>7. Named'
    BY <1>2, <1>8, <1>9, <2>1, <2>2 DEF NickInv, Named
  <2>8. WelcomeFirst'
    BY <1>2, <1>9, <2>3, <2>5 DEF NickInv, WelcomeFirst
  <2>9. Follows'
    BY <1>2, <1>9, <2>1, <2>2, <2>4 DEF NickInv, Follows
  <2> QED
    BY <2>6, <2>7, <2>8, <2>9 DEF NickInv
<1>10. CASE ircd' = [ircd EXCEPT !.nick = nick] /\ ~ircd.welcome /\ toUs' = toUs
  <2> HIDE DEF nick
  <2>1. ~ircd'.welcome /\ reg'.phase # "complete"
    BY <1>1, <1>2, <1>7, <1>10 DEF IrcdShape
  <2>2. OneNick'
    BY <1>2, <1>6, <1>10 DEF OneNick
  <2>3. Named'
    BY <1>2, <1>10, <2>1 DEF NickInv, Named
  <2>4. WelcomeFirst'
    BY <1>2, <1>7, <1>10, <2>1 DEF NickInv, WelcomeFirst
  <2>5. Follows'
    BY <2>1 DEF Follows
  <2> QED
    BY <2>2, <2>3, <2>4, <2>5 DEF NickInv
<1>11. CASE ircd' = [ircd EXCEPT !.nick = nick] /\ ircd.welcome
            /\ toUs' = IF nick # ircd.nick THEN Append(toUs, new) ELSE toUs
  <2>1. reg.phase = "complete" /\ reg'.phase = "complete" /\ nick # <<>>
    BY <1>2, <1>5, <1>6, <1>11
  <2>2. new.t = "NICK" /\ new.from = ircd.nick /\ new.nick = nick
    OBVIOUS
  <2> HIDE DEF new, nick
  <2>3. ircd'.nick = nick /\ ircd'.welcome = ircd.welcome
    BY <1>1, <1>11 DEF IrcdShape
  <2>4. Chain(toUs, current, ircd.nick)
    BY <1>11, <2>1 DEF NickInv, Follows
  <2>5. /\ \A o \in Items(toUs') : o \in Items(toUs) \/ o = new
        /\ Ordered(toUs') /\ Chain(toUs', current, nick)
    <3>1. CASE nick = ircd.nick
      BY <1>11, <2>4, <3>1 DEF NickInv, WelcomeFirst
    <3>2. CASE toUs' = Append(toUs, new)
      <4>1. Items(toUs') = Items(toUs) \cup {new}
        BY <1>1, <3>2, AppendedItems
      <4>2. Ordered(toUs')
        BY <1>1, <2>2, <3>2, OrderedAppended DEF NickInv, WelcomeFirst
      <4>3. Chain(toUs', current, new.nick)
        BY <1>1, <2>2, <2>4, <3>2, ChainAppended
      <4> QED
        BY <2>2, <4>1, <4>2, <4>3
    <3> QED
      BY <1>11, <3>1, <3>2
  <2>6. OneNick'
    BY <2>1 DEF OneNick
  <2>7. Named'
    BY <1>2, <1>8, <2>1, <2>2, <2>3, <2>5 DEF NickInv, Named
  <2>8. WelcomeFirst'
    <3>1. Has(toUs', "001") => Has(toUs, "001")
      BY <2>2, <2>5 DEF Has
    <3>2. reg.welcome
      BY <2>1 DEF NickInv, Settled
    <3> QED
      BY <1>2, <1>11, <2>1, <2>3, <2>5, <3>1, <3>2 DEF NickInv, WelcomeFirst
  <2>9. Follows'
    <3>1. reg'.welcome
      BY <2>1 DEF Settled
    <3> QED
      BY <1>2, <2>1, <2>3, <2>5, <3>1 DEF Follows
  <2> QED
    BY <2>6, <2>7, <2>8, <2>9 DEF NickInv
<1> QED
  BY <1>9, <1>10, <1>11 DEF IrcdNick

\* Services rename us.
LEMMA NickRenamed ==
  ASSUME RegInv, NickInv, Settled', IrcdRename(Guest)
  PROVE  NickInv'
<1> DEFINE m == [t |-> "NICK", from |-> ircd.nick, nick |-> Guest]
<1>1. IsQueue(toIrcd) /\ IsQueue(toUs) /\ IrcdShape(ircd)
  BY DEF RegInv, Shaped
<1>2. m.t = "NICK" /\ m.from = ircd.nick /\ m.nick = Guest
  OBVIOUS
<1> HIDE DEF m
<1>3. toUs' = Append(toUs, m) /\ ircd' = [ircd EXCEPT !.nick = Guest] /\ ircd.welcome
      /\ UNCHANGED <<reg, current, toIrcd, rx, client>>
  BY DEF IrcdRename, recVars, m
<1>4. ircd'.nick = Guest /\ ircd'.welcome = ircd.welcome
  BY <1>1, <1>3 DEF IrcdShape
<1>5. Guest # <<>>
  BY RegistrationAssumption
<1>6. Items(toUs') = Items(toUs) \cup {m} /\ (Once(toUs, "433") => Once(toUs', "433"))
  BY <1>1, <1>2, <1>3, AppendedItems
<1>7. /\ Has(toUs', "001") => Has(toUs, "001")
      /\ Has(toUs, "001") => Has(toUs', "001")
      /\ Has(toUs, "376") => Has(toUs', "376")
      /\ Has(toUs', "433") => Has(toUs, "433")
  BY <1>2, <1>6 DEF Has
<1>8. Ordered(toUs')
  BY <1>1, <1>2, <1>3, OrderedAppended DEF NickInv, WelcomeFirst
<1>9. \A a : Chain(toUs, a, ircd.nick) => Chain(toUs', a, ircd'.nick)
  BY <1>1, <1>2, <1>3, <1>4, ChainAppended
<1>10. OneNick'
  BY <1>3, <1>6, <1>7 DEF NickInv, OneNick, Named
<1>11. Named'
  BY <1>2, <1>3, <1>4, <1>5, <1>6 DEF NickInv, Named
<1>12. WelcomeFirst'
  BY <1>3, <1>4, <1>7, <1>8 DEF NickInv, WelcomeFirst
<1>13. Follows'
  BY <1>2, <1>3, <1>4, <1>6, <1>9 DEF NickInv, Follows
<1> QED
  BY <1>10, <1>11, <1>12, <1>13 DEF NickInv

\* The welcome.
LEMMA NickWelcomed ==
  ASSUME RegInv, NickInv, Settled', IrcdWelcome
  PROVE  NickInv'
<1> DEFINE w == [t |-> "001", nick |-> ircd.nick]
           e == Reply("376")
<1>1. IsQueue(toIrcd) /\ IsQueue(toUs) /\ IrcdShape(ircd)
  BY DEF RegInv, Shaped
<1>2. w.t = "001" /\ w.nick = ircd.nick /\ e.t = "376"
  BY DEF Reply
<1> HIDE DEF w, e
<1>3. toUs' = toUs \o <<w, e>> /\ ircd' = [ircd EXCEPT !.welcome = TRUE] /\ ircd.nick # <<>> /\ ~ircd.welcome
      /\ UNCHANGED <<reg, current, toIrcd, rx, client>>
  BY DEF IrcdWelcome, recVars, w, e
<1>4. ircd'.nick = ircd.nick /\ ircd'.welcome
  BY <1>1, <1>3 DEF IrcdShape
<1>5. ~reg.welcome /\ reg.phase # "complete" /\ ~Has(toUs, "001") /\ ~Has(toUs, "376") /\ ~Has(toUs, "NICK")
  BY <1>3 DEF RegInv, Welcomed, NickInv, WelcomeFirst
<1>6. IsQueue(<<w, e>>) /\ Items(<<w, e>>) = {w, e}
  BY Two
<1>7. IsQueue(toUs') /\ Items(toUs') = Items(toUs) \cup {w, e}
  BY <1>1, <1>3, <1>6, AddedItems
<1>8. Ordered(toUs')
  BY <1>1, <1>2, <1>3, <1>5, OrderedWelcome
<1>9. Once(toUs, "433") => Once(toUs', "433")
  <2>1. ~Has(<<w, e>>, "433")
    BY <1>2, <1>6 DEF Has
  <2> QED
    BY <1>1, <1>3, <1>6, <2>1, AddedItems
<1>10. /\ Has(toUs', "001") /\ Has(toUs', "376") /\ ~Has(toUs', "NICK")
       /\ Has(toUs', "433") => Has(toUs, "433")
  BY <1>2, <1>5, <1>7 DEF Has
<1>11. Chain(toUs', ircd.nick, ircd.nick)
  BY <1>7, <1>10, ChainFlat
<1>12. OneNick'
  BY <1>3, <1>4, <1>9, <1>10 DEF NickInv, OneNick
<1>13. Named'
  BY <1>2, <1>3, <1>4, <1>7 DEF NickInv, Named
<1>14. WelcomeFirst'
  BY <1>3, <1>5, <1>8, <1>10 DEF WelcomeFirst
<1>15. Follows'
  <2>1. \A o \in Items(toUs') : o.t = "001" => o.nick = ircd.nick
    BY <1>2, <1>5, <1>7 DEF Has
  <2> QED
    BY <1>3, <1>4, <1>5, <1>11, <2>1 DEF Follows
<1> QED
  BY <1>12, <1>13, <1>14, <1>15 DEF NickInv

\* The Driver hears of a change of nick, and knows it for its own.
LEMMA NickHeard ==
  ASSUME RegInv, NickInv, Settled', handleSelfNickChange
  PROVE  NickInv'
<1> DEFINE m == Head(toUs)
<1>1. IsQueue(toIrcd) /\ IsQueue(toUs)
  BY DEF RegInv, Shaped
<1>2. toUs # <<>> /\ toUs' = Tail(toUs) /\ m.t = "NICK" /\ reg.phase # "failed"
      /\ UNCHANGED <<reg, client, toIrcd, ircd>>
  BY DEF handleSelfNickChange, Takes
<1>3. /\ Items(toUs) = Items(toUs') \cup {m}
      /\ Ordered(toUs') /\ ~Has(toUs', "376")
  BY <1>1, <1>2, Left, OrderedTaken DEF NickInv, WelcomeFirst
<1>4. ircd.welcome /\ ~Has(toUs, "376") /\ (Has(toUs', "001") => Has(toUs, "001"))
  BY <1>2, <1>3 DEF Has, NickInv, WelcomeFirst
<1>5. reg.phase = "complete" /\ reg.welcome
  BY <1>2, <1>4 DEF NickInv, WelcomeFirst, Settled
<1>6. m.from = current /\ Chain(toUs', m.nick, ircd.nick)
  BY <1>1, <1>2, <1>4, <1>5, ChainTaken DEF NickInv, Follows
<1>7. current # <<>> /\ m.nick # <<>>
  BY <1>2, <1>3, <1>5 DEF NickInv, Named
<1>8. Same(m.from, CurrentNick)
  BY <1>6, <1>7 DEF CurrentNick, Same
<1>9. current' = m.nick /\ (rx'.s = "reclaim" => rx' = rx)
  BY <1>8 DEF handleSelfNickChange
<1>10. OneNick'
  BY <1>2, <1>5 DEF OneNick
<1>11. Named'
  <2>1. rx'.s = "reclaim" => IsNick(rx'.want)
    BY <1>9 DEF NickInv, Named
  <2> QED
    BY <1>2, <1>3, <1>5, <1>7, <1>9, <2>1 DEF NickInv, Named
<1>12. WelcomeFirst'
  <2>1. ~Has(toUs', "001")
    BY <1>4, <1>5 DEF NickInv, WelcomeFirst
  <2> QED
    BY <1>2, <1>3, <1>4, <1>5, <2>1 DEF WelcomeFirst
<1>13. Follows'
  BY <1>2, <1>5, <1>6, <1>9 DEF Follows
<1> QED
  BY <1>10, <1>11, <1>12, <1>13 DEF NickInv

\* A line of the registration: the welcome gives the nick, its end completes the registration with it, and
\* a refusal is answered with another nick.
LEMMA NickLined ==
  ASSUME RegInv, NickInv, Settled', HandleLine
  PROVE  NickInv'
<1> DEFINE m == Head(toUs)
           req == [t |-> "CAP REQ", caps |-> {"sasl"}]
<1>1. IsQueue(toIrcd) /\ IsQueue(toUs) /\ RegShape(reg) /\ Given
  BY DEF RegInv, Shaped
<1>2. toUs # <<>> /\ toUs' = Tail(toUs) /\ m.t # "NICK" /\ reg.phase # "failed" /\ UNCHANGED <<ircd, rx, client>>
  BY DEF HandleLine, Takes
<1>3. PICK r \in {IF reg.phase = "complete" THEN StepPost(reg, m) ELSE Step(reg, m)} :
        \E asks \in {SesAsks(m, r.reg)} :
           /\ reg' = r.reg
           /\ toIrcd' = toIrcd \o r.out \o IF asks THEN <<req>> ELSE <<>>
           /\ IF reg.phase # "complete" /\ r.reg.phase = "complete"
              THEN current' = r.reg.nick ELSE current' = current
  BY Zenon DEF HandleLine
<1>4. PICK asks \in {SesAsks(m, r.reg)} :
           /\ reg' = r.reg
           /\ toIrcd' = toIrcd \o r.out \o IF asks THEN <<req>> ELSE <<>>
           /\ IF reg.phase # "complete" /\ r.reg.phase = "complete"
              THEN current' = r.reg.nick ELSE current' = current
  BY <1>3
<1>4a. reg' = r.reg /\ r = IF reg.phase = "complete" THEN StepPost(reg, m) ELSE Step(reg, m)
  BY <1>3, <1>4
<1>4b. reg.phase = "complete" =>
         /\ r.reg.phase = reg.phase /\ r.reg.nick = reg.nick
         /\ m.t = "433" => r.out = <<>>
  <2> SUFFICES ASSUME reg.phase = "complete"
               PROVE  /\ r.reg.phase = reg.phase /\ r.reg.nick = reg.nick
                      /\ m.t = "433" => r.out = <<>>
    OBVIOUS
  <2>1. RegShape(reg) /\ reg.welcome
    BY <1>1 DEF NickInv, Settled
  <2>2. r = StepPost(reg, m)
    BY <1>4a
  <2> HIDE DEF m
  <2> QED
    BY <2>1, <2>2, PostKept
<1>5. Fits(reg, m, r)
  BY <1>1, <1>3, StepFits, PostFits
<1>6. /\ reg.welcome => reg'.welcome
      /\ reg'.welcome => reg.welcome \/ m.t = "001"
      /\ m.t \notin {"001", "433"} => reg'.nick = reg.nick
      /\ reg'.phase = "complete" => reg.phase = "complete" \/ (m.t = "376" /\ reg.welcome)
      /\ IF reg.phase # "complete" /\ reg'.phase = "complete" THEN current' = reg'.nick ELSE current' = current
  BY <1>4, <1>5 DEF Fits, Leads
<1>7. reg.phase = "complete" => reg'.phase = "complete" /\ reg'.nick = reg.nick
  BY <1>4a, <1>4b
\* What is said.
<1>8. IsQueue(r.out) /\ Once(r.out, "NICK") /\ (Has(r.out, "NICK") => m.t = "433" /\ reg.phase # "complete")
  <2>1. Says(m, r.out)
    BY <1>5 DEF Fits
  <2>2. m.t = "433" /\ reg.phase = "complete" => r.out = <<>>
    BY <1>4b
  <2>3. ~Has(<<>>, "NICK")
    BY NoneThere
  <2> QED
    BY <2>1, <2>2, <2>3 DEF Says, Has
<1>9. /\ IsQueue(toIrcd') /\ (Has(toIrcd', "NICK") => Has(toIrcd, "NICK") \/ Has(r.out, "NICK"))
      /\ ~Has(r.out, "NICK") => Less(toIrcd', toIrcd, "NICK")
      /\ ~Has(toIrcd, "NICK") => Once(toIrcd', "NICK")
  <2> DEFINE out == r.out
             more == IF asks THEN <<req>> ELSE <<>>
             said == toIrcd \o out
  <2>1. IsQueue(more) /\ ~Has(more, "NICK")
    <3>1. IsQueue(<<req>>) /\ Items(<<req>>) = {req} /\ req.t # "NICK"
      BY One
    <3> HIDE DEF req
    <3>2. ~Has(<<req>>, "NICK")
      BY <3>1 DEF Has
    <3> QED
      BY <3>1, <3>2, NoneThere
  <2>2. toIrcd' = said \o more /\ IsQueue(out) /\ Once(out, "NICK")
    BY <1>4, <1>8
  <2> HIDE DEF out, more
  <2>3. /\ IsQueue(said) /\ Items(said) = Items(toIrcd) \cup Items(out)
        /\ Once(toIrcd, "NICK") /\ ~Has(out, "NICK") => Once(said, "NICK")
        /\ ~Has(toIrcd, "NICK") => Once(said, "NICK")
    BY <1>1, <2>2, AddedItems
  <2> HIDE DEF said
  <2>4. /\ IsQueue(toIrcd') /\ Items(toIrcd') = Items(said) \cup Items(more)
        /\ Once(said, "NICK") => Once(toIrcd', "NICK")
    BY <2>1, <2>2, <2>3, AddedItems
  <2>5. Has(toIrcd', "NICK") => Has(toIrcd, "NICK") \/ Has(out, "NICK")
    BY <2>1, <2>3, <2>4 DEF Has
  <2>6. ~Has(out, "NICK") => Less(toIrcd', toIrcd, "NICK")
    BY <2>1, <2>3, <2>4 DEF Has, Less
  <2> QED
    BY <2>3, <2>4, <2>5, <2>6 DEF out
\* What is left to hear.
<1>10. Kept(toUs', toUs) /\ Items(toUs) = Items(toUs') \cup {m}
  BY <1>1, <1>2, KeptBy, Left
<1>11. /\ m.t # "001" /\ Has(toUs, "001") => Has(toUs', "001")
       /\ m.t # "376" /\ Has(toUs, "376") => Has(toUs', "376")
       /\ \A t : Has(toUs', t) => Has(toUs, t)
       /\ Has(toUs, m.t)
  BY <1>10 DEF Has
<1>12. /\ Ordered(toUs')
       /\ m.t = "376" => ~Has(toUs', "001")
       /\ m.t = "001" => ~Has(toUs', "001")
  BY <1>1, <1>2, OrderedTaken DEF NickInv, WelcomeFirst
<1>13. /\ \A o \in Items(toUs') : o.t \in {"NICK", "001"} => o.nick # <<>>
       /\ m.t = "001" => m.nick # <<>>
  BY <1>10 DEF NickInv, Named
<1>14. CASE reg.phase = "complete" \/ m.t \notin {"433", "001", "376"}
  <2>1. CASE reg.phase = "complete"
    <3>1. reg.welcome
      BY <2>1 DEF NickInv, Settled
    <3>2. ~Has(r.out, "NICK")
      BY <1>8, <2>1
    <3>3. current' = current /\ reg'.nick = reg.nick /\ reg'.phase = "complete" /\ reg'.welcome
      BY <1>6, <1>7, <2>1, <3>1
    <3>4. (rx'.s = "reclaim" => IsNick(rx'.want)) /\ (client' # <<>> => IsNick(client'))
      BY <1>2 DEF NickInv, Named
    <3> HIDE DEF NickInv, m
    <3> QED
      BY <1>2, <1>9, <1>10, <2>1, <3>1, <3>2, <3>3, <3>4, NickFramed
  <2>2. CASE reg.phase # "complete" /\ m.t \notin {"433", "001", "376"}
    <3>1. ~Has(r.out, "NICK")
      BY <1>8, <2>2
    <3>2. /\ current' = current /\ reg'.nick = reg.nick /\ reg'.phase # "complete"
          /\ reg.welcome => reg'.welcome
          /\ reg'.welcome => reg.welcome
      BY <1>6, <2>2
    <3>3. (rx'.s = "reclaim" => IsNick(rx'.want)) /\ (client' # <<>> => IsNick(client'))
      BY <1>2 DEF NickInv, Named
    <3>4. (Has(toUs, "001") => Has(toUs', "001")) /\ (Has(toUs, "376") => Has(toUs', "376"))
      BY <1>11, <2>2
    <3> HIDE DEF NickInv, m
    <3> QED
      BY <1>2, <1>9, <1>10, <2>2, <3>1, <3>2, <3>3, <3>4, NickFramed
  <2> QED
    BY <1>14, <2>1, <2>2
<1>15. CASE reg.phase # "complete" /\ m.t = "433"
  <2>1. Has(toUs, "433") /\ Once(toUs, "433")
    BY <1>11, <1>15 DEF NickInv, OneNick
  <2>2. ircd.nick = <<>> /\ ~Has(toIrcd, "NICK") /\ ~ircd.welcome /\ ~reg.welcome
    BY <1>15, <2>1 DEF NickInv, OneNick, Named, RegInv, Welcomed
  <2>3. reg'.phase # "complete" /\ ~reg'.welcome
    BY <1>6, <1>15, <2>2
  <2>4. ~Has(toUs', "433") /\ Once(toUs', "433")
    <3>1. /\ Once(toUs, m.t) => ~Has(toUs', m.t)
      BY <1>1, <1>2, Taken
    <3> QED
      BY <1>10, <1>15, <2>1, <3>1 DEF Kept
  <2>5. OneNick'
    BY <1>2, <1>9, <2>2, <2>4 DEF OneNick
  <2>6. Named'
    BY <1>2, <1>13, <2>2, <2>3 DEF NickInv, Named
  <2>7. WelcomeFirst'
    BY <1>2, <1>11, <1>12, <2>2, <2>3 DEF NickInv, WelcomeFirst
  <2>8. Follows'
    BY <1>2, <2>2 DEF Follows
  <2> QED
    BY <2>5, <2>6, <2>7, <2>8 DEF NickInv
<1>16. CASE reg.phase # "complete" /\ m.t = "001"
  <2>1. reg'.welcome /\ reg'.nick = m.nick
    <3>1. RegShape(reg) /\ r = Step(reg, m)
      BY <1>1, <1>4a, <1>16
    <3> QED
      BY <1>4a, <1>16, <3>1, StepNick
  <2>2. reg'.phase # "complete"
    BY <1>6, <1>16
  <2>3. ircd.welcome /\ ~reg.welcome
    BY <1>11, <1>16 DEF RegInv, Welcomed, NickInv, WelcomeFirst
  <2>4. Chain(toUs', m.nick, ircd.nick)
    <3>1. Chain(toUs, m.nick, ircd.nick)
      BY <1>2, <1>10, <1>16, <2>3 DEF NickInv, Follows
    <3> QED
      BY <1>10, <3>1 DEF Kept
  <2>5. Less(toIrcd', toIrcd, "NICK") /\ (Has(toIrcd', "NICK") => Has(toIrcd, "NICK"))
    BY <1>8, <1>9, <1>16
  <2>6. OneNick'
    BY <1>2, <1>10, <1>11, <1>16, <2>5 DEF NickInv, OneNick, Kept, Less
  <2>7. Named'
    BY <1>2, <1>13, <1>16, <2>1, <2>2 DEF NickInv, Named
  <2>8. WelcomeFirst'
    BY <1>2, <1>11, <1>12, <1>16, <2>1, <2>3 DEF NickInv, WelcomeFirst
  <2>9. Follows'
    BY <1>2, <2>1, <2>2, <2>4 DEF Follows
  <2> QED
    BY <2>6, <2>7, <2>8, <2>9 DEF NickInv
<1>17. CASE reg.phase # "complete" /\ m.t = "376"
  <2>1. ircd.welcome /\ reg.welcome
    <3>1. ircd.welcome
      BY <1>11, <1>17 DEF RegInv, Welcomed
    <3>2. ~Has(toUs, "001")
      BY <1>11, <1>12, <1>17
    <3> QED
      BY <1>2, <3>1, <3>2 DEF NickInv, WelcomeFirst
  <2>2. reg'.phase = "complete" /\ reg'.nick = reg.nick /\ current' = reg.nick /\ reg'.welcome
    <3>1. reg'.phase = "complete"
      <4>1. RegShape(reg) /\ r = Step(reg, m)
        BY <1>1, <1>4a, <1>17
      <4> QED
        BY <1>4a, <1>17, <2>1, <4>1, StepNick
    <3> QED
      BY <1>6, <1>17, <2>1, <3>1
  <2>3. Chain(toUs', reg.nick, ircd.nick)
    <3>1. Chain(toUs, reg.nick, ircd.nick)
      BY <1>2, <1>17, <2>1 DEF NickInv, Follows
    <3> QED
      BY <1>10, <3>1 DEF Kept
  <2>4. ~Has(toIrcd', "NICK")
    <3>1. ~Has(toIrcd, "NICK")
      BY <1>17, <2>1 DEF NickInv, OneNick, Named
    <3> QED
      BY <1>8, <1>9, <1>17, <3>1
  <2>5. OneNick'
    BY <2>2 DEF OneNick
  <2>6. Named'
    <3>1. \A o \in Items(toIrcd') : o.t # "NICK"
      BY <2>4 DEF Has
    <3> QED
      BY <1>2, <1>13, <2>1, <2>2, <3>1 DEF NickInv, Named
  <2>7. WelcomeFirst'
    BY <1>2, <1>11, <1>12, <1>17, <2>1, <2>2 DEF NickInv, WelcomeFirst
  <2>8. Follows'
    BY <1>2, <2>2, <2>3 DEF Follows
  <2> QED
    BY <2>5, <2>6, <2>7, <2>8 DEF NickInv
<1> QED
  BY <1>14, <1>15, <1>16, <1>17

LEMMA NickInvHolds == Spec => []NickInv
<1>1. Init => NickInv
  <2> SUFFICES ASSUME Init
               PROVE  NickInv
    OBVIOUS
  <2> DEFINE ls == Line("CAP LS")
             n  == NickLine(cfg.primary)
             u  == Line("USER")
  <2>1. ls.t = "CAP LS" /\ n.t = "NICK" /\ u.t = "USER"
    BY DEF Line, NickLine
  <2>2. toIrcd = <<ls, n, u>> /\ toUs = <<>>
    BY DEF Init, Start
  <2> HIDE DEF ls, n, u
  <2>3. Once(toIrcd, "NICK")
    <3>1. Len(toIrcd) = 3 /\ toIrcd[1] = ls /\ toIrcd[2] = n /\ toIrcd[3] = u /\ 1 .. 3 = {1, 2, 3}
      BY <2>2
    <3>2. \A i \in 1 .. Len(toIrcd) : toIrcd[i].t = "NICK" => i = 2
      BY <2>1, <3>1
    <3> QED
      BY <3>2 DEF Once
  <2>4. IsQueue(toUs) /\ Items(toUs) = {} /\ \A t : ~Has(toUs, t) /\ Once(toUs, t)
    BY <2>2, NoneThere
  <2>5. Ordered(toUs)
    BY <2>2, <2>4 DEF Ordered
  <2>6. ~reg.welcome /\ reg.phase = "cap"
    BY DEF Init, NewState
  <2>7. ~ircd.welcome /\ ircd.nick = <<>> /\ client = <<>> /\ rx.s = "idle"
    BY DEF Init, NoRx
  <2>8. ~Busy
    <3>1. ~Checked
      BY DEF Init, Checked, Off
    <3>2. ~rec.pending
      BY DEF Init
    <3> QED
      BY <2>7, <3>1, <3>2 DEF Busy
  <2>9. Settled /\ OneNick /\ Named
    BY <2>3, <2>4, <2>6, <2>7, <2>8 DEF Settled, OneNick, Named
  <2>10. WelcomeFirst /\ Follows
    BY <2>4, <2>5, <2>6, <2>7 DEF WelcomeFirst, Follows
  <2> QED
    BY <2>9, <2>10 DEF NickInv
<1>2. RegInv /\ Recovery /\ NickInv /\ [Next]_vars => NickInv'
  <2> SUFFICES ASSUME RegInv, Recovery, NickInv, [Next]_vars
               PROVE  NickInv'
    OBVIOUS
  <2>1. Settled'
    BY SettledSteps DEF NickInv
  <2> HIDE DEF RegInv, NickInv
  <2> QED
    BY <2>1, NickQuiet, NickAsked, NickEnquired, NickGiven, NickRenamed, NickWelcomed, NickHeard, NickLined
    DEF Next, Run, Ircd, Others
<1> QED
  BY <1>1, <1>2, RegInvHolds, RecoveryHolds, PTL DEF Spec

\* Once every line has been handled the Driver knows the nick the ircd knows, however the client, services,
\* the ladder and recovery have changed it (handleSelfNickChange, the 001's nick in Step).
THEOREM NickIsTracked == Spec => []NickTracked
<1>1. RegInv /\ NickInv => NickTracked
  <2> SUFFICES ASSUME RegInv, NickInv, reg.phase = "complete", toUs = <<>>
               PROVE  current = ircd.nick
    BY DEF NickTracked
  <2>1. ircd.welcome
    BY DEF RegInv, Welcomed
  <2>2. Chain(toUs, current, ircd.nick)
    BY <2>1 DEF NickInv, Follows
  <2>3. Len(toUs) = 0
    OBVIOUS
  <2> QED
    BY <2>2, <2>3 DEF Chain
<1> QED
  BY <1>1, RegInvHolds, NickInvHolds, PTL

\* Recovery goes by the right nick, and not at all while a client's choice stands (handleSelfNickChange,
\* StopNickRecovery).
THEOREM NickIsSound == Spec => []NickSound
<1>1. NickTracked /\ HeldIsIdle => NickSound
  BY DEF NickSound
<1> QED
  BY <1>1, NickIsTracked, HeldMeansIdle, PTL

-----------------------------------------------------------------------------
(* Types.                                                                    *)

At == {"off", "new", "idle", "checked", "sending"}

\* The current loop is one that runs.
LoopTypes ==
  /\ rec.stop \in 0 .. MaxLoops /\ \A i \in Loops : loop[i].s \in At
  /\ rec.stop # 0 => loop[rec.stop].s # "off"

LEMMA LoopSet ==
  ASSUME Recovery, LoopTypes, NEW i \in Loops, NEW x, {"s", "ask"} \subseteq DOMAIN x, x.s \in At,
         loop' = [loop EXCEPT ![i] = x], rec'.stop \in {0, rec.stop, i}, x.s = "off" => rec'.stop # i
  PROVE  LoopTypes'
<1>1. loop'[i] = x /\ \A j \in Loops : j # i => loop'[j] = loop[j]
  BY Moved
<1>2. rec'.stop \in 0 .. MaxLoops /\ (rec'.stop # 0 => rec'.stop \in Loops)
  BY RegistrationAssumption DEF LoopTypes, Loops
<1>3. \A j \in Loops : loop'[j].s \in At
  BY <1>1 DEF LoopTypes
<1>4. rec'.stop # 0 => loop'[rec'.stop].s # "off"
  <2>1. CASE rec'.stop = i
    BY <1>1, <2>1
  <2>2. CASE rec'.stop # i /\ rec'.stop # 0
    BY <1>1, <1>2, <2>2 DEF LoopTypes
  <2> QED
    BY <2>1, <2>2
<1>5. Loops' = Loops /\ MaxLoops' = MaxLoops
  BY DEF Loops
<1> QED
  BY <1>2, <1>3, <1>4 DEF LoopTypes, Loops

LEMMA LoopKept ==
  ASSUME LoopTypes, UNCHANGED loop, rec'.stop \in {0, rec.stop}
  PROVE  LoopTypes'
<1>1. rec'.stop \in 0 .. MaxLoops
  BY RegistrationAssumption DEF LoopTypes
<1> QED
  BY <1>1 DEF LoopTypes, Loops

LEMMA StartTypes ==
  ASSUME Recovery, LoopTypes, NEW n, startNickRecoveryIfNeeded(n)
  PROVE  LoopTypes' /\ rec'.pending = rec.pending /\ rec'.held = rec.held
<1>1. CASE UNCHANGED <<rec, loop>>
  BY <1>1, LoopKept
<1>2. CASE \E i \in Loops : /\ loop' = [loop EXCEPT ![i].s = "new"]
                            /\ rec' = [rec EXCEPT !.stop = i]
  <2>1. PICK i \in Loops : loop' = [loop EXCEPT ![i].s = "new"] /\ rec' = [rec EXCEPT !.stop = i]
    BY <1>2
  <2> DEFINE x == [loop[i] EXCEPT !.s = "new"]
  <2>2. {"s", "ask"} \subseteq DOMAIN x /\ x.s = "new" /\ loop' = [loop EXCEPT ![i] = x]
    BY <2>1 DEF Recovery
  <2> HIDE DEF x
  <2>3. rec'.stop = i /\ rec'.pending = rec.pending /\ rec'.held = rec.held
    BY <2>1 DEF Recovery
  <2>4. x.s \in At /\ x.s # "off"
    BY <2>2 DEF At
  <2> QED
    BY <2>2, <2>3, <2>4, LoopSet
<1> QED
  BY <1>1, <1>2 DEF startNickRecoveryIfNeeded

LEMMA LoopTypeSteps ==
  ASSUME Recovery, LoopTypes, NEW i \in Loops, Loop(i) \/ LoopExit(i)
  PROVE  LoopTypes' /\ rec'.pending \in {rec.pending, TRUE, FALSE} /\ rec'.held = rec.held
<1> DEFINE asking == [s |-> "checked", ask |-> isonTargets(CurrentNick)]
           sent   == [loop[i] EXCEPT !.s = "sending"]
<1>1. /\ {"s", "ask"} \subseteq DOMAIN Idle /\ Idle.s = "idle" /\ {"s", "ask"} \subseteq DOMAIN Off /\ Off.s = "off"
      /\ {"s", "ask"} \subseteq DOMAIN asking /\ asking.s = "checked"
  BY DEF Idle, Off
<1>2. {"s", "ask"} \subseteq DOMAIN sent /\ sent.s = "sending"
  BY DEF Recovery
<1>3. {"off", "idle", "checked", "sending"} \subseteq At
  BY DEF At
<1>4. ASSUME NEW x \in {Idle, asking, sent}, loop' = [loop EXCEPT ![i] = x], rec'.stop \in {0, rec.stop}
      PROVE  LoopTypes'
  <2> HIDE DEF asking, sent
  <2>1. {"s", "ask"} \subseteq DOMAIN x /\ x.s \in At /\ x.s # "off"
    BY <1>1, <1>2, <1>3
  <2> QED
    BY <1>4, <2>1, LoopSet
<1>5. CASE UNCHANGED rec /\ loop' = [loop EXCEPT ![i] = Idle]
  BY <1>4, <1>5
<1>6. CASE TickCheck(i)
  <2>1. CASE rec' = stopNickRecovery(rec) /\ loop' = [loop EXCEPT ![i] = Idle]
    <3>1. rec'.stop = 0 /\ rec'.pending = FALSE /\ rec'.held = rec.held
      BY <2>1 DEF stopNickRecovery, Recovery
    <3> QED
      BY <1>4, <2>1, <3>1
  <2>2. CASE loop' = [loop EXCEPT ![i] = asking] /\ UNCHANGED rec
    BY <1>4, <2>2
  <2> QED
    BY <1>6, <2>1, <2>2 DEF TickCheck
<1>7. CASE TickPend(i)
  <2>1. CASE loop' = [loop EXCEPT ![i].s = "sending"] /\ rec' = [rec EXCEPT !.pending = TRUE]
    <3>1. rec'.stop = rec.stop /\ rec'.pending = TRUE /\ rec'.held = rec.held
      BY <2>1 DEF Recovery
    <3>2. loop' = [loop EXCEPT ![i] = sent]
      BY <2>1
    <3> QED
      BY <1>4, <3>1, <3>2
  <2> QED
    BY <1>5, <1>7, <2>1 DEF TickPend
<1>8. CASE TickSend(i)
  BY <1>5, <1>8 DEF TickSend
<1>9. CASE LoopExit(i)
  <2>1. loop' = [loop EXCEPT ![i] = Off] /\ rec.stop # i /\ UNCHANGED rec
    BY <1>9 DEF LoopExit
  <2>2. Off.s \in At
    BY <1>1, <1>3
  <2>3. LoopTypes'
    BY <1>1, <2>1, <2>2, LoopSet
  <2> QED
    BY <2>1, <2>3
<1> QED
  BY <1>6, <1>7, <1>8, <1>9 DEF Loop

\* What changes: the loops, the flags, what Run is about to do and the count of moves.
LEMMA TypeSteps ==
  ASSUME Recovery, LoopTypes, rx.s \in {"idle", "reclaim", "clear"}, moves \in 0 .. MaxMoves, [Next]_vars
  PROVE  /\ LoopTypes' /\ rec'.pending \in {rec.pending, TRUE, FALSE} /\ rec'.held \in {rec.held, TRUE, FALSE}
         /\ rx'.s \in {"idle", "reclaim", "clear"} /\ moves' \in 0 .. MaxMoves
<1>1. CASE UNCHANGED <<rec, loop, rx>> /\ (moves' = moves \/ (moves < MaxMoves /\ moves' = moves + 1))
  <2>1. moves' \in 0 .. MaxMoves
    BY <1>1, RegistrationAssumption
  <2>2. LoopTypes'
    BY <1>1, LoopKept
  <2> QED
    BY <1>1, <2>1, <2>2
<1>2. ASSUME NEW i \in Loops, Loop(i) \/ LoopExit(i)
      PROVE  /\ LoopTypes' /\ rec'.pending \in {rec.pending, TRUE, FALSE} /\ rec'.held = rec.held
             /\ UNCHANGED <<rx, moves>>
  <2>1. UNCHANGED <<rx, moves>>
    BY <1>2 DEF Loop, TickCheck, TickPend, TickSend, LoopExit
  <2> QED
    BY <1>2, <2>1, LoopTypeSteps
<1>3. CASE HandleLine
  <2>1. UNCHANGED <<rx, moves>> /\ (UNCHANGED <<rec, loop>> \/ \E n : startNickRecoveryIfNeeded(n))
    BY <1>3 DEF HandleLine
  <2> QED
    BY <1>1, <2>1, StartTypes
<1>4. CASE handleRecoveryISON
  <2>1. rec' = [rec EXCEPT !.pending = FALSE] /\ UNCHANGED <<loop, moves>> /\ rx'.s \in {"idle", "reclaim"}
    BY <1>4 DEF handleRecoveryISON, NoRx
  <2>2. rec'.stop = rec.stop /\ rec'.pending = FALSE /\ rec'.held = rec.held
    BY <2>1 DEF Recovery
  <2> QED
    BY <2>1, <2>2, LoopKept
<1>5. CASE Reclaim
  <2>1. UNCHANGED <<rec, loop, moves>> /\ rx'.s = "idle"
    BY <1>5 DEF Reclaim, NoRx
  <2> QED
    BY <2>1, LoopKept
<1>6. CASE handleSelfNickChange
  <2>1. UNCHANGED moves /\ rx'.s \in {"idle", "reclaim", "clear"}
    BY <1>6 DEF handleSelfNickChange
  <2>2. \/ UNCHANGED <<rec, loop>>
        \/ rec' = stopNickRecovery(rec) /\ UNCHANGED loop
        \/ \E n : startNickRecoveryIfNeeded(n)
    BY <1>6 DEF handleSelfNickChange
  <2>3. CASE rec' = stopNickRecovery(rec) /\ UNCHANGED loop
    <3>1. rec'.stop = 0 /\ rec'.pending = FALSE /\ rec'.held = rec.held
      BY <2>3 DEF stopNickRecovery, Recovery
    <3> QED
      BY <2>1, <2>3, <3>1, LoopKept
  <2> QED
    BY <2>1, <2>2, <2>3, StartTypes, LoopKept
<1>7. CASE clearNickRecoveryHold
  <2>1. rec' = [rec EXCEPT !.held = FALSE] /\ UNCHANGED <<loop, moves>> /\ rx'.s = "idle"
    BY <1>7 DEF clearNickRecoveryHold, NoRx
  <2>2. rec'.stop = rec.stop /\ rec'.pending = rec.pending /\ rec'.held = FALSE
    BY <2>1 DEF Recovery
  <2> QED
    BY <2>1, <2>2, LoopKept
<1>8. ASSUME NEW n, StopNickRecovery(n)
      PROVE  /\ LoopTypes' /\ rec'.pending = FALSE /\ rec'.held = TRUE /\ UNCHANGED rx
             /\ moves < MaxMoves /\ moves' = moves + 1
  <2> DEFINE x == stopNickRecovery(rec)
  <2>1. {"stop", "pending", "held"} \subseteq DOMAIN x /\ x.stop = 0 /\ x.pending = FALSE
    BY DEF stopNickRecovery, Recovery
  <2>2. rec' = [x EXCEPT !.held = TRUE] /\ UNCHANGED <<loop, rx>> /\ moves < MaxMoves /\ moves' = moves + 1
    BY <1>8 DEF StopNickRecovery
  <2> HIDE DEF x
  <2>3. rec'.stop = 0 /\ rec'.pending = FALSE /\ rec'.held = TRUE
    BY <2>1, <2>2
  <2> QED
    BY <2>2, <2>3, LoopKept
<1>9. CASE \E n \in {Guest, cfg.primary} : StopNickRecovery(n)
  <2>1. moves < MaxMoves /\ moves' = moves + 1
    BY <1>8, <1>9
  <2>2. moves' \in 0 .. MaxMoves
    BY <2>1, RegistrationAssumption
  <2> QED
    BY <1>8, <1>9, <2>2
<1>10. CASE Ircd \/ ClientNick
  <2>1. UNCHANGED <<rec, loop, rx, moves>>
    BY <1>10 DEF Ircd, IrcdCap, IrcdNick, IrcdISON, IrcdAuthenticate, Serve, IrcdWelcome, recVars, ClientNick
  <2> QED
    BY <1>1, <2>1
<1>11. CASE IrcdError \/ IrcdCapDel \/ IrcdCapNew \/ IrcdRename(Guest) \/ ClientISON(Guest)
            \/ \E n \in Range(Ladder) : OtherUser(n)
  <2>1. UNCHANGED <<rec, loop, rx>> /\ moves < MaxMoves /\ moves' = moves + 1
    BY <1>11 DEF IrcdError, IrcdCapDel, IrcdCapNew, IrcdRename, ClientISON, OtherUser, Move, recVars
  <2> QED
    BY <1>1, <2>1
<1>12. CASE UNCHANGED vars
  BY <1>1, <1>12 DEF vars
<1> QED
  BY <1>2, <1>3, <1>4, <1>5, <1>6, <1>7, <1>9, <1>10, <1>11, <1>12 DEF Next, Run, Others

\* The state of a registration and of nick recovery keeps its types, and the loop that recovery holds on to
\* is one that runs (startNickRecoveryIfNeeded, LoopExit).
THEOREM TypeCorrect == Spec => []TypeOK
<1> DEFINE Flags == rec.pending \in {TRUE, FALSE} /\ rec.held \in {TRUE, FALSE}
           Rest  == rx.s \in {"idle", "reclaim", "clear"} /\ moves \in 0 .. MaxMoves
           Types == LoopTypes /\ Flags /\ Rest
<1>1. Init => Types
  <2> SUFFICES ASSUME Init
               PROVE  Types
    OBVIOUS
  <2>1. Flags
    BY DEF Init
  <2>2. Rest
    BY RegistrationAssumption DEF Init, NoRx
  <2>3. LoopTypes
    BY RegistrationAssumption DEF Init, LoopTypes, At, Off
  <2> QED
    BY <2>1, <2>2, <2>3
<1>2. Recovery /\ Types /\ [Next]_vars => Types'
  <2> SUFFICES ASSUME Recovery, Types, [Next]_vars
               PROVE  Types'
    OBVIOUS
  <2>1. /\ LoopTypes' /\ rec'.pending \in {rec.pending, TRUE, FALSE} /\ rec'.held \in {rec.held, TRUE, FALSE}
        /\ rx'.s \in {"idle", "reclaim", "clear"} /\ moves' \in 0 .. MaxMoves
    BY TypeSteps
  <2> QED
    BY <2>1
<1>3. RegInv /\ Types => TypeOK
  <2> SUFFICES ASSUME RegInv, Types
               PROVE  TypeOK
    OBVIOUS
  <2>1. /\ reg.phase \in {"cap", "authenticating", "awaiting", "complete", "failed"}
        /\ reg.mech \in Mechs \union {"none"} /\ reg.conv \in 0 .. 3
    BY DEF RegInv, Shaped, RegShape, Mechs
  <2>2. {rec.pending, rec.held} \subseteq BOOLEAN
    OBVIOUS
  <2>3. rec.stop # 0 => loop[rec.stop] # Off
    BY DEF LoopTypes, Off
  <2>4. \A i \in Loops : loop[i].s \in {"off", "new", "idle", "checked", "sending"}
    BY DEF LoopTypes, At
  <2>5. rec.stop \in 0 .. MaxLoops
    BY DEF LoopTypes
  <2> QED
    BY <2>1, <2>2, <2>3, <2>4, <2>5 DEF TypeOK
<1> QED
  BY <1>1, <1>2, <1>3, RegInvHolds, RecoveryHolds, PTL DEF Spec
=============================================================================
