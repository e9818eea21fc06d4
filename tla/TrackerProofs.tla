--------------------------- MODULE TrackerProofs ---------------------------
(***************************************************************************)
(* Proofs about Tracker, for any clients, commands and number of requests: *)
(* every pending request has somebody who waits for it and is still there, *)
(* and a write is never held at the head of its queue.                     *)
(*                                                                         *)
(* Requests leave a queue in three ways (answered, with their client, by   *)
(* age), all by Forget, so the proofs are about Forget of an arbitrary set *)
(* of requests, and about the one place where a request is held: Begin,    *)
(* behind another of its queue.                                            *)
(***************************************************************************)
EXTENDS Tracker, WellFoundedInduction, TLAPS

\* A request has these fields.
IsRequest(r) ==
    r = [id |-> r.id, map |-> r.map, key |-> r.key, q |-> r.q, by |-> r.by, hold |-> r.hold]

\* The requests of S are requests, of the first k ids.
Requests(S, k) ==
    \A r \in S : IsRequest(r) /\ r.id \in 1 .. k /\ r.q \in Commands /\ r.hold \in BOOLEAN

NoneHeld(S) == \A r \in Heads(S) : ~r.hold

\* Each of S is waited for by somebody who is there.
WaitedFor(S, there) == \A r \in S : r.by # {} /\ r.by \subseteq there

\* A tracker of k requests as the clients there see it.
Sound(t, k, there) ==
    /\ Requests(t.reqs, k)
    /\ NoneHeld(t.reqs)
    /\ WaitedFor(t.reqs, there)
    /\ \A l \in t.ready : l.id \in 1 .. k

PendKnown ==
    /\ pend = [c \in Clients |-> pend[c]]
    /\ \A c \in Clients : pend[c] = NoLine \/ pend[c].id \in 1 .. n

TrackerInv ==
    /\ up \in Uplinks /\ attached \subseteq Clients
    /\ n \in 0 .. MaxReq /\ aged \in 0 .. n
    /\ PendKnown
    /\ Sound(T, n, attached)

----------------------------------------------------------------------------
(* Queues. *)

\* Every queue that is not empty has a head, no younger than any given request
\* of it.
LEMMA QueueHasHead ==
    ASSUME NEW S, \A r \in S : r.id \in Nat, NEW g \in S
    PROVE  \E h \in Heads(S) : SameQueue(g, h) /\ h.id <= g.id
<1> DEFINE queue == {r \in S : SameQueue(g, r)}
           ids == {r.id : r \in queue}
           less == {ss \in Nat \X Nat : ss[1] < ss[2]}
<1>1. ids \in SUBSET Nat /\ ids # {}
    BY DEF SameQueue
<1>2. IsWellFoundedOn(less, Nat)
    BY NatLessThanWellFounded DEF OpToRel
<1> HIDE DEF ids, less
<1>3. PICK x \in ids : \A y \in ids : <<y, x>> \notin less
    BY <1>1, <1>2, WFMin
<1>4. \A y \in ids : x <= y
    <2> SUFFICES ASSUME NEW y \in ids, y < x PROVE FALSE
        BY <1>1
    <2>1. <<y, x>> \in Nat \X Nat /\ <<y, x>>[1] = y /\ <<y, x>>[2] = x
        BY <1>1
    <2>2. \A ss \in Nat \X Nat : ss[1] < ss[2] => ss \in less
        BY Zenon DEF less
    <2> QED BY <1>3, <2>1, <2>2
<1>5. PICK h \in queue : h.id = x
    <2>1. x \in ids
        BY <1>3
    <2> QED BY <2>1 DEF ids
<1>6. \A s \in queue : s.id \in ids
    BY DEF ids
<1>7. \A s \in queue : h.id <= s.id
    BY <1>4, <1>5, <1>6
<1>8. h \in S /\ g \in queue /\ SameQueue(g, h)
    BY <1>5 DEF SameQueue
<1>9. \A s \in S : SameQueue(s, h) => s \in queue
    BY <1>8 DEF SameQueue
<1> QED BY <1>7, <1>8, <1>9 DEF Heads

\* Letting a write go changes nothing else of its request.
LEMMA Released ==
    ASSUME NEW r, IsRequest(r)
    PROVE  LET f == [r EXCEPT !.hold = FALSE]
           IN  /\ IsRequest(f) /\ ~f.hold /\ f.hold \in BOOLEAN
               /\ f.id = r.id /\ f.map = r.map /\ f.key = r.key /\ f.q = r.q /\ f.by = r.by
<1> DEFINE Rec == [id : {r.id}, map : {r.map}, key : {r.key}, q : {r.q}, by : {r.by},
                   hold : {r.hold, FALSE}]
<1>1. r \in Rec
    BY DEF IsRequest
<1>2. [r EXCEPT !.hold = FALSE] \in Rec /\ [r EXCEPT !.hold = FALSE].hold = FALSE
    BY <1>1
<1>3. \A f \in Rec : IsRequest(f) /\ f.id = r.id /\ f.map = r.map /\ f.key = r.key /\ f.q = r.q
    BY DEF IsRequest
<1> QED BY <1>1, <1>2, <1>3

\* However a request gets its waiters, it stays the request it was.
LEMMA Rewaited ==
    ASSUME NEW r, IsRequest(r), NEW by
    PROVE  LET f == [r EXCEPT !.by = by]
           IN  /\ IsRequest(f) /\ f.by = by
               /\ f.id = r.id /\ f.map = r.map /\ f.key = r.key /\ f.q = r.q /\ f.hold = r.hold
<1> DEFINE Rec == [id : {r.id}, map : {r.map}, key : {r.key}, q : {r.q}, by : {r.by, by},
                   hold : {r.hold}]
<1>1. r \in Rec
    BY DEF IsRequest
<1>2. [r EXCEPT !.by = by] \in Rec /\ [r EXCEPT !.by = by].by = by
    BY <1>1
<1>3. \A f \in Rec : IsRequest(f) /\ f.id = r.id /\ f.map = r.map /\ f.key = r.key /\ f.q = r.q
    BY DEF IsRequest
<1> QED BY <1>1, <1>2, <1>3

LEMMA Unchanged ==
    ASSUME NEW r, IsRequest(r)
    PROVE  r = [r EXCEPT !.by = r.by]
<1> DEFINE Rec == [id : {r.id}, map : {r.map}, key : {r.key}, q : {r.q}, by : {r.by},
                   hold : {r.hold}]
<1>1. r \in Rec
    BY DEF IsRequest
<1>2. [r EXCEPT !.by = r.by] \in Rec
    BY <1>1
<1>3. \A f \in Rec : f = r
    BY <1>1
<1> QED BY <1>2, <1>3

\* What is left after some requests are forgotten was there before.
LEMMA ForgetKeeps ==
    ASSUME NEW t, NEW gone, NEW k \in Nat, Requests(t.reqs, k)
    PROVE  LET f == Forget(t, gone)
           IN  /\ Requests(f.reqs, k)
               /\ \A r \in f.reqs : \E s \in t.reqs \ gone : r.id = s.id /\ r.by = s.by
               /\ \A l \in f.ready : l \in t.ready \/ l.id \in 1 .. k
<1> DEFINE kept == t.reqs \ gone
           freed == {r \in Heads(kept) :
                        r.hold /\ \E g \in gone \cap Heads(t.reqs) : SameQueue(g, r)}
           f == Forget(t, gone)
<1>1. /\ f.reqs = (kept \ freed) \cup {[r EXCEPT !.hold = FALSE] : r \in freed}
      /\ f.ready = t.ready \cup {Line(r.id, r.q) : r \in freed}
    BY DEF Forget
<1>2. freed \subseteq kept
    BY DEF Heads
<1> HIDE DEF freed, f
<1>3. ASSUME NEW r \in f.reqs
      PROVE  /\ IsRequest(r) /\ r.id \in 1 .. k /\ r.q \in Commands /\ r.hold \in BOOLEAN
             /\ \E s \in t.reqs \ gone : r.id = s.id /\ r.by = s.by
    <2>1. CASE r \in kept
        BY <2>1 DEF Requests
    <2>2. CASE \E s \in freed : r = [s EXCEPT !.hold = FALSE]
        <3>1. PICK s \in freed : r = [s EXCEPT !.hold = FALSE]
            BY <2>2
        <3>2. s \in t.reqs \ gone /\ IsRequest(s) /\ s.id \in 1 .. k /\ s.q \in Commands
            BY <1>2 DEF Requests
        <3> QED BY <3>1, <3>2, Released
    <2> QED BY <1>1, <2>1, <2>2
<1>4. ASSUME NEW l \in f.ready PROVE l \in t.ready \/ l.id \in 1 .. k
    BY <1>1, <1>2 DEF Line, Requests
<1>5. Requests(f.reqs, k)
    BY <1>3 DEF Requests
<1> QED BY <1>3, <1>4, <1>5 DEF f

\* And no write is held for good behind what was forgotten.
LEMMA ForgetReleases ==
    ASSUME NEW t, NEW gone, NEW k \in Nat, Requests(t.reqs, k), NoneHeld(t.reqs)
    PROVE  NoneHeld(Forget(t, gone).reqs)
<1> DEFINE kept == t.reqs \ gone
           freed == {r \in Heads(kept) :
                        r.hold /\ \E g \in gone \cap Heads(t.reqs) : SameQueue(g, r)}
           F == Forget(t, gone).reqs
<1>1. F = (kept \ freed) \cup {[r EXCEPT !.hold = FALSE] : r \in freed}
    BY DEF Forget
<1>2. \A r \in t.reqs : IsRequest(r) /\ r.id \in Nat
    BY DEF Requests
<1> SUFFICES ASSUME NEW h \in Heads(F), h.hold PROVE FALSE
    BY DEF NoneHeld
<1> HIDE DEF F
<1>3. h \in kept \ freed
    <2>1. h \in F
        BY DEF Heads
    <2>2. ASSUME NEW s \in freed, h = [s EXCEPT !.hold = FALSE] PROVE FALSE
        BY <1>2, <2>2, Released DEF Heads
    <2> QED BY <1>1, <2>1, <2>2
<1>4. h \in Heads(kept)
    <2> SUFFICES ASSUME NEW s \in kept, SameQueue(s, h) PROVE h.id <= s.id
        BY <1>3 DEF Heads
    <2>1. CASE s \notin freed
        BY <1>1, <2>1 DEF Heads
    <2>2. CASE s \in freed
        <3> DEFINE u == [s EXCEPT !.hold = FALSE]
        <3>1. u \in F /\ u.id = s.id /\ SameQueue(u, h)
            BY <1>1, <1>2, <2>2, Released DEF SameQueue
        <3> QED BY <3>1 DEF Heads
    <2> QED BY <2>1, <2>2
<1>5. PICK g \in Heads(t.reqs) : SameQueue(h, g) /\ g.id <= h.id
    BY <1>2, <1>3, QueueHasHead
<1>6. CASE g \in gone
    BY <1>3, <1>4, <1>5, <1>6 DEF SameQueue
<1>7. CASE g \notin gone
    <2>1. g \in t.reqs /\ g \in kept
        BY <1>7 DEF Heads
    <2>2. h.id = g.id
        BY <1>2, <1>3, <1>4, <1>5, <2>1 DEF Heads, SameQueue
    <2>3. h \in Heads(t.reqs)
        BY <1>3, <1>5, <2>2 DEF Heads, SameQueue
    <2> QED BY <2>3 DEF NoneHeld
<1> QED BY <1>6, <1>7

\* Nor does it matter to a queue who waits for its requests.
LEMMA RewaitedQueue ==
    ASSUME NEW S, NEW U, NEW k \in Nat, Requests(S, k), NoneHeld(S),
           \A u \in U : \E s \in S : \E by : u = [s EXCEPT !.by = by],
           \A s \in S : \E u \in U : \E by : u = [s EXCEPT !.by = by]
    PROVE  Requests(U, k) /\ NoneHeld(U)
<1>1. \A s \in S : IsRequest(s)
    BY DEF Requests
<1>2. ASSUME NEW u \in U
      PROVE  \E s \in S : /\ IsRequest(u) /\ u.id = s.id /\ u.map = s.map
                         /\ u.key = s.key /\ u.q = s.q /\ u.hold = s.hold
    <2>1. PICK s \in S : \E by : u = [s EXCEPT !.by = by]
        OBVIOUS
    <2>2. PICK by : u = [s EXCEPT !.by = by]
        BY <2>1
    <2> QED BY <1>1, <2>2, Rewaited, SMTT(30)
<1>3. ASSUME NEW s \in S
      PROVE  \E u \in U : u.id = s.id /\ u.map = s.map /\ u.key = s.key
    <2>1. PICK u \in U : \E by : u = [s EXCEPT !.by = by]
        OBVIOUS
    <2>2. PICK by : u = [s EXCEPT !.by = by]
        BY <2>1
    <2> QED BY <1>1, <2>2, Rewaited
<1>4. Requests(U, k)
    BY <1>2 DEF Requests
<1>5. ASSUME NEW h \in Heads(U) PROVE ~h.hold
    <2>1. PICK s \in S : h.id = s.id /\ h.map = s.map /\ h.key = s.key /\ h.hold = s.hold
        BY <1>2 DEF Heads
    <2>2. s \in Heads(S)
        BY <1>3, <2>1 DEF Heads, SameQueue
    <2> QED BY <2>1, <2>2 DEF NoneHeld
<1> QED BY <1>4, <1>5 DEF NoneHeld

\* A younger request, held only behind an older one, leaves the heads alone.
LEMMA JoinsQueue ==
    ASSUME NEW S, NEW k \in Nat, Requests(S, k), NoneHeld(S),
           NEW new, IsRequest(new), new.id = k + 1, new.q \in Commands, new.hold \in BOOLEAN,
           new.hold => \E s \in S : SameQueue(s, new)
    PROVE  Requests(S \cup {new}, k + 1) /\ NoneHeld(S \cup {new})
<1>1. Requests(S \cup {new}, k + 1)
    BY DEF Requests
<1>2. ASSUME NEW h \in Heads(S \cup {new}), h.hold PROVE FALSE
    <2>1. CASE h \in S
        BY <1>2, <2>1 DEF Heads, NoneHeld
    <2>2. CASE h = new
        <3>1. PICK s \in S : SameQueue(s, new)
            BY <1>2, <2>2
        <3>2. new.id <= s.id
            BY <2>2, <3>1 DEF Heads
        <3> QED BY <3>2 DEF Requests
    <2> QED BY <2>1, <2>2 DEF Heads
<1> QED BY <1>1, <1>2 DEF NoneHeld

LEMMA ForgetSound ==
    ASSUME NEW t, NEW gone, NEW k \in Nat, NEW there, Sound(t, k, there)
    PROVE  Sound(Forget(t, gone), k, there)
<1>1. Requests(t.reqs, k) /\ NoneHeld(t.reqs)
    BY DEF Sound
<1> DEFINE f == Forget(t, gone)
<1>2. /\ Requests(f.reqs, k)
      /\ \A r \in f.reqs : \E s \in t.reqs \ gone : r.id = s.id /\ r.by = s.by
      /\ \A l \in f.ready : l \in t.ready \/ l.id \in 1 .. k
    BY <1>1, ForgetKeeps
<1>3. NoneHeld(f.reqs)
    BY <1>1, ForgetReleases
<1> HIDE DEF f
<1>4. WaitedFor(f.reqs, there)
    BY <1>2 DEF Sound, WaitedFor
<1>5. Sound(f, k, there)
    BY <1>2, <1>3, <1>4 DEF Sound
<1> QED BY <1>5 DEF f

\* A client that leaves is waited for by nobody, and nothing waits for him.
LEMMA DropSound ==
    ASSUME NEW t, t = [reqs |-> t.reqs, ready |-> t.ready],
           NEW k \in Nat, NEW there, Sound(t, k, there), NEW c
    PROVE  Sound(DropClient(t, c), k, there \ {c})
<1> DEFINE gone == {r \in t.reqs : r.by = {c}}
           U == {IF r.by = {c} THEN r ELSE [r EXCEPT !.by = @ \ {c}] : r \in t.reqs}
           u == [reqs |-> U, ready |-> t.ready]
           f == Forget(u, gone)
<1>1. DropClient(t, c) = f
    <2>1. ASSUME NEW S PROVE [t EXCEPT !.reqs = S] = [reqs |-> S, ready |-> t.ready]
        <3>1. [t EXCEPT !.reqs = S] \in [reqs : {S}, ready : {t.ready}]
            <4>1. t \in [reqs : {t.reqs, S}, ready : {t.ready}]
                OBVIOUS
            <4> QED BY <4>1
        <3> QED BY <3>1
    <2>2. [t EXCEPT !.reqs = U] = u
        BY <2>1
    <2> QED BY <2>2 DEF DropClient
<1>2. \A r \in t.reqs : IsRequest(r)
    BY DEF Sound, Requests
<1>3. Requests(u.reqs, k) /\ NoneHeld(u.reqs)
    <2>1. ASSUME NEW s \in U PROVE \E r \in t.reqs : \E by : s = [r EXCEPT !.by = by]
        <3>1. PICK r \in t.reqs : s = IF r.by = {c} THEN r ELSE [r EXCEPT !.by = @ \ {c}]
            OBVIOUS
        <3>2. r = [r EXCEPT !.by = r.by]
            BY <1>2, Unchanged
        <3>3. s = [r EXCEPT !.by = r.by] \/ s = [r EXCEPT !.by = r.by \ {c}]
            BY <3>1, <3>2
        <3> QED BY <3>3
    <2>2. ASSUME NEW r \in t.reqs PROVE \E s \in U : \E by : s = [r EXCEPT !.by = by]
        <3> DEFINE s == IF r.by = {c} THEN r ELSE [r EXCEPT !.by = @ \ {c}]
        <3>1. r = [r EXCEPT !.by = r.by]
            BY <1>2, Unchanged
        <3>2. s = [r EXCEPT !.by = r.by] \/ s = [r EXCEPT !.by = r.by \ {c}]
            BY <3>1
        <3>3. s \in U
            OBVIOUS
        <3> QED BY <3>2, <3>3
    <2> HIDE DEF U
    <2>3. Requests(t.reqs, k) /\ NoneHeld(t.reqs)
        BY DEF Sound
    <2>4. Requests(U, k) /\ NoneHeld(U)
        BY <2>1, <2>2, <2>3, RewaitedQueue
    <2> QED BY <2>4
<1>4. ASSUME NEW s \in u.reqs \ gone PROVE s.by # {} /\ s.by \subseteq there \ {c}
    <2>1. PICK r \in t.reqs : s = IF r.by = {c} THEN r ELSE [r EXCEPT !.by = @ \ {c}]
        OBVIOUS
    <2>2. r.by # {c}
        BY <1>4, <2>1
    <2>3. s.by = r.by \ {c}
        BY <1>2, <2>1, <2>2, Rewaited
    <2>4. r.by # {} /\ r.by \subseteq there
        BY DEF Sound, WaitedFor
    <2> QED BY <2>2, <2>3, <2>4
<1>5. \A l \in u.ready : l.id \in 1 .. k
    BY DEF Sound
<1> HIDE DEF gone, u
<1>6. /\ Requests(f.reqs, k)
      /\ \A r \in f.reqs : \E s \in u.reqs \ gone : r.id = s.id /\ r.by = s.by
      /\ \A l \in f.ready : l \in u.ready \/ l.id \in 1 .. k
    BY <1>3, ForgetKeeps
<1>7. NoneHeld(f.reqs)
    BY <1>3, ForgetReleases
<1> HIDE DEF f
<1>8. WaitedFor(f.reqs, there \ {c})
    BY <1>4, <1>6 DEF WaitedFor
<1>9. Sound(f, k, there \ {c})
    BY <1>5, <1>6, <1>7, <1>8 DEF Sound
<1> QED BY <1>1, <1>9

----------------------------------------------------------------------------
(* The steps. *)

\* The sweep that comes before every step that routes or asks.
LEMMA Swept ==
    ASSUME TrackerInv
    PROVE  Sound(expireLocked(T), n, attached)
BY ForgetSound DEF TrackerInv, expireLocked

LEMMA TAgain ==
    ASSUME NEW t, reqs' = t.reqs, ready' = t.ready, n' \in Nat, Sound(t, n', attached')
    PROVE  Sound(T, n, attached)'
BY DEF Sound, T

LEMMA BeginStep ==
    ASSUME TrackerInv, NEW c \in Clients, NEW q \in Commands, Begin(c, q)
    PROVE  TrackerInv'
<1> DEFINE t == expireLocked(T)
           id == n + 1
           new == [id |-> id, map |-> MapOf(q), key |-> KeyOf(q, id), q |-> q,
                   by |-> {c}, hold |-> Holds(t, q)]
<1>1. /\ Sound(t, n, attached) /\ c \in attached /\ ready' = t.ready /\ n \in Nat /\ n < MaxReq
      /\ UNCHANGED <<up, attached, aged>>
    BY Swept DEF TrackerInv, Begin
<1>2. CASE /\ reqs' = t.reqs \cup {new}
           /\ n' = id
           /\ pend' = [pend EXCEPT ![c] = IF new.hold THEN NoLine ELSE Line(id, q)]
    <2>1. IsRequest(new) /\ new.id = n + 1 /\ new.q \in Commands
        BY DEF IsRequest
    <2>2. new.hold \in BOOLEAN
        BY DEF Holds
    <2>3. ASSUME new.hold PROVE \E s \in t.reqs : SameQueue(s, new)
        <3>1. Waiting(t, q) # {} /\ MapOf(q) \in {"whois", "stats", "names", "serial"}
            BY <2>3 DEF Holds
        <3>2. KeyOf(q, id) = KeyOf(q, 0)
            BY <3>1 DEF KeyOf
        <3> QED BY <3>1, <3>2 DEF Waiting, SameQueue
    <2> HIDE DEF new, t
    <2>4. Requests(t.reqs, n) /\ NoneHeld(t.reqs)
        BY <1>1 DEF Sound
    <2>5. Requests(reqs', n') /\ NoneHeld(reqs')
        BY <1>1, <1>2, <2>1, <2>2, <2>3, <2>4, JoinsQueue
    <2>6. WaitedFor(reqs', attached')
        <3>1. new.by = {c}
            BY DEF new
        <3> QED BY <1>1, <1>2, <3>1 DEF Sound, WaitedFor
    <2>7. \A l \in ready' : l.id \in 1 .. n'
        BY <1>1, <1>2 DEF Sound
    <2>8. PendKnown'
        <3>1. \A d \in Clients : pend'[d] = IF d = c THEN (IF new.hold THEN NoLine ELSE Line(id, q)) ELSE pend[d]
            BY <1>2 DEF TrackerInv, PendKnown
        <3> QED BY <1>1, <1>2, <3>1 DEF TrackerInv, PendKnown, Line, NoLine
    <2>9. Sound(T, n, attached)'
        BY <2>5, <2>6, <2>7 DEF Sound, T
    <2> QED BY <1>1, <1>2, <2>8, <2>9, TrackerAssumption DEF TrackerInv, TrackerAssumption
<1>3. CASE \E r \in Coalesces(t, q) :
               /\ reqs' = (t.reqs \ {r}) \cup {[r EXCEPT !.by = @ \cup {c}]}
               /\ UNCHANGED <<n, pend>>
    <2>1. PICK r \in Coalesces(t, q) :
               /\ reqs' = (t.reqs \ {r}) \cup {[r EXCEPT !.by = @ \cup {c}]}
               /\ UNCHANGED <<n, pend>>
        BY <1>3
    <2>2. r \in t.reqs
        BY DEF Coalesces, Waiting
    <2> HIDE DEF t
    <2>3. Requests(t.reqs, n) /\ NoneHeld(t.reqs) /\ \A s \in t.reqs : IsRequest(s)
        BY <1>1 DEF Sound, Requests
    <2> DEFINE U == (t.reqs \ {r}) \cup {[r EXCEPT !.by = @ \cup {c}]}
    <2>4. ASSUME NEW s \in U PROVE \E x \in t.reqs : \E by : s = [x EXCEPT !.by = by]
        <3>1. CASE s \in t.reqs
            BY <2>3, <3>1, Unchanged
        <3>2. CASE s = [r EXCEPT !.by = r.by \cup {c}]
            BY <2>2, <3>2
        <3> QED BY <3>1, <3>2
    <2>5. ASSUME NEW x \in t.reqs PROVE \E s \in U : \E by : s = [x EXCEPT !.by = by]
        <3>1. CASE x # r
            BY <2>3, <3>1, Unchanged
        <3>2. CASE x = r
            <4>1. [r EXCEPT !.by = r.by \cup {c}] \in U
                OBVIOUS
            <4> QED BY <3>2, <4>1
        <3> QED BY <3>1, <3>2
    <2>6. \A s \in U : s.by # {} /\ s.by \subseteq attached
        <3>1. [r EXCEPT !.by = r.by \cup {c}].by = r.by \cup {c}
            BY <2>2, <2>3, Rewaited
        <3>2. \A s \in t.reqs : s.by # {} /\ s.by \subseteq attached
            BY <1>1 DEF Sound, WaitedFor
        <3> QED BY <1>1, <2>2, <3>1, <3>2
    <2>7. reqs' = U
        BY <2>1
    <2> HIDE DEF U
    <2>8. Requests(U, n) /\ NoneHeld(U)
        BY <1>1, <2>3, <2>4, <2>5, RewaitedQueue
    <2>9. Sound(T, n, attached)'
        BY <1>1, <2>1, <2>6, <2>7, <2>8 DEF Sound, T, WaitedFor
    <2> QED BY <1>1, <2>1, <2>9 DEF TrackerInv, PendKnown
<1> QED
    BY <1>2, <1>3 DEF Begin

\* Only requests that were there are left by a reply.
LEMMA ReplyStep ==
    ASSUME TrackerInv, NEW m, RouteAll(m), UNCHANGED <<up, attached, pend, n, aged>>
    PROVE  TrackerInv'
<1> DEFINE t == expireLocked(T)
<1>1. Sound(t, n, attached) /\ n \in Nat
    BY Swept DEF TrackerInv
<1>2. \E u : reqs' = u.reqs /\ ready' = u.ready /\ Sound(u, n, attached)
    <2>1. CASE reqs' = t.reqs /\ ready' = t.ready
        BY <1>1, <2>1
    <2>2. CASE \E h \in FirstHits(t, m) :
                  LET u == IF h.ends THEN popWaiters(t, h.rs) ELSE t
                  IN  reqs' = u.reqs /\ ready' = u.ready
        <3>1. PICK h \in FirstHits(t, m) :
                  LET u == IF h.ends THEN popWaiters(t, h.rs) ELSE t
                  IN  reqs' = u.reqs /\ ready' = u.ready
            BY <2>2
        <3> DEFINE u == IF h.ends THEN popWaiters(t, h.rs) ELSE t
        <3>2. Sound(u, n, attached)
            BY <1>1, ForgetSound DEF popWaiters
        <3> HIDE DEF u
        <3>3. reqs' = u.reqs /\ ready' = u.ready
            BY <3>1 DEF u
        <3> QED BY <3>2, <3>3
    <2> QED BY <2>1, <2>2 DEF RouteAll
<1>3. Sound(T, n, attached)'
    BY <1>1, <1>2, TAgain
<1> QED BY <1>3 DEF TrackerInv, PendKnown

LEMMA DetachStep ==
    ASSUME TrackerInv, NEW c \in Clients, Detach(c)
    PROVE  TrackerInv'
<1> DEFINE t == DropClient(T, c)
<1>1. /\ attached' = attached \ {c} /\ reqs' = t.reqs /\ ready' = t.ready
      /\ UNCHANGED <<up, pend, n, aged>>
    BY DEF Detach
<1>2. T = [reqs |-> T.reqs, ready |-> T.ready] /\ n \in Nat /\ Sound(T, n, attached)
    BY DEF T, TrackerInv
<1>3. Sound(t, n, attached \ {c})
    BY <1>2, DropSound
<1> HIDE DEF t
<1>4. Sound(T, n, attached)'
    BY <1>1, <1>2, <1>3, TAgain
<1> QED BY <1>1, <1>4 DEF TrackerInv, PendKnown

\* A line leaves the client's goroutine or the ready lines for the wire.
LEMMA OtherStep ==
    ASSUME TrackerInv,
           \/ \E c \in Clients : Write(c)
           \/ TakeReady \/ Chatter \/ Age \/ HandleDisconnect \/ UNCHANGED vars
    PROVE  TrackerInv'
<1>1. ASSUME NEW c \in Clients, Write(c) PROVE TrackerInv'
    <2>1. UNCHANGED <<up, attached, reqs, ready, n, aged>> /\ pend' = [pend EXCEPT ![c] = NoLine]
        BY <1>1 DEF Write
    <2>2. PendKnown'
        BY <2>1 DEF TrackerInv, PendKnown
    <2> QED BY <2>1, <2>2 DEF TrackerInv, Sound, T
<1>2. CASE TakeReady
    <2>1. UNCHANGED <<up, attached, reqs, pend, n, aged>> /\ ready' \subseteq ready
        BY <1>2 DEF TakeReady
    <2> QED BY <2>1 DEF TrackerInv, Sound, T, PendKnown
<1>3. CASE Chatter
    <2> DEFINE t == expireLocked(T)
    <2>1. /\ reqs' = t.reqs /\ ready' = t.ready
          /\ UNCHANGED <<up, attached, pend, n, aged>>
        BY <1>3 DEF Chatter
    <2>2. Sound(t, n, attached) /\ n \in Nat
        BY Swept DEF TrackerInv
    <2> HIDE DEF t
    <2>3. Sound(T, n, attached)'
        BY <2>1, <2>2, TAgain
    <2> QED BY <2>1, <2>3 DEF TrackerInv, PendKnown
<1>4. CASE Age
    <2>1. UNCHANGED <<up, attached, reqs, ready, pend, n>> /\ aged' \in aged + 1 .. n
        BY <1>4 DEF Age
    <2> QED BY <2>1, TrackerAssumption DEF TrackerInv, Sound, T, PendKnown, TrackerAssumption
<1>5. CASE HandleDisconnect
    <2>1. /\ attached' = {} /\ reqs' = {} /\ ready' = {} /\ pend' = [c \in Clients |-> NoLine]
          /\ UNCHANGED <<up, n, aged>>
        BY <1>5 DEF HandleDisconnect
    <2>2. Sound(T, n, attached)'
        BY <2>1 DEF Sound, T, Requests, NoneHeld, Heads, WaitedFor
    <2>3. PendKnown'
        BY <2>1 DEF PendKnown
    <2> QED BY <2>1, <2>2, <2>3 DEF TrackerInv
<1>6. CASE UNCHANGED vars
    BY <1>6 DEF vars, TrackerInv, Sound, T, PendKnown
<1> QED BY <1>1, <1>2, <1>3, <1>4, <1>5, <1>6

\* TrackerInv: what a tracker is at any time, between any two steps.
THEOREM TrackerInvariant == Spec => []TrackerInv
<1>1. Init => TrackerInv
    <2> SUFFICES ASSUME Init PROVE TrackerInv
        OBVIOUS
    <2>1. Sound(T, n, attached)
        BY DEF Init, Sound, T, Requests, NoneHeld, Heads, WaitedFor
    <2>2. PendKnown
        BY DEF Init, PendKnown
    <2> QED BY <2>1, <2>2, TrackerAssumption DEF Init, TrackerInv, TrackerAssumption
<1>2. TrackerInv /\ [Next]_vars => TrackerInv'
    <2> SUFFICES ASSUME TrackerInv, [Next]_vars PROVE TrackerInv'
        OBVIOUS
    <2>1. ASSUME NEW c \in Clients, NEW q \in Commands, Begin(c, q) PROVE TrackerInv'
        BY <2>1, BeginStep
    <2>2. ASSUME NEW i \in 1 .. Len(wire), Reply(i) PROVE TrackerInv'
        <3>1. \E m : RouteAll(m)
            BY <2>2 DEF Reply
        <3>2. UNCHANGED <<up, attached, pend, n, aged>>
            BY <2>2 DEF Reply
        <3> QED BY <3>1, <3>2, ReplyStep
    <2>3. ASSUME NEW c \in Clients, Detach(c) PROVE TrackerInv'
        BY <2>3, DetachStep
    <2>4. CASE \/ \E c \in Clients : Write(c)
               \/ TakeReady \/ Chatter \/ Age \/ HandleDisconnect \/ UNCHANGED vars
        BY <2>4, OtherStep
    <2> QED BY <2>1, <2>2, <2>3, <2>4 DEF Next
<1> QED BY <1>1, <1>2, PTL DEF Spec

\* Every pending request has somebody who waits for it, and nobody who has left
\* (Begin, DropClient and popWaiters keep the queues and the downlinks in step).
THEOREM TypeCorrect == Spec => []TypeOK
<1>1. TrackerInv => TypeOK
    BY DEF TrackerInv, PendKnown, Sound, Requests, WaitedFor, T, TypeOK
<1> QED BY <1>1, TrackerInvariant, PTL

\* A write is held only behind an exchange that is in flight, whether heads go by
\* an end numeric, by a client that leaves or by age (popWaiters,
\* expireQueue, dropQueueClient).
THEOREM WritesAreReleased == Spec => []NoHeldHead
<1>1. TrackerInv => NoHeldHead
    BY DEF TrackerInv, Sound, NoneHeld, T, NoHeldHead
<1> QED BY <1>1, TrackerInvariant, PTL
=============================================================================
