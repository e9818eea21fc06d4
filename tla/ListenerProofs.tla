--------------------------- MODULE ListenerProofs ---------------------------
(***************************************************************************)
(* Proofs about Listener, for any number of connections, any Hellos and    *)
(* any protocol versions.                                                  *)
(***************************************************************************)
EXTENDS Listener, TLAPS

\* Past its Hello a handler has one, and past the HelloAck only a live attach
\* goes on.
Admitted == {"waitReady", "live", "closed", "freed", "wait", "return", "abort"}

HelloKnown ==
  \A c \in Conns :
    /\ h[c] \notin {"new", "gone"} => hello[c] \in Hellos
    /\ h[c] \in Admitted => hello[c].mode = "live"

\* The wait for a session's goroutines begins once no more are let in.
StoppedFirst == \A c \in Conns : h[c] \in {"wait", "return"} => stopped[c] = TRUE

ListenerInv == TypeOK /\ HelloKnown /\ StoppedFirst /\ SlotHeld

\* negotiateVersion answers 0 or a version the keeper speaks.
LEMMA VersionType ==
  ASSUME NEW v \in Nat, NEW m \in Nat
  PROVE  negotiateVersion(v, m) \in 0 .. KeeperMax
BY ListenerAssumption DEF negotiateVersion

\* A Hello is refused for one of the reasons the code knows, or not at all.
LEMMA RefusalType ==
  ASSUME NEW m
  PROVE  Refusal(m) \in Refusals \union {"none"}
BY DEF Refusal, Refusals

\* Every step of a connection keeps the types.
LEMMA TypeStep ==
  ASSUME ListenerInv, [Next]_vars
  PROVE  TypeOK'
<1> USE ListenerAssumption DEF sessVars
<1>0. TypeOK /\ HelloKnown
  BY DEF ListenerInv
<1>1. ASSUME NEW c \in Conns, ReadHello(c)  PROVE TypeOK'
  BY <1>0, <1>1, ZenonT(60) DEF TypeOK, ReadHello, HandlerPC
<1>2. ASSUME NEW c \in Conns, Refuse(c)  PROVE TypeOK'
  <2>1. Refusal(hello[c]) \in Refusals \union {"none", "ack"}
    BY RefusalType
  <2>2. answer' \in [Conns -> [why : Refusals \union {"none", "ack"}, version : 0 .. KeeperMax]]
    BY <1>0, <1>2, <2>1 DEF TypeOK, Refuse
  <2> QED
    BY <1>0, <1>2, <2>2 DEF TypeOK, Refuse, HandlerPC
<1>3. ASSUME NEW c \in Conns, Admit(c)  PROVE TypeOK'
  BY <1>0, <1>3 DEF TypeOK, Admit, HandlerPC
<1>4. ASSUME NEW c \in Conns, HelloAck(c)  PROVE TypeOK'
  <2>1. hello[c] \in HelloType
    BY <1>0, <1>4 DEF HelloKnown, HelloAck
  <2>2. negotiateVersion(hello[c].client, hello[c].min) \in 0 .. KeeperMax
    BY <2>1, VersionType DEF HelloType
  <2>3. answer' \in [Conns -> [why : Refusals \union {"none", "ack"}, version : 0 .. KeeperMax]]
    BY <1>0, <1>4, <2>2 DEF TypeOK, HelloAck
  <2>4. h' \in [Conns -> HandlerPC]
    BY <1>0, <1>4 DEF TypeOK, HelloAck, HandlerPC
  <2> QED
    BY <1>0, <1>4, <2>3, <2>4 DEF TypeOK, HelloAck
<1>5. ASSUME NEW c \in Conns, serveValidate(c)  PROVE TypeOK'
  BY <1>0, <1>5 DEF TypeOK, serveValidate, HandlerPC
<1>6. ASSUME NEW c \in Conns, LiveReady(c)  PROVE TypeOK'
  <2>1. h' \in [Conns -> HandlerPC]
    BY <1>0, <1>6 DEF TypeOK, LiveReady, HandlerPC
  <2>2. reader' \in [Conns -> ReaderPC] /\ work' \in [Conns -> 0 .. MaxWork]
    BY <1>0, <1>6, SMTT(30) DEF TypeOK, LiveReady, ReaderPC
  <2> QED
    BY <1>0, <1>6, <2>1, <2>2 DEF TypeOK, LiveReady
<1>7. ASSUME NEW c \in Conns, EndLive(c)  PROVE TypeOK'
  BY <1>0, <1>7 DEF TypeOK, EndLive, HandlerPC
<1>8. ASSUME NEW c \in Conns, FreeSlot(c)  PROVE TypeOK'
  BY <1>0, <1>8 DEF TypeOK, FreeSlot, HandlerPC
<1>9. ASSUME NEW c \in Conns, SetStopped(c)  PROVE TypeOK'
  BY <1>0, <1>9 DEF TypeOK, SetStopped, HandlerPC
<1>10. ASSUME NEW c \in Conns, WaitDone(c)  PROVE TypeOK'
  BY <1>0, <1>10 DEF TypeOK, WaitDone, HandlerPC
<1>11. ASSUME NEW c \in Conns, HandlerReturn(c)  PROVE TypeOK'
  BY <1>0, <1>11 DEF TypeOK, HandlerReturn, HandlerPC
<1>12. ASSUME NEW c \in Conns, ReaderFrame(c) \/ HandleInline(c) \/ ReaderEnd(c)  PROVE TypeOK'
  BY <1>0, <1>12 DEF TypeOK, ReaderFrame, HandleInline, ReaderEnd, ReaderPC
<1>13. ASSUME NEW c \in Conns, beginWork(c)  PROVE TypeOK'
  <2>1. reader' \in [Conns -> ReaderPC]
    BY <1>0, <1>13 DEF TypeOK, beginWork, ReaderPC
  <2>2. work' \in [Conns -> 0 .. MaxWork]
    BY <1>0, <1>13 DEF TypeOK, beginWork
  <2> QED
    BY <1>0, <1>13, <2>1, <2>2 DEF TypeOK, beginWork
<1>14. ASSUME NEW c \in Conns, startFanIn(c)  PROVE TypeOK'
  BY <1>0, <1>14 DEF TypeOK, startFanIn
<1>15. ASSUME NEW c \in Conns, WorkDone(c)  PROVE TypeOK'
  BY <1>0, <1>15 DEF TypeOK, WorkDone
<1>16. CASE UNCHANGED vars
  BY <1>0, <1>16 DEF TypeOK, vars
<1> QED
  BY <1>1, <1>2, <1>3, <1>4, <1>5, <1>6, <1>7, <1>8, <1>9, <1>10, <1>11, <1>12, <1>13,
     <1>14, <1>15, <1>16 DEF Next, HandlerStep, WorkStep

\* A handler moves its own place only, and its Hello only when it reads it.
LEMMA HandlerFrame ==
  ASSUME TypeOK, NEW c \in Conns, HandlerStep(c)
  PROVE  /\ \A d \in Conns \ {c} : h'[d] = h[d] /\ hello'[d] = hello[d] /\ stopped'[d] = stopped[d]
         /\ h[c] # "new" => hello'[c] = hello[c]
<1> USE DEF TypeOK, sessVars
<1>1. CASE ReadHello(c) \/ Refuse(c) \/ Admit(c) \/ HelloAck(c) \/ serveValidate(c)
  BY <1>1 DEF ReadHello, Refuse, Admit, HelloAck, serveValidate
<1>2. CASE LiveReady(c) \/ EndLive(c) \/ FreeSlot(c) \/ SetStopped(c) \/ WaitDone(c) \/ HandlerReturn(c)
  BY <1>2 DEF LiveReady, EndLive, FreeSlot, SetStopped, WaitDone, HandlerReturn
<1> QED
  BY <1>1, <1>2 DEF HandlerStep

\* A session's goroutines touch neither the handlers nor the slot.
LEMMA WorkFrame ==
  ASSUME NEW c \in Conns, WorkStep(c)
  PROVE  UNCHANGED <<liveAttached, h, hello, stopped>>
BY DEF WorkStep, ReaderFrame, HandleInline, beginWork, ReaderEnd, startFanIn, WorkDone

\* Every step keeps HelloKnown and StoppedFirst.
LEMMA HelloStep ==
  ASSUME ListenerInv, [Next]_vars
  PROVE  HelloKnown' /\ StoppedFirst'
<1>0. TypeOK /\ HelloKnown /\ StoppedFirst
  BY DEF ListenerInv
<1>1. ASSUME NEW c \in Conns, HandlerStep(c)
      PROVE  HelloKnown' /\ StoppedFirst'
  <2>1. /\ h'[c] \notin {"new", "gone"} => hello'[c] \in Hellos
        /\ h'[c] \in Admitted => hello'[c].mode = "live"
    <3>1. CASE ReadHello(c)
      BY <1>0, <3>1 DEF ReadHello, TypeOK, Admitted
    <3>2. CASE HelloAck(c)
      BY <1>0, <3>2 DEF HelloAck, TypeOK, HelloKnown, Admitted
    <3>3. CASE Refuse(c) \/ Admit(c) \/ serveValidate(c)
      BY <1>0, <3>3 DEF Refuse, Admit, serveValidate, TypeOK, HelloKnown, Admitted
    <3>4. CASE LiveReady(c) \/ EndLive(c) \/ FreeSlot(c) \/ SetStopped(c) \/ WaitDone(c) \/ HandlerReturn(c)
      BY <1>0, <3>4 DEF LiveReady, EndLive, FreeSlot, SetStopped, WaitDone, HandlerReturn,
                        TypeOK, HelloKnown, Admitted
    <3> QED
      BY <1>1, <3>1, <3>2, <3>3, <3>4 DEF HandlerStep
  <2>2. h'[c] \in {"wait", "return"} => stopped'[c] = TRUE
    <3>1. CASE SetStopped(c) \/ WaitDone(c)
      BY <1>0, <3>1 DEF SetStopped, WaitDone, TypeOK, StoppedFirst, sessVars
    <3>2. CASE ReadHello(c) \/ Refuse(c) \/ Admit(c) \/ HelloAck(c) \/ serveValidate(c)
      BY <1>0, <3>2 DEF ReadHello, Refuse, Admit, HelloAck, serveValidate, TypeOK
    <3>3. CASE LiveReady(c) \/ EndLive(c) \/ FreeSlot(c) \/ HandlerReturn(c)
      BY <1>0, <3>3 DEF LiveReady, EndLive, FreeSlot, HandlerReturn, TypeOK
    <3> QED
      BY <1>1, <3>1, <3>2, <3>3 DEF HandlerStep
  <2> QED
    BY <1>0, <1>1, <2>1, <2>2, HandlerFrame DEF HelloKnown, StoppedFirst
<1>2. CASE UNCHANGED <<liveAttached, h, hello, stopped>>
  BY <1>0, <1>2 DEF HelloKnown, StoppedFirst
<1> QED
  BY <1>1, <1>2, WorkFrame DEF Next, vars, sessVars

\* Every step keeps SlotHeld: whichever way a handler that holds the slot goes,
\* it holds it on or releases it.
LEMMA SlotStep ==
  ASSUME ListenerInv, [Next]_vars
  PROVE  SlotHeld'
<1>0. TypeOK /\ HelloKnown /\ SlotHeld
  BY DEF ListenerInv
<1>1. ASSUME NEW c \in Conns, HandlerStep(c)
      PROVE  SlotHeld'
  <2>1. CASE FreeSlot(c) \/ HandlerReturn(c)
    BY <2>1 DEF FreeSlot, HandlerReturn, SlotHeld
  <2>2. CASE Admit(c) /\ hello[c].mode = "live"
    <3>1. hello'[c].mode = "live" /\ h'[c] = "ack"
      BY <1>0, <2>2 DEF Admit, TypeOK
    <3> QED
      BY <3>1 DEF SlotHeld, Holding
  <2>3. CASE ~(FreeSlot(c) \/ HandlerReturn(c)) /\ ~(Admit(c) /\ hello[c].mode = "live")
    <3>1. liveAttached' = liveAttached
      BY <1>0, <1>1, <2>3 DEF TypeOK, HandlerStep, ReadHello, Refuse, Admit, HelloAck, serveValidate,
                         LiveReady, EndLive, SetStopped, WaitDone
    <3>2. hello[c].mode = "live" /\ h[c] \in Holding => hello'[c].mode = "live" /\ h'[c] \in Holding
      BY <1>0, <1>1, <2>3 DEF HandlerStep, ReadHello, Refuse, Admit, HelloAck, serveValidate,
                              LiveReady, EndLive, SetStopped, WaitDone, Holding, TypeOK
    <3> QED
      BY <1>0, <1>1, <3>1, <3>2, HandlerFrame DEF SlotHeld
  <2> QED
    BY <2>1, <2>2, <2>3
<1>2. CASE UNCHANGED <<liveAttached, h, hello, stopped>>
  BY <1>0, <1>2 DEF SlotHeld
<1> QED
  BY <1>1, <1>2, WorkFrame DEF Next, vars, sessVars

\* A listener that has accepted nothing satisfies the invariant.
LEMMA InitInv == Init => ListenerInv
<1> SUFFICES ASSUME Init PROVE ListenerInv
  OBVIOUS
<1>1. NoAnswer \in [why : Refusals \union {"none", "ack"}, version : 0 .. KeeperMax]
  BY ListenerAssumption DEF NoAnswer
<1>2. TypeOK
  <2>1. h \in [Conns -> HandlerPC] /\ reader \in [Conns -> ReaderPC]
    BY DEF Init, HandlerPC, ReaderPC
  <2>2. hello \in [Conns -> Hellos \union {NoHello}]
    BY DEF Init
  <2>3. answer \in [Conns -> [why : Refusals \union {"none", "ack"}, version : 0 .. KeeperMax]]
    BY <1>1 DEF Init
  <2>4. work \in [Conns -> 0 .. MaxWork] /\ stopped \in [Conns -> BOOLEAN]
    BY ListenerAssumption DEF Init
  <2> QED
    BY <2>1, <2>2, <2>3, <2>4 DEF Init, TypeOK
<1>3. HelloKnown /\ StoppedFirst /\ SlotHeld
  BY DEF Init, HelloKnown, StoppedFirst, SlotHeld, Admitted
<1> QED
  BY <1>2, <1>3 DEF ListenerInv

\* ListenerInv is inductive.
THEOREM ListenerInvariant == Spec => []ListenerInv
<1>1. ListenerInv /\ [Next]_vars => ListenerInv'
  BY TypeStep, HelloStep, SlotStep DEF ListenerInv
<1> QED
  BY <1>1, InitInv, PTL DEF Spec

\* The live slot is never leaked, for any number of connections and any mix of
\* refusals, failed writes, validate attaches and teardowns.
THEOREM SlotNeverLeaked == Spec => [](TypeOK /\ SlotHeld)
<1>1. ListenerInv => TypeOK /\ SlotHeld
  BY DEF ListenerInv
<1> QED
  BY <1>1, ListenerInvariant, PTL

\* No goroutine is added to a session whose teardown waits for them.
THEOREM WaitIsFinal == Spec => NoAddAfterWait
<1>1. ASSUME ListenerInv, [Next]_vars, NEW c \in Conns, h[c] \in {"wait", "return"}
      PROVE  work'[c] <= work[c]
  <2>0. TypeOK /\ stopped[c] = TRUE /\ work[c] \in Nat
    BY <1>1 DEF ListenerInv, StoppedFirst, TypeOK
  <2>1. ASSUME NEW d \in Conns, HandlerStep(d)  PROVE work'[c] <= work[c]
    BY <1>1, <2>0, <2>1 DEF HandlerStep, ReadHello, Refuse, Admit, HelloAck, serveValidate, LiveReady,
       EndLive, FreeSlot, SetStopped, WaitDone, HandlerReturn, sessVars, TypeOK
  <2>2. ASSUME NEW d \in Conns, WorkStep(d)  PROVE work'[c] <= work[c]
    <3>1. CASE d = c
      BY <2>0, <2>2, <3>1 DEF WorkStep, ReaderFrame, HandleInline, beginWork, ReaderEnd, startFanIn,
         WorkDone, TypeOK
    <3>2. CASE d # c
      BY <2>0, <2>2, <3>2 DEF WorkStep, ReaderFrame, HandleInline, beginWork, ReaderEnd, startFanIn,
         WorkDone, TypeOK
    <3> QED
      BY <3>1, <3>2
  <2>3. CASE UNCHANGED vars
    BY <2>0, <2>3 DEF vars, sessVars
  <2> QED
    BY <1>1, <2>1, <2>2, <2>3 DEF Next
<1>2. ListenerInv /\ [Next]_vars => [\A c \in Conns : h[c] \in {"wait", "return"} => work'[c] <= work[c]]_vars
  BY <1>1
<1> QED
  BY <1>2, ListenerInvariant, PTL DEF Spec, NoAddAfterWait

-----------------------------------------------------------------------------
(* One live session at a time.                                             *)

\* The connection has claimed the slot and has not come to its release.
Holds(c) == hello[c].mode = "live" /\ h[c] \in Holding

\* At most one connection has, and the slot is taken for it.
OneHolder ==
  /\ \A c, d \in Conns : Holds(c) /\ Holds(d) => c = d
  /\ \A c \in Conns : Holds(c) => liveAttached = TRUE

\* A handler whose session has freed the slot frees it once more as it returns, when
\* another connection has claimed it since.
LateRelease ==
  \E c \in Conns : /\ h[c] = "return" /\ h'[c] = "gone"
                   /\ \E d \in Conns \ {c} : Holds(d)

\* Every other step keeps the slot with the one that claimed it.
LEMMA HolderStep ==
  ASSUME ListenerInv, OneHolder, [Next]_vars, ~LateRelease
  PROVE  OneHolder'
<1>0. TypeOK /\ HelloKnown
  BY DEF ListenerInv
<1>1. ASSUME NEW c \in Conns, HandlerStep(c)
      PROVE  OneHolder'
  <2>0. \A d \in Conns \ {c} : (Holds(d)' <=> Holds(d)) /\ h'[d] = h[d]
    BY <1>0, <1>1, HandlerFrame DEF Holds
  <2>1. CASE Admit(c) /\ hello[c].mode = "live"
    <3>1. liveAttached = FALSE
      BY <1>0, <2>1 DEF Admit, Refusal, TypeOK
    <3>2. \A d \in Conns : ~Holds(d)
      BY <3>1 DEF OneHolder
    <3>3. liveAttached' = TRUE
      BY <2>1 DEF Admit
    <3> QED
      BY <2>0, <3>2, <3>3 DEF OneHolder
  <2>2. CASE FreeSlot(c) \/ HandlerReturn(c)
    <3>1. h'[c] \notin Holding
      BY <1>0, <2>2 DEF FreeSlot, HandlerReturn, TypeOK, Holding
    <3>2. \A d \in Conns \ {c} : ~Holds(d)
      <4>1. CASE h[c] = "return"
        <5>1. h'[c] = "gone"
          BY <1>0, <2>2, <4>1 DEF FreeSlot, HandlerReturn, TypeOK
        <5> QED
          BY <4>1, <5>1 DEF LateRelease
      <4>2. CASE h[c] # "return"
        <5>1. Holds(c)
          BY <1>0, <2>2, <4>2 DEF FreeSlot, HandlerReturn, Holds, HelloKnown, Admitted, Holding
        <5> QED
          BY <5>1 DEF OneHolder
      <4> QED
        BY <4>1, <4>2
    <3> QED
      BY <2>0, <3>1, <3>2 DEF OneHolder, Holds
  <2>3. CASE ~(FreeSlot(c) \/ HandlerReturn(c)) /\ ~(Admit(c) /\ hello[c].mode = "live")
    <3>1. liveAttached' = liveAttached
      BY <1>0, <1>1, <2>3 DEF TypeOK, HandlerStep, ReadHello, Refuse, Admit, HelloAck, serveValidate,
                         LiveReady, EndLive, SetStopped, WaitDone
    <3>2. Holds(c)' => Holds(c)
      <4>1. CASE ReadHello(c) \/ Refuse(c) \/ serveValidate(c)
        BY <1>0, <4>1 DEF ReadHello, Refuse, serveValidate, TypeOK, Holds, Holding
      <4>2. CASE Admit(c)
        BY <1>0, <2>3, <4>2 DEF Admit, TypeOK, Holds
      <4>3. CASE HelloAck(c) \/ LiveReady(c) \/ EndLive(c) \/ SetStopped(c) \/ WaitDone(c)
        BY <1>0, <4>3 DEF HelloAck, LiveReady, EndLive, SetStopped, WaitDone, TypeOK, Holds, Holding
      <4> QED
        BY <1>1, <2>3, <4>1, <4>2, <4>3 DEF HandlerStep
    <3> QED
      BY <2>0, <3>1, <3>2 DEF OneHolder
  <2> QED
    BY <2>1, <2>2, <2>3
<1>2. CASE UNCHANGED <<liveAttached, h, hello, stopped>>
  BY <1>2 DEF OneHolder, Holds
<1> QED
  BY <1>1, <1>2, WorkFrame DEF Next, vars, sessVars

\* Two sessions are live at once only by one route, the second release of the slot in
\* handleConn's deferred call: as long as none takes the slot from a connection that
\* has claimed it since, there is one session, although attaches overlap sessions that
\* wind down and whichever error path a handler takes.
THEOREM OneLiveButForLateRelease == Spec /\ [][~LateRelease]_vars => []AtMostOneLive
<1>1. Init => OneHolder
  BY DEF Init, OneHolder, Holds, Holding
<1>2. ListenerInv /\ OneHolder /\ [Next]_vars /\ [~LateRelease]_vars => OneHolder'
  <2> SUFFICES ASSUME ListenerInv, OneHolder, [Next]_vars, [~LateRelease]_vars PROVE OneHolder'
    OBVIOUS
  <2>1. CASE ~LateRelease
    BY <2>1, HolderStep
  <2>2. CASE UNCHANGED vars
    BY <2>2 DEF vars, OneHolder, Holds
  <2> QED
    BY <2>1, <2>2
<1>3. ListenerInv /\ OneHolder => AtMostOneLive
  BY DEF ListenerInv, HelloKnown, OneHolder, Holds, AtMostOneLive, Admitted, Holding
<1> QED
  BY <1>1, <1>2, <1>3, ListenerInvariant, PTL DEF Spec

-----------------------------------------------------------------------------
(* The answers.                                                            *)

\* negotiateVersion finds the highest version in common, or that there is none.
LEMMA NegotiateExact ==
  ASSUME NEW v \in Nat, NEW m \in Nat
  PROVE  LET common == {x \in KeeperMin .. KeeperMax : x <= v /\ x >= m}
             n      == negotiateVersion(v, m)
         IN /\ n = 0 <=> common = {}
            /\ n # 0 => n \in common /\ \A x \in common : x <= n
<1> DEFINE common == {x \in KeeperMin .. KeeperMax : x <= v /\ x >= m}
           top    == IF v > KeeperMax THEN KeeperMax ELSE v
           n      == negotiateVersion(v, m)
<1> USE ListenerAssumption
<1>1. top \in Nat /\ top <= v /\ top <= KeeperMax /\ \A x \in common : x <= top
  OBVIOUS
<1>2. CASE top < KeeperMin \/ top < m
  <2>1. n = 0
    BY <1>2 DEF negotiateVersion
  <2>2. common = {}
    BY <1>1, <1>2
  <2> QED
    BY <2>1, <2>2
<1>3. CASE ~(top < KeeperMin \/ top < m)
  <2>1. n = top /\ n # 0
    BY <1>1, <1>3 DEF negotiateVersion
  <2>2. top \in common
    BY <1>1, <1>3
  <2>3. n \in common /\ \A x \in common : x <= n
    BY <1>1, <2>1, <2>2
  <2>4. common # {}
    BY <2>2
  <2> QED
    BY <2>1, <2>3, <2>4
<1> QED
  BY <1>2, <1>3

\* A handler answers once, and only a Hello that passed the checks is acked.
AnswerPending ==
  \A c \in Conns :
    /\ h[c] \in {"new", "check", "ack"} => answer[c].why = "none"
    /\ h[c] = "ack" => negotiateVersion(hello[c].client, hello[c].min) # 0

\* AnswerSound for one connection.
Sound(c) ==
  answer[c].why # "none" =>
    LET m      == hello[c]
        common == {v \in KeeperMin .. KeeperMax : v <= m.client /\ v >= m.min}
    IN /\ answer[c].why = "version" <=> common = {}
       /\ answer[c].why = "ack" =>
            /\ answer[c].version \in common
            /\ \A v \in common : v <= answer[c].version
       /\ answer[c].why = "busy" => m.minKeeper <= KeeperGeneration

\* Every step keeps the answers sound: only Refuse and HelloAck answer, from the
\* Hello that the connection sent.
LEMMA AnswerStep ==
  ASSUME ListenerInv, AnswerPending, AnswerSound, [Next]_vars
  PROVE  AnswerPending' /\ AnswerSound'
<1>0. TypeOK /\ HelloKnown
  BY DEF ListenerInv
<1>1. CASE UNCHANGED <<h, hello, answer>>
  BY <1>1 DEF AnswerPending, AnswerSound
<1>2. ASSUME NEW c \in Conns, HandlerStep(c)
      PROVE  AnswerPending' /\ AnswerSound'
  <2>1. \A d \in Conns \ {c} : h'[d] = h[d] /\ hello'[d] = hello[d] /\ answer'[d] = answer[d]
    <3>1. \A d \in Conns \ {c} : answer'[d] = answer[d]
      BY <1>0, <1>2 DEF HandlerStep, ReadHello, Refuse, Admit, HelloAck, serveValidate, LiveReady,
         EndLive, FreeSlot, SetStopped, WaitDone, HandlerReturn, TypeOK
    <3> QED
      BY <1>0, <1>2, <3>1, HandlerFrame
  <2>2. Sound(c)
    BY DEF AnswerSound, Sound
  <2>3. ASSUME Sound(c)',
               h'[c] \in {"new", "check", "ack"} => answer'[c].why = "none",
               h'[c] = "ack" => negotiateVersion(hello'[c].client, hello'[c].min) # 0
        PROVE  AnswerPending' /\ AnswerSound'
    <3>1. AnswerPending'
      BY <2>1, <2>3 DEF AnswerPending
    <3>2. \A d \in Conns \ {c} : Sound(d)'
      BY <2>1 DEF AnswerSound, Sound
    <3>3. \A d \in Conns : Sound(d)'
      BY <2>3, <3>2
    <3> QED
      BY <3>1, <3>3 DEF AnswerSound, Sound
  <2>4. CASE ReadHello(c)
    <3>1. answer' = answer /\ answer[c].why = "none" /\ h'[c] # "ack"
      BY <1>0, <2>4 DEF ReadHello, AnswerPending, TypeOK
    <3> QED
      BY <2>3, <3>1 DEF Sound
  <2>5. CASE Refuse(c)
    <3> DEFINE m == hello[c]
    <3>1. m \in Hellos /\ m \in HelloType /\ hello' = hello /\ h'[c] = "gone"
      BY <1>0, <2>5, ListenerAssumption DEF Refuse, HelloKnown, TypeOK
    <3>2. answer'[c].why = Refusal(m)
      BY <1>0, <2>5 DEF Refuse, TypeOK
    <3>3. /\ Refusal(m) = "version" <=> negotiateVersion(m.client, m.min) = 0
          /\ Refusal(m) # "ack"
          /\ Refusal(m) = "busy" => ~(m.minKeeper > KeeperGeneration)
      BY DEF Refusal
    <3>4. m.client \in Nat /\ m.min \in Nat /\ m.minKeeper \in Nat /\ KeeperGeneration \in Nat
      BY <3>1, ListenerAssumption DEF HelloType
    <3>5. Refusal(m) = "busy" => m.minKeeper <= KeeperGeneration
      BY <3>3, <3>4
    <3>6. negotiateVersion(m.client, m.min) = 0
            <=> {v \in KeeperMin .. KeeperMax : v <= m.client /\ v >= m.min} = {}
      BY <3>4, NegotiateExact
    <3>7. Sound(c)'
      BY <3>1, <3>2, <3>3, <3>5, <3>6 DEF Sound
    <3> QED
      BY <2>3, <3>1, <3>7
  <2>6. CASE Admit(c)
    <3>1. UNCHANGED <<hello, answer>> /\ h[c] = "check" /\ h'[c] = "ack"
      BY <1>0, <2>6 DEF Admit, TypeOK
    <3>2. negotiateVersion(hello[c].client, hello[c].min) # 0
      BY <2>6 DEF Admit, Refusal
    <3> QED
      BY <2>2, <2>3, <3>1, <3>2 DEF Sound, AnswerPending
  <2>7. CASE HelloAck(c)
    <3> DEFINE m == hello[c]
               n == negotiateVersion(m.client, m.min)
               common == {v \in KeeperMin .. KeeperMax : v <= m.client /\ v >= m.min}
    <3>1. /\ hello' = hello /\ h'[c] \notin {"new", "check", "ack"} /\ n # 0
          /\ answer'[c] = answer[c] \/ answer'[c] = [why |-> "ack", version |-> n]
      BY <1>0, <2>7 DEF HelloAck, TypeOK, AnswerPending
    <3>2. m.client \in Nat /\ m.min \in Nat
      BY <1>0, <2>7, ListenerAssumption DEF HelloAck, HelloKnown, HelloType
    <3>3. n \in common /\ common # {} /\ \A v \in common : v <= n
      BY <3>1, <3>2, NegotiateExact
    <3>4. CASE answer'[c] = answer[c]
      BY <2>2, <2>3, <3>1, <3>4 DEF Sound
    <3>5. CASE answer'[c] = [why |-> "ack", version |-> n]
      <4>1. answer'[c].why = "ack" /\ answer'[c].version = n
        BY <3>5
      <4>2. Sound(c)'
        BY <3>1, <3>3, <4>1 DEF Sound
      <4> QED
        BY <2>3, <3>1, <4>2
    <3> QED
      BY <3>1, <3>4, <3>5
  <2>8. CASE \/ serveValidate(c) \/ LiveReady(c) \/ EndLive(c) \/ FreeSlot(c) \/ SetStopped(c)
             \/ WaitDone(c) \/ HandlerReturn(c)
    <3>1. UNCHANGED <<hello, answer>> /\ h'[c] \notin {"new", "check", "ack"}
      BY <1>0, <2>8 DEF serveValidate, LiveReady, EndLive, FreeSlot, SetStopped, WaitDone,
         HandlerReturn, TypeOK
    <3> QED
      BY <2>2, <2>3, <3>1 DEF Sound
  <2> QED
    BY <1>2, <2>4, <2>5, <2>6, <2>7, <2>8 DEF HandlerStep
<1>3. ASSUME NEW c \in Conns, WorkStep(c)  PROVE UNCHANGED <<h, hello, answer>>
  BY <1>3 DEF WorkStep, ReaderFrame, HandleInline, beginWork, ReaderEnd, startFanIn, WorkDone
<1> QED
  BY <1>1, <1>2, <1>3 DEF Next, vars

\* Every Hello gets the right answer, for any range of protocol versions on
\* either side and whatever else is attached.
THEOREM AnswersSound == Spec => []AnswerSound
<1>1. Init => AnswerPending /\ AnswerSound
  BY DEF Init, AnswerPending, AnswerSound, NoAnswer
<1>2. ListenerInv /\ AnswerPending /\ AnswerSound /\ [Next]_vars => (AnswerPending /\ AnswerSound)'
  BY AnswerStep
<1> QED
  BY <1>1, <1>2, ListenerInvariant, PTL DEF Spec
=============================================================================
