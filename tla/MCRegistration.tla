--------------------------- MODULE MCRegistration ---------------------------
(* Registration for TLC.                                                   *)
EXTENDS Registration

Server(cap, split, caps, mechs) ==
  [cap |-> cap, split |-> split, caps |-> caps, mechs |-> mechs, nickLen |-> 2]

\* Without SASL: a nick and its alternative that the ircd folds together, two
\* that differ, a primary nick that is too long, no recovery; on an ircd
\* without capabilities.
MCNickNetworks ==
  {[cfg |-> [primary |-> n[1], alt |-> n[2], recovery |-> n[3], wanted |-> FALSE,
             required |-> FALSE, cred |-> "none", payload |-> 0],
    srv |-> Server(FALSE, FALSE, {}, {})] :
     n \in {<< <<"[">>, <<"{">>, TRUE >>, << <<"a", "b">>, <<"c">>, TRUE >>,
            << <<"a", "b", "c">>, <<>>, TRUE >>, << <<"a">>, <<"c">>, FALSE >>}}

\* With SASL: every kind of credential, required or not, payloads below, at and
\* above the size of a chunk; ircds without sasl, and with it but without naming
\* mechanisms, with only one we lack and with all of ours.
MCSASLNetworks ==
  {[cfg |-> [primary |-> <<"a">>, alt |-> <<>>, recovery |-> FALSE, wanted |-> TRUE,
             required |-> q, cred |-> c[1], payload |-> c[2]],
    srv |-> s] :
     q \in BOOLEAN,
     c \in {<<"password", 1>>, <<"password", 2>>, <<"password", 3>>, <<"cert", 0>>, <<"none", 0>>},
     s \in {Server(TRUE, FALSE, {}, {}), Server(TRUE, FALSE, {"other"}, {"PLAIN"}),
            Server(TRUE, TRUE, {"sasl", "other"}, {}), Server(TRUE, FALSE, {"sasl"}, {"OTHER"}),
            Server(TRUE, TRUE, {"sasl"}, {"SCRAM-SHA-256", "PLAIN", "EXTERNAL"})}}

MCNetworks == MCNickNetworks \union MCSASLNetworks
MCGuest == <<"z">>
=============================================================================
