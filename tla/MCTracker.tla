----------------------------- MODULE MCTracker -----------------------------
(* What the clients of the Tracker runs ask. *)
EXTENDS Tracker, TLC

Ask(cmd, on, letters, remote) == [cmd |-> cmd, on |-> on, letters |-> letters, remote |-> remote]

MCCommands ==
    {Ask("LIST", "", {}, ""), Ask("ISON", "", {}, ""),
     Ask("TIME", "", {}, ""), Ask("TIME", "", {}, "srv"),
     Ask("WHO", "m", {}, ""), Ask("WHOX", "m", {"n"}, ""),
     Ask("WHOIS", "m", {}, ""), Ask("WHOIS", "m", {}, "srv"),
     Ask("STATS", "u", {}, ""), Ask("STATS", "u", {}, "srv"),
     Ask("NAMES", "c", {}, ""), Ask("MODE", "c", {}, ""), Ask("MODE", "c", {"b"}, "")}

\* For three requests.
FewCommands ==
    {Ask("LIST", "", {}, ""), Ask("TIME", "", {}, ""), Ask("TIME", "", {}, "srv"),
     Ask("STATS", "u", {}, ""), Ask("STATS", "u", {}, "srv")}

\* Without the history that no step reads.
View == <<up, attached, reqs, ready, sticky, pend, n, aged, asked, wire, mixed, late>>

Symmetry == Permutations(Clients)
=============================================================================
