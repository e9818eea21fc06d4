----------------------------- MODULE MCListener -----------------------------
(* Small instances of Listener.                                            *)
EXTENDS Listener, TLC

\* Two connections differ in nothing but their name.
ConnSymmetry == Permutations(Conns)

\* One Hello of each kind that the code tells apart.
MCHellos ==
  {[mode |-> m, client |-> 2, min |-> 1, minKeeper |-> 1] : m \in {"live", "validate", "other"}}
    \union {[mode |-> "live", client |-> 1, min |-> 0, minKeeper |-> 0],
            [mode |-> "live", client |-> 4, min |-> 4, minKeeper |-> 1],
            [mode |-> "live", client |-> 3, min |-> 1, minKeeper |-> 2]}

\* The well-behaved brain only, for the runs about the slot.
LiveHello == {[mode |-> "live", client |-> 2, min |-> 1, minKeeper |-> 1]}

\* Every combination of version numbers around the keeper's own.
AllHellos ==
  MCHellos \union [mode : {"live"}, client : 0 .. 3, min : 0 .. 3, minKeeper : {1, 2}]
=============================================================================
