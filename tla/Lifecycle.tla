---------------------------- MODULE Lifecycle ----------------------------
(* The processes and what they leave in the file system: brains (gobnc       *)
(* serve), keepers, the operator's command line, and the paths they race     *)
(* for: the pid files, the control socket, the keeper's socket, its spawn    *)
(* lock and the TLS port.  A brain is started by the operator or, for a      *)
(* reload, by the brain it replaces, which lets go of the keeper when the    *)
(* replacement has called in.                                                *)
(*                                                                           *)
(* fault names the one thing beyond the usual that a behaviour may contain:  *)
(*   overtake  a replacement gets to the control socket, the port or the end *)
(*             of its predecessor before the predecessor has let go of them; *)
(*   slow      waits that end in the timeout of who waits;                   *)
(*   dies      a replacement is killed after it has called in;               *)
(*   stale     a reload while the replacement of one that timed out is alive;*)
(*   both      a command during a reload or a boot, or while a keeper quits; *)
(*   double    a foreground start while a brain is running;                  *)
(*   orphan    a brain ends before the keeper it spawned has its pid file.   *)
EXTENDS Integers, FiniteSets

CONSTANTS Brains, Keepers, NONE,
          MaxOps,        \* commands of the operator
          MaxCrash,      \* brains killed
          Faults         \* values of fault to consider

ASSUME LifecycleAssumption == NONE \notin Brains \cup Keepers

VARIABLES fault,
          pc,        \* where each brain is in runServe
          done,      \* brains whose context is cancelled
          kind,      \* [Brains -> shutdownKind]
          att,       \* [Brains -> the keeper it is attached to]
          awaits,    \* [Brains -> the keeper it waits for the end of]
          open,      \* brains whose control listener accepts
          hand,      \* [Brains -> where runReloadHandoff is]
          child,     \* [Brains -> the replacement it spawned]
          gen,       \* [Brains -> number of its current reloadHandoff]
          ready,     \* brains whose current handoff has been called in
          asks,      \* [Brains -> the handoff a replacement waits on]
          kst,       \* [Keepers -> state]
          live,      \* [Keepers -> the brain in its live slot]
          held,      \* keepers that hold uplinks
          pid, kpid, ctl, ksock, port, flock,   \* who each path names
          cli,       \* the operator's command in progress
          want,      \* what the operator asked for last
          ops, crashes

procs == <<pc, done, kind, att, open, awaits>>
handoff == <<hand, child, gen, ready, asks>>
keepers == <<kst, live, held>>
files == <<pid, kpid, ctl, ksock, port, flock>>
operator == <<cli, want, ops, crashes>>
vars == <<fault, procs, handoff, keepers, files, operator>>

Alive(b) == IF b = NONE THEN FALSE ELSE pc[b] \notin {"off", "gone"}
KAlive(k) == IF k = NONE THEN FALSE ELSE kst[k] \notin {"off", "gone"}
\* One process that has not been yet is as good as another.
Fresh(b) == pc[b] = "off" /\ b = CHOOSE a \in Brains : pc[a] = "off"
FreshKeeper(k) == kst[k] = "off" /\ k = CHOOSE j \in Keepers : kst[j] = "off"
Idle == [then |-> "idle", at |-> "idle", of |-> NONE]
NoAsk == [to |-> NONE, gen |-> 0]

\* Whether a command sent to the control socket's path is served, and by whom.
Reachable(b) == ctl = b /\ b \in open

Go(b, to) == pc' = [pc EXCEPT ![b] = to]

\* The end of process b: its sockets, its attach and its lock go, the paths stay.
Ended(b) ==
    /\ Go(b, "gone")
    /\ att' = [att EXCEPT ![b] = NONE]
    /\ open' = open \ {b}
    /\ port' = IF port = b THEN NONE ELSE port
    /\ flock' = IF flock = b THEN NONE ELSE flock
    /\ hand' = [hand EXCEPT ![b] = "none"]

\* os.Exit(1) after an error of Run: no deferred call, no pid file removed.
Fail(b) ==
    /\ Ended(b)
    /\ UNCHANGED <<fault, awaits, done, kind, child, gen, ready, asks, keepers, pid, kpid, ctl, ksock, operator>>

\* RemovePidFile: only if the file names us.
PidAfter(b) == IF pid = b THEN NONE ELSE pid

----------------------------------------------------------------------------
(* Keepers (external to the brain; their code is in Keeper and Listener).    *)

\* attachOnce succeeds.
CanAttach(k) == ksock = k /\ kst[k] \in {"up", "quit"} /\ live[k] = NONE

Attached(b, k) ==
    /\ CanAttach(k)
    /\ att' = [att EXCEPT ![b] = k]
    /\ live' = [live EXCEPT ![k] = b]

KeeperPid(k) ==
    /\ kst[k] = "spawned"
    /\ kst' = [kst EXCEPT ![k] = "pidded"]
    /\ kpid' = k
    /\ UNCHANGED <<fault, procs, handoff, live, held, pid, ctl, ksock, port, flock, operator>>

\* Listener.Serve removes whatever is at the path first.
KeeperServe(k) ==
    /\ kst[k] = "pidded"
    /\ kst' = [kst EXCEPT ![k] = "up"]
    /\ ksock' = k
    /\ UNCHANGED <<fault, procs, handoff, live, held, pid, kpid, ctl, port, flock, operator>>

\* A closed attach leaves the live slot when serveLive has wound down.
KeeperFree(k) ==
    /\ live[k] # NONE /\ att[live[k]] # k
    /\ live' = [live EXCEPT ![k] = NONE]
    /\ UNCHANGED <<fault, procs, handoff, kst, held, files, operator>>

\* After QuitCloseAll: the socket goes, and every attach with it.
KeeperClose(k) ==
    /\ kst[k] = "quit"
    /\ kst' = [kst EXCEPT ![k] = "closed"]
    /\ ksock' = NONE
    /\ held' = held \ {k}
    /\ att' = [b \in Brains |-> IF att[b] = k THEN NONE ELSE att[b]]
    /\ UNCHANGED <<fault, awaits, pc, done, kind, open, handoff, live, pid, kpid, ctl, port, flock, operator>>

KeeperExit(k) ==
    /\ kst[k] = "closed"
    /\ kst' = [kst EXCEPT ![k] = "gone"]
    /\ live' = [live EXCEPT ![k] = NONE]
    /\ kpid' = IF kpid = k THEN NONE ELSE kpid
    /\ UNCHANGED <<fault, procs, handoff, held, pid, ctl, ksock, port, flock, operator>>

Keeper(k) == KeeperPid(k) \/ KeeperServe(k) \/ KeeperFree(k) \/ KeeperClose(k) \/ KeeperExit(k)

\* SIGTERM to the keeper its pid file names.
TermKeeper == kst' = [k \in Keepers |-> IF k = kpid /\ kst[k] \in {"pidded", "up"} THEN "quit" ELSE kst[k]]

----------------------------------------------------------------------------
(* Boot: keeperboot, then the two listeners. *)

Booted(b) == Go(b, "booted") /\ flock' = IF flock = b THEN NONE ELSE flock

\* EnsureRunning.  With the context cancelled every wait ends, and so does runServe.
EnsureRunning(b) ==
    /\ pc[b] \in {"attach", "retry"}
    /\ b \notin done
    /\ \/ \E k \in Keepers : Attached(b, k) /\ Booted(b)
       \/ /\ \A k \in Keepers : ~CanAttach(k)
          /\ Go(b, IF pc[b] = "attach" THEN "lock" ELSE "check")
          /\ UNCHANGED <<att, live, flock>>
    /\ UNCHANGED <<fault, awaits, done, kind, open, handoff, kst, held, pid, kpid, ctl, ksock, port, operator>>

acquireLock(b) ==
    /\ pc[b] = "lock" /\ b \notin done
    /\ flock = NONE
    /\ flock' = b
    /\ Go(b, "retry")
    /\ UNCHANGED <<fault, awaits, done, kind, att, open, handoff, keepers, pid, kpid, ctl, ksock, port, operator>>

LockTimeout(b) ==
    /\ pc[b] = "lock" /\ flock # NONE /\ fault = "double"
    /\ Fail(b)

\* Mutant of MayHaveKeeper: the pid file is not looked at.
PidFileIgnored == FALSE

MayHaveKeeper == KAlive(kpid)

\* Refuse to spawn a second keeper, which ends this brain, or spawn one.
SpawnKeeper(b) ==
    /\ pc[b] = "check" /\ b \notin done
    /\ \/ /\ MayHaveKeeper
          /\ Ended(b)
          /\ want' = "refused"
          /\ UNCHANGED <<fault, awaits, done, kind, child, gen, ready, asks, keepers, pid, kpid, ctl, ksock, cli, ops, crashes>>
       \/ /\ ~MayHaveKeeper
          /\ \E k \in Keepers : FreshKeeper(k) /\ kst' = [kst EXCEPT ![k] = "spawned"]
          /\ Go(b, "wait")
          /\ UNCHANGED <<fault, awaits, done, kind, att, open, handoff, live, held, files, operator>>

\* attachWithRetry, for a spawned keeper and after a handoff.
attachWithRetry(b) ==
    /\ pc[b] \in {"wait", "take"} /\ b \notin done
    /\ \E k \in Keepers : Attached(b, k)
    /\ Booted(b)
    /\ UNCHANGED <<fault, awaits, done, kind, open, handoff, kst, held, pid, kpid, ctl, ksock, port, operator>>

\* No keeper to attach to is there or on its way, or its slot is taken for good.
Hopeless ==
    /\ \A k \in Keepers : kst[k] \notin {"spawned", "pidded"}
    /\ \A k \in Keepers : ksock = k /\ kst[k] = "up" => live[k] # NONE /\ att[live[k]] = k

AttachTimeout(b) ==
    /\ pc[b] \in {"wait", "take"} /\ b \notin done
    /\ fault = "slow" \/ Hopeless
    /\ Fail(b)

Spawning == \E k \in Keepers : kst[k] = "spawned"

\* A cancelled context ends the boot, and runServe returns normally.
BootCancelled(b) ==
    /\ pc[b] \in {"attach", "lock", "retry", "check", "wait", "take"} /\ b \in done
    /\ fault = "orphan" \/ pc[b] # "wait" \/ ~Spawning
    /\ Go(b, "exiting")
    /\ flock' = IF flock = b THEN NONE ELSE flock
    /\ UNCHANGED <<fault, awaits, done, kind, att, open, handoff, keepers, pid, kpid, ctl, ksock, port, operator>>

\* Whether another brain is still in the way, which only the faults allow.
Ahead(b) == \E a \in Brains \ {b} : a \in open \/ port = a

\* Networks registered, LiveReady sent, networks dialled; then serveControl.
serveControl(b) ==
    /\ pc[b] = "booted"
    /\ fault \in {"overtake", "double"} \/ ~Ahead(b)
    /\ Go(b, "control")
    /\ ctl' = b
    /\ open' = open \cup {b}
    /\ held' = held \cup ({att[b]} \ {NONE})
    /\ UNCHANGED <<fault, awaits, done, kind, att, handoff, kst, live, pid, kpid, ksock, port, flock, operator>>

ListenTLS(b) ==
    /\ pc[b] = "control"
    /\ \/ /\ port = NONE
          /\ port' = b
          /\ Go(b, "serving")
          /\ UNCHANGED <<fault, awaits, done, kind, att, open, handoff, keepers, pid, kpid, ctl, ksock, flock, operator>>
       \/ /\ port # NONE
          /\ ctl' \in {ctl, NONE}
          /\ pid' \in IF b \in done THEN {pid, PidAfter(b)} ELSE {pid}
          /\ Ended(b)
          /\ UNCHANGED <<fault, awaits, done, kind, child, gen, ready, asks, keepers, kpid, ksock, operator>>

----------------------------------------------------------------------------
(* The end of a brain whose context is cancelled. *)

\* The goroutine of serveControl: it closes its listener and removes the path,
\* whoever's socket is there.
CloseControl(b) ==
    /\ b \in done /\ b \in open /\ pc[b] \in {"control", "serving", "left", "await", "exiting"}
    /\ open' = open \ {b}
    /\ ctl' = NONE
    /\ UNCHANGED <<fault, awaits, pc, done, kind, att, handoff, keepers, pid, kpid, ksock, port, flock, operator>>

ClosePort(b) ==
    /\ b \in done /\ port = b
    /\ port' = NONE
    /\ UNCHANGED <<fault, procs, handoff, keepers, pid, kpid, ctl, ksock, flock, operator>>

detachFromKeeper(b) ==
    /\ pc[b] = "serving" /\ b \in done
    /\ Go(b, "left")
    /\ att' = [att EXCEPT ![b] = NONE]
    /\ UNCHANGED <<fault, awaits, done, kind, open, handoff, keepers, files, operator>>

\* Mutant of AfterRun: whatever ends the brain ends the keeper.
EndsKeeperToo(b) ==
    /\ pc[b] = "left"
    /\ TermKeeper
    /\ awaits' = [awaits EXCEPT ![b] = kpid]
    /\ Go(b, "await")
    /\ UNCHANGED <<fault, done, kind, att, open, handoff, live, held, files, operator>>

\* runServe after Run: a die stops the keeper and waits for it.
AfterRun(b) ==
    /\ pc[b] = "left"
    /\ \/ /\ kind[b] = "die"
          /\ TermKeeper
          /\ awaits' = [awaits EXCEPT ![b] = kpid]
          /\ Go(b, "await")
       \/ kind[b] # "die" /\ Go(b, "exiting") /\ UNCHANGED <<kst, awaits>>
    /\ UNCHANGED <<fault, done, kind, att, open, handoff, live, held, files, operator>>

\* daemon.Stop of keeper k has waited for it to be gone, and removes the pid
\* file whoever it names by now; or it has given up.
Stopped(k) ==
    \/ ~KAlive(k) /\ kpid' = IF k = NONE THEN kpid ELSE NONE
    \/ KAlive(k) /\ fault = "slow" /\ UNCHANGED kpid

KeeperStopped(b) ==
    /\ pc[b] = "await"
    /\ Stopped(awaits[b])
    /\ Go(b, "exiting")
    /\ UNCHANGED <<fault, done, kind, att, open, awaits, handoff, keepers, pid, ctl, ksock, port, flock, operator>>

\* Nothing waits for the handler that still has to pass the OK on.
Unfinished(b) == hand[b] \in {"relay", "cancelled"} /\ \E c \in Brains : pc[c] = "asked" /\ asks[c].to = b

Exit(b) ==
    /\ pc[b] = "exiting"
    /\ fault = "overtake" \/ ~Unfinished(b)
    /\ Ended(b)
    /\ pid' = PidAfter(b)
    /\ UNCHANGED <<fault, awaits, done, kind, child, gen, ready, asks, keepers, kpid, ctl, ksock, operator>>

----------------------------------------------------------------------------
(* Reload: runReloadHandoff in the old brain, its control handler, and       *)
(* confirmReloadHandoff in the replacement.                                  *)

\* Also by BNC RELOAD from a client.  One reload at a time.
runReloadHandoff(b) ==
    /\ pc[b] = "serving" /\ b \notin done
    /\ hand[b] = "none"
    /\ ops < MaxOps /\ ops' = ops + 1
    /\ fault = "stale" \/ \A c \in Brains : Alive(c) => c = b
    /\ \E c \in Brains :
         /\ Fresh(c)
         /\ Go(c, "probe")
         /\ child' = [child EXCEPT ![b] = c]
    /\ hand' = [hand EXCEPT ![b] = "wait"]
    /\ gen' = [gen EXCEPT ![b] = @ + 1]
    /\ ready' = ready \ {b}
    /\ UNCHANGED <<fault, awaits, done, kind, att, open, asks, keepers, files, cli, want, crashes>>

\* Mutant of MayLetGo: spawned is taken for ready.
LetsGoAtOnce(b) == TRUE

MayLetGo(b) == b \in ready

ReplacementReady(b) ==
    /\ hand[b] = "wait"
    /\ MayLetGo(b)
    /\ hand' = [hand EXCEPT ![b] = "ready"]
    /\ UNCHANGED <<fault, procs, child, gen, ready, asks, keepers, files, operator>>

\* The replacement exited first.
ReplacementExited(b) ==
    /\ hand[b] = "wait"
    /\ ~Alive(child[b])
    /\ hand' = [hand EXCEPT ![b] = "none"]
    /\ UNCHANGED <<fault, procs, child, gen, ready, asks, keepers, files, operator>>

\* The time is up: the replacement gets a SIGTERM.  The select may take this branch
\* even if it has just called in.
HandoffTimeout(b) ==
    /\ hand[b] = "wait"
    /\ hand' = [hand EXCEPT ![b] = "none"]
    /\ done' = done \cup {child[b]}
    /\ UNCHANGED <<fault, awaits, pc, kind, att, open, child, gen, ready, asks, keepers, files, operator>>

HandoffDetach(b) ==
    /\ hand[b] = "ready"
    /\ hand' = [hand EXCEPT ![b] = "relay"]
    /\ att' = [att EXCEPT ![b] = NONE]
    /\ UNCHANGED <<fault, awaits, pc, done, kind, open, child, gen, ready, asks, keepers, files, operator>>

\* The control handler that gets the one reply passes it on.
Relay(b, c) ==
    /\ hand[b] \in {"relay", "cancelled"}
    /\ pc[c] = "asked" /\ asks[c] = [to |-> b, gen |-> gen[b]]
    /\ Go(c, "told")
    /\ hand' = [hand EXCEPT ![b] = IF @ = "relay" THEN "relayed" ELSE "none"]
    /\ UNCHANGED <<fault, awaits, done, kind, att, open, child, gen, ready, asks, keepers, files, operator>>

\* shutdownKind and cancel, whether or not the reply has been passed on.
HandoffCancel(b) ==
    /\ hand[b] \in {"relay", "relayed"}
    /\ hand' = [hand EXCEPT ![b] = IF @ = "relay" THEN "cancelled" ELSE "none"]
    /\ kind' = [kind EXCEPT ![b] = "reload"]
    /\ done' = done \cup {b}
    /\ UNCHANGED <<fault, awaits, pc, att, open, child, gen, ready, asks, keepers, files, operator>>

\* A replacement probes the keeper, in validate mode.
Probe(c) ==
    /\ pc[c] = "probe"
    /\ \/ c \notin done /\ (\E k \in Keepers : ksock = k /\ kst[k] \in {"up", "quit"}) /\ Go(c, "ask")
       \/ (c \in done \/ \A k \in Keepers : ksock # k \/ kst[k] \notin {"up", "quit"}) /\ Go(c, "gone")
    /\ UNCHANGED <<fault, awaits, done, kind, att, open, handoff, keepers, files, operator>>

\* handleReloadHandoff, in whichever brain serves the socket's path now.
RequestHandoff(c) ==
    /\ pc[c] = "ask"
    /\ \/ \E b \in Brains :
            /\ Reachable(b) /\ hand[b] \in {"wait", "ready"}
            /\ asks' = [asks EXCEPT ![c] = [to |-> b, gen |-> gen[b]]]
            /\ ready' = ready \cup {b}
            /\ Go(c, "asked")
       \/ /\ \A b \in Brains : ~Reachable(b) \/ hand[b] \notin {"wait", "ready"}
          /\ Go(c, "gone")
          /\ UNCHANGED <<asks, ready>>
    /\ UNCHANGED <<fault, awaits, done, kind, att, open, hand, child, gen, keepers, files, operator>>

\* Mutant of HandoffRefused: the replacement waits for its predecessor for good.
WaitsForGood(c) == FALSE

\* No reply: the predecessor is gone, or has given up on that handoff.
HandoffRefused(c) ==
    /\ pc[c] = "asked"
    /\ \/ ~Alive(asks[c].to)
       \/ gen[asks[c].to] # asks[c].gen
       \/ hand[asks[c].to] = "none"
       \/ fault = "slow"
    /\ Go(c, "gone")
    /\ UNCHANGED <<fault, awaits, done, kind, att, open, handoff, keepers, files, operator>>

\* The replacement takes the pid file, and goes on to attach.
TakeOver(c) ==
    /\ pc[c] = "told"
    /\ Go(c, "take")
    /\ pid' = c
    /\ UNCHANGED <<fault, awaits, done, kind, att, open, handoff, keepers, kpid, ctl, ksock, port, flock, operator>>

----------------------------------------------------------------------------
(* The operator. *)

Changing ==
    \/ \E b \in Brains : Alive(b) /\ (pc[b] # "serving" \/ b \in done)
    \/ \E k \in Keepers : kst[k] \in {"spawned", "pidded"}
Quitting == \E k \in Keepers : kst[k] \in {"quit", "closed"}

\* gobnc serve, which checks the pid file before it daemonizes; a foreground
\* start does not.  The pid file is written by the parent or by runServe.
Started(b) ==
    /\ Fresh(b)
    /\ Go(b, "attach")
    /\ pid' = b
    /\ want' = "up"

Start(b) ==
    /\ cli = Idle
    /\ ops < MaxOps /\ ops' = ops + 1
    /\ fault = "double" \/ ~Alive(pid)
    /\ fault \in {"both", "double"} \/ ~(Quitting \/ \E a \in Brains : Alive(a))
    /\ Started(b)
    /\ UNCHANGED <<fault, awaits, done, kind, att, open, handoff, keepers, kpid, ctl, ksock, port, flock, cli, crashes>>

\* gobnc stop and gobnc die: by the control socket if it is served, and by the
\* pid file.  gobnc reload comes here too when no brain serves the socket.
Command(op) ==
    /\ cli = Idle
    /\ ops < MaxOps /\ ops' = ops + 1
    /\ fault = "both" \/ ~Changing
    /\ \/ \E b \in Brains :
            /\ Reachable(b) /\ op # "reload"
            /\ done' = done \cup {b}
            /\ kind' = [kind EXCEPT ![b] = IF op = "die" THEN "die" ELSE @]
            /\ cli' = IF op = "die" THEN [then |-> op, at |-> "pid", of |-> NONE] ELSE Idle
       \/ /\ \A b \in Brains : ~Reachable(b)
          /\ cli' = [then |-> op, at |-> "pid", of |-> NONE]
          /\ UNCHANGED <<done, kind>>
    /\ want' = CASE op = "die" -> "dead" [] op = "stop" -> "down" [] op = "reload" -> "up"
    /\ UNCHANGED <<fault, awaits, pc, att, open, handoff, keepers, files, crashes>>

\* daemon.Stop of the brain.
StopByPid ==
    /\ cli.at = "pid"
    /\ \/ /\ Alive(pid)
          /\ done' = done \cup {pid}
          /\ cli' = [cli EXCEPT !.at = "gone", !.of = pid]
          /\ UNCHANGED pid
       \/ /\ ~Alive(pid)
          /\ pid' = NONE
          /\ cli' = [cli EXCEPT !.at = "next"]
          /\ UNCHANGED done
    /\ UNCHANGED <<fault, awaits, pc, kind, att, open, handoff, keepers, kpid, ctl, ksock, port, flock, want, ops, crashes>>

\* The process is gone: the pid file is removed, whoever it names by now.
StopAwaited ==
    /\ cli.at = "gone"
    /\ \/ ~Alive(cli.of) /\ pid' = NONE
       \/ Alive(cli.of) /\ fault = "slow" /\ UNCHANGED pid
    /\ cli' = [cli EXCEPT !.at = "next"]
    /\ UNCHANGED <<fault, procs, handoff, keepers, kpid, ctl, ksock, port, flock, want, ops, crashes>>

\* What the command goes on to: the keeper, or a new brain.
CommandNext ==
    /\ cli.at = "next"
    /\ cli' = IF cli.then = "die" THEN [cli EXCEPT !.at = "keeper", !.of = kpid] ELSE Idle
    /\ \/ cli.then = "stop" /\ UNCHANGED <<kst, pc, pid, want>>
       \/ cli.then = "die" /\ TermKeeper /\ UNCHANGED <<pc, pid, want>>
       \/ /\ cli.then = "reload"
          /\ \E b \in Brains : Started(b)
          /\ UNCHANGED kst
    /\ UNCHANGED <<fault, awaits, done, kind, att, open, handoff, live, held, kpid, ctl, ksock, port, flock, ops, crashes>>

DieDone ==
    /\ cli.at = "keeper"
    /\ Stopped(cli.of)
    /\ cli' = Idle
    /\ UNCHANGED <<fault, procs, handoff, keepers, pid, ctl, ksock, port, flock, want, ops, crashes>>

\* A brain is killed: it stays down unless it was a replacement on probation.
Crash(b) ==
    /\ Alive(b)
    /\ crashes < MaxCrash /\ crashes' = crashes + 1
    /\ fault = "dies" \/ pc[b] # "asked"
    /\ fault = "orphan" \/ pc[b] # "wait" \/ ~Spawning
    /\ Ended(b)
    /\ want' = IF pc[b] \in {"probe", "ask", "asked"} \/ want # "up" THEN want ELSE "any"
    /\ UNCHANGED <<fault, awaits, done, kind, child, gen, ready, asks, keepers, pid, kpid, ctl, ksock, cli, ops>>

----------------------------------------------------------------------------

Init ==
    /\ fault \in Faults
    /\ pc = [b \in Brains |-> "off"]
    /\ done = {} /\ open = {} /\ ready = {} /\ held = {}
    /\ kind = [b \in Brains |-> "stop"]
    /\ att = [b \in Brains |-> NONE]
    /\ awaits = [b \in Brains |-> NONE]
    /\ hand = [b \in Brains |-> "none"]
    /\ child = [b \in Brains |-> NONE]
    /\ gen = [b \in Brains |-> 0]
    /\ asks = [b \in Brains |-> NoAsk]
    /\ kst = [k \in Keepers |-> "off"]
    /\ live = [k \in Keepers |-> NONE]
    /\ pid = NONE /\ kpid = NONE /\ ctl = NONE /\ ksock = NONE /\ port = NONE /\ flock = NONE
    /\ cli = Idle /\ want = "down" /\ ops = 0 /\ crashes = 0

Brain(b) ==
    \/ EnsureRunning(b) \/ acquireLock(b) \/ LockTimeout(b) \/ SpawnKeeper(b)
    \/ attachWithRetry(b) \/ AttachTimeout(b) \/ BootCancelled(b) \/ serveControl(b) \/ ListenTLS(b)
    \/ CloseControl(b) \/ ClosePort(b) \/ detachFromKeeper(b) \/ AfterRun(b) \/ KeeperStopped(b) \/ Exit(b)

Handoff(b) ==
    \/ ReplacementReady(b) \/ ReplacementExited(b) \/ HandoffTimeout(b) \/ HandoffDetach(b) \/ HandoffCancel(b)
    \/ Probe(b) \/ RequestHandoff(b) \/ HandoffRefused(b) \/ TakeOver(b)
    \/ \E c \in Brains : Relay(b, c)

Operator == StopByPid \/ StopAwaited \/ CommandNext \/ DieDone

Next ==
    \/ \E k \in Keepers : Keeper(k)
    \/ \E b \in Brains : Brain(b) \/ Handoff(b) \/ runReloadHandoff(b) \/ Start(b) \/ Crash(b)
    \/ \E op \in {"stop", "die", "reload"} : Command(op)
    \/ Operator

\* Processes and goroutines run: whatever is not a timeout, a kill or a command
\* of the operator is taken in the end.
Fairness ==
    /\ \A k \in Keepers : WF_vars(Keeper(k))
    /\ \A b \in Brains : WF_vars(Brain(b)) /\ WF_vars(Handoff(b)) /\ WF_vars(CloseControl(b)) /\ WF_vars(ClosePort(b))
    /\ WF_vars(Operator)

Spec == Init /\ [][Next]_vars /\ Fairness

----------------------------------------------------------------------------

\* Nobody has a step of its own left to do.
Settled ==
    /\ \A b \in Brains : pc[b] \in {"off", "gone"} \/ (pc[b] = "serving" /\ b \notin done)
    /\ \A b \in Brains : hand[b] = "none"
    /\ \A k \in Keepers : kst[k] \in {"off", "up", "gone"}
    /\ cli = Idle

\* The keeper that holds the uplinks is the one behind the keeper's socket.
KeeperOnItsPath == \A k \in held : kst[k] = "up" => ksock = k

\* So it is when waits do not time out, no command overlaps another and no boot
\* dies with its keeper's pid file unwritten: whoever boots, a second keeper
\* never takes the path (keeperboot.EnsureRunning: the lock and the pid file).
KeeperReachable ==
    fault \notin {"slow", "orphan", "both", "double"} => KeeperOnItsPath

\* b serves everything: clients, commands, the keeper, and answers to its pid.
Serves(b) ==
    /\ pc[b] = "serving"
    /\ port = b /\ Reachable(b) /\ pid = b
    /\ att[b] # NONE /\ kst[att[b]] = "up" /\ ksock = att[b]

\* However often a reload is asked for, refused, timed out or loses its
\* replacement on the way, in the end one brain serves, and no other is left
\* (runReloadHandoff: every failure path leaves this brain fully attached and
\* serving).
ServedIfWanted ==
    want = "up" /\ Settled =>
        /\ \E b \in Brains : Serves(b)
        /\ Cardinality({b \in Brains : Alive(b)}) = 1

\* So it is when commands do not overtake one another and every process is prompt
\* and alive (the kinds of fault say what may be otherwise).
StaysServed == fault = "none" => ServedIfWanted

\* After a stop or a die no brain is left, and after a die no keeper either:
\* whatever became of the control socket, the pid files still lead to them.
StoppedIfWanted ==
    Settled =>
        /\ want \in {"down", "dead"} => ~ \E b \in Brains : Alive(b)
        /\ want = "dead" => ~ \E k \in Keepers : KAlive(k)

\* So it is unless timeouts pass while a process is slow, two commands run together,
\* or a boot is killed after it spawned its keeper.
StopIsHeeded == fault \in {"none", "overtake", "dies", "stale"} => StoppedIfWanted

\* What the operator asked for last is what there is in the end.
EndsAsAsked == StaysServed /\ StopIsHeeded

\* Only a die makes a keeper quit: a stop, a reload that fails or succeeds, and a
\* brain that dies leave the uplinks alone (detachFromKeeper: the one mistake
\* that costs everything).  A start that overtakes the die of another brain is
\* the operator's doing and excepted.
UplinksOutlive ==
    [][fault \notin {"both", "double"} => \A k \in Keepers : kst[k] = "up" /\ kst'[k] # "up" => want = "dead"]_vars

\* A start is not refused over a keeper that is only on its way up or down.
NeverRefused == fault = "none" => want # "refused"

\* Nobody waits for good: a boot, a handoff with its timeout, its refusal or the
\* death of a side, a stop and a die all come to an end, in whichever order
\* their steps fall.
AllSettles == []<>Settled
=============================================================================
