-------------------------- MODULE LifecycleProofs --------------------------
(***************************************************************************)
(* Proofs about Lifecycle, for any number of brains, keepers, commands and *)
(* crashes: a second keeper never takes the socket's path, and only a die  *)
(* makes a keeper quit.                                                    *)
(*                                                                         *)
(* Neither is inductive.  That no keeper quits without a die needs that    *)
(* nobody boots between a die and the end of everything the die has to     *)
(* end (DieInv); that the path is never taken needs that there is one      *)
(* keeper at a time, which the spawn lock, the waiting spawner and the pid *)
(* file ensure together (SpawnInv), the last of them only because no pid   *)
(* file of a new keeper is removed by a die that waited for an old one.    *)
(***************************************************************************)
EXTENDS Lifecycle, TLAPS

BrainPC == {"off", "attach", "lock", "retry", "check", "wait", "booted", "control",
            "serving", "left", "await", "exiting", "gone",
            "probe", "ask", "asked", "told", "take"}
KeeperState == {"off", "spawned", "pidded", "up", "quit", "closed", "gone"}
CliState ==
    [then : {"stop", "die", "reload"}, at : {"pid", "gone", "next", "keeper"},
     of : Brains \cup Keepers \cup {NONE}] \cup {Idle}

\* The variables the proofs speak of have their types.
TypeOK ==
    /\ pc \in [Brains -> BrainPC]
    /\ kind \in [Brains -> {"stop", "die", "reload"}]
    /\ kst \in [Keepers -> KeeperState]
    /\ awaits \in [Brains -> Keepers \cup {NONE}]
    /\ pid \in Brains \cup {NONE}
    /\ kpid \in Keepers \cup {NONE}
    /\ flock \in Brains \cup {NONE}
    /\ cli \in CliState
    /\ att \in [Brains -> Keepers \cup {NONE}]
    /\ held \subseteq Keepers

Booting == {"attach", "lock", "retry", "check", "wait"}

\* A brain that a die has ended, or is waiting with it for the keeper's end.
Dying(b) == (kind[b] = "die" /\ Alive(b)) \/ pc[b] = "await"

\* No command overlaps another.
Alone == fault \notin {"both", "double"}

\* Nor does a wait time out, or a boot die with its keeper's pid file unwritten.
Calm == fault \notin {"both", "double", "slow", "orphan"}

\* A brain that has not run was not told to die.
NewIsUndecided == \A b \in Brains : pc[b] = "off" => kind[b] # "die"

\* A control listener accepts only while its brain runs.
OpenIsPastBoot ==
    \A b \in Brains : b \in open => pc[b] \in {"control", "serving", "left", "await", "exiting"}

\* Dying is what the operator asked for last, of the brain and on the command line.
DyingWasAsked == \A b \in Brains : Dying(b) => b \in done /\ want = "dead"
DieWasAsked == cli.then = "die" => want = "dead"

\* Nothing boots while a command runs, or a brain dies.
NoBootMeanwhile ==
    cli # Idle \/ (\E b \in Brains : Dying(b)) =>
      /\ \A b \in Brains : pc[b] \notin Booting
      /\ \A k \in Keepers : kst[k] \notin {"spawned", "pidded"}

\* A reload that starts a new brain starts none beside a dying one.
ReloadIsAlone == cli.then = "reload" => \A b \in Brains : ~Dying(b)

DieInv ==
    /\ NewIsUndecided /\ OpenIsPastBoot /\ DyingWasAsked /\ DieWasAsked
    /\ NoBootMeanwhile /\ ReloadIsAlone

\* keeperboot from the lock on: who is past it holds it.
LockHeld == \A b \in Brains : pc[b] \in {"retry", "check", "wait"} => flock = b

\* The keeper whose pid file is not there yet has its spawner waiting for it.
SpawnerWaits ==
    \A k \in Keepers : kst[k] = "spawned" => \E b \in Brains : pc[b] = "wait"

OneKeeper == \A k, j \in Keepers : KAlive(k) /\ KAlive(j) => k = j

\* From then on the pid file names it.
PidNamesKeeper ==
    \A k \in Keepers : kst[k] \in {"pidded", "up", "quit", "closed"} => kpid = k

\* A die waits for the one keeper there is.
AwaitsLast ==
    /\ \A b \in Brains : pc[b] = "await" /\ awaits[b] # NONE =>
         \A k \in Keepers : KAlive(k) => k = awaits[b]
    /\ cli.at = "keeper" /\ cli.of # NONE => \A k \in Keepers : KAlive(k) => k = cli.of

UpOnPath == \A k \in Keepers : kst[k] = "up" => ksock = k

SpawnInv ==
    LockHeld /\ SpawnerWaits /\ OneKeeper /\ PidNamesKeeper /\ AwaitsLast /\ UpOnPath

\* Both, each where its faults are absent.
LifecycleInv == TypeOK /\ (Alone => DieInv) /\ (Calm => SpawnInv)

-----------------------------------------------------------------------------
(* Types.                                                                    *)

\* daemon.Stop of the brain goes on with the command it is part of.
LEMMA StopCli ==
  ASSUME TypeOK, StopByPid
  PROVE  /\ cli # Idle /\ cli'.then = cli.then
         /\ cli'.at \in {"gone", "next"}
         /\ cli' \in CliState
<1> DEFINE Running == [then : {"stop", "die", "reload"}, at : {"pid", "gone", "next", "keeper"},
                       of : Brains \cup Keepers \cup {NONE}]
<1>1. cli \in Running /\ cli # Idle /\ pid \in Brains \cup {NONE}
  BY DEF TypeOK, StopByPid, CliState, Idle
<1>2. CASE cli' = [cli EXCEPT !.at = "gone", !.of = pid]
  <2>1. cli' \in Running /\ cli'.then = cli.then /\ cli'.at = "gone"
    BY <1>1, <1>2
  <2> QED
    BY <1>1, <2>1 DEF CliState
<1>3. CASE cli' = [cli EXCEPT !.at = "next"]
  <2>1. cli' \in Running /\ cli'.then = cli.then /\ cli'.at = "next"
    BY <1>1, <1>3
  <2> QED
    BY <1>1, <2>1 DEF CliState
<1> QED
  BY <1>2, <1>3 DEF StopByPid

\* Every step keeps the types.
LEMMA TypeStep ==
  ASSUME TypeOK, [Next]_vars
  PROVE  TypeOK'
<1> USE LifecycleAssumption DEF TypeOK, procs, handoff, keepers, files, operator, Go
<1>1. ASSUME NEW k \in Keepers, KeeperPid(k)  PROVE TypeOK'
  BY <1>1 DEF KeeperPid, KeeperState
<1>2. ASSUME NEW k \in Keepers, KeeperServe(k)  PROVE TypeOK'
  BY <1>2 DEF KeeperServe, KeeperState
<1>3. ASSUME NEW k \in Keepers, KeeperFree(k)  PROVE TypeOK'
  BY <1>3 DEF KeeperFree, KeeperState
<1>4. ASSUME NEW k \in Keepers, KeeperClose(k)  PROVE TypeOK'
  BY <1>4 DEF KeeperClose, KeeperState
<1>5. ASSUME NEW k \in Keepers, KeeperExit(k)  PROVE TypeOK'
  BY <1>5 DEF KeeperExit, KeeperState
<1>6. ASSUME NEW b \in Brains, EnsureRunning(b)  PROVE TypeOK'
  BY <1>6 DEF EnsureRunning, Attached, Booted, BrainPC
<1>7. ASSUME NEW b \in Brains, acquireLock(b)  PROVE TypeOK'
  BY <1>7 DEF acquireLock, BrainPC
<1>8. ASSUME NEW b \in Brains, LockTimeout(b)  PROVE TypeOK'
  BY <1>8 DEF LockTimeout, Fail, Ended, BrainPC
<1>9. ASSUME NEW b \in Brains, SpawnKeeper(b)  PROVE TypeOK'
  BY <1>9 DEF SpawnKeeper, Ended, BrainPC, KeeperState
<1>10. ASSUME NEW b \in Brains, attachWithRetry(b)  PROVE TypeOK'
  BY <1>10 DEF attachWithRetry, Attached, Booted, BrainPC
<1>11. ASSUME NEW b \in Brains, AttachTimeout(b)  PROVE TypeOK'
  BY <1>11 DEF AttachTimeout, Fail, Ended, BrainPC
<1>12. ASSUME NEW b \in Brains, BootCancelled(b)  PROVE TypeOK'
  BY <1>12 DEF BootCancelled, BrainPC
<1>13. ASSUME NEW b \in Brains, serveControl(b)  PROVE TypeOK'
  BY <1>13 DEF serveControl, BrainPC
<1>14. ASSUME NEW b \in Brains, ListenTLS(b)  PROVE TypeOK'
  BY <1>14 DEF ListenTLS, Ended, PidAfter, BrainPC
<1>15. ASSUME NEW b \in Brains, CloseControl(b)  PROVE TypeOK'
  BY <1>15 DEF CloseControl, BrainPC
<1>16. ASSUME NEW b \in Brains, ClosePort(b)  PROVE TypeOK'
  BY <1>16 DEF ClosePort, BrainPC
<1>17. ASSUME NEW b \in Brains, detachFromKeeper(b)  PROVE TypeOK'
  BY <1>17 DEF detachFromKeeper, BrainPC
<1>18. ASSUME NEW b \in Brains, AfterRun(b)  PROVE TypeOK'
  BY <1>18 DEF AfterRun, TermKeeper, BrainPC, KeeperState
<1>19. ASSUME NEW b \in Brains, KeeperStopped(b)  PROVE TypeOK'
  BY <1>19 DEF KeeperStopped, Stopped, BrainPC
<1>20. ASSUME NEW b \in Brains, Exit(b)  PROVE TypeOK'
  BY <1>20 DEF Exit, Ended, PidAfter, BrainPC
<1>21. ASSUME NEW b \in Brains, ReplacementReady(b)  PROVE TypeOK'
  BY <1>21 DEF ReplacementReady, BrainPC
<1>22. ASSUME NEW b \in Brains, ReplacementExited(b)  PROVE TypeOK'
  BY <1>22 DEF ReplacementExited, BrainPC
<1>23. ASSUME NEW b \in Brains, HandoffTimeout(b)  PROVE TypeOK'
  BY <1>23 DEF HandoffTimeout, BrainPC
<1>24. ASSUME NEW b \in Brains, HandoffDetach(b)  PROVE TypeOK'
  BY <1>24 DEF HandoffDetach, BrainPC
<1>25. ASSUME NEW b \in Brains, HandoffCancel(b)  PROVE TypeOK'
  BY <1>25 DEF HandoffCancel, BrainPC
<1>26. ASSUME NEW b \in Brains, Probe(b)  PROVE TypeOK'
  BY <1>26 DEF Probe, BrainPC
<1>27. ASSUME NEW b \in Brains, RequestHandoff(b)  PROVE TypeOK'
  BY <1>27 DEF RequestHandoff, BrainPC
<1>28. ASSUME NEW b \in Brains, HandoffRefused(b)  PROVE TypeOK'
  BY <1>28 DEF HandoffRefused, BrainPC
<1>29. ASSUME NEW b \in Brains, TakeOver(b)  PROVE TypeOK'
  BY <1>29 DEF TakeOver, BrainPC
<1>30. ASSUME NEW b \in Brains, runReloadHandoff(b)  PROVE TypeOK'
  BY <1>30 DEF runReloadHandoff, BrainPC
<1>31. ASSUME NEW b \in Brains, Start(b)  PROVE TypeOK'
  BY <1>31 DEF Start, Started, BrainPC
<1>32. ASSUME NEW b \in Brains, Crash(b)  PROVE TypeOK'
  BY <1>32 DEF Crash, Ended, BrainPC
<1>33. ASSUME NEW b \in Brains, NEW c \in Brains, Relay(b, c)  PROVE TypeOK'
  BY <1>33 DEF Relay, BrainPC
<1>34. ASSUME NEW op \in {"stop", "die", "reload"}, Command(op)  PROVE TypeOK'
  BY <1>34 DEF Command, CliState, Idle
<1>35. CASE StopByPid
  <2>1. cli' \in CliState
    BY <1>35, StopCli
  <2> QED
    BY <1>35, <2>1 DEF StopByPid, Alive
<1>36. CASE StopAwaited
  BY <1>36 DEF StopAwaited, CliState, Idle
<1>37. CASE CommandNext
  BY <1>37 DEF CommandNext, CliState, Idle, TermKeeper, Started, KeeperState, BrainPC
<1>38. CASE DieDone
  BY <1>38 DEF DieDone, CliState, Idle, Stopped
<1>39. CASE UNCHANGED vars
  BY <1>39 DEF vars
<1> QED
  BY <1>1, <1>2, <1>3, <1>4, <1>5, <1>6, <1>7, <1>8, <1>9, <1>10, <1>11, <1>12, <1>13, <1>14,
         <1>15, <1>16, <1>17, <1>18, <1>19, <1>20, <1>21, <1>22, <1>23, <1>24, <1>25, <1>26,
         <1>27, <1>28, <1>29, <1>30, <1>31, <1>32, <1>33, <1>34, <1>35, <1>36, <1>37, <1>38,
         <1>39
     DEF Next, Keeper, Brain, Handoff, Operator

-----------------------------------------------------------------------------
(* A die.                                                                    *)

\* Every step keeps DieInv while no command overlaps another.
LEMMA DieStep ==
  ASSUME TypeOK, Alone, DieInv, [Next]_vars
  PROVE  DieInv'
<1> USE LifecycleAssumption DEF TypeOK, procs, handoff, keepers, files, operator, Go,
            DieInv, NewIsUndecided, OpenIsPastBoot, DyingWasAsked, DieWasAsked,
            NoBootMeanwhile, ReloadIsAlone, Dying, Booting, Alive
<1>1. ASSUME NEW k \in Keepers, KeeperPid(k)  PROVE DieInv'
  BY <1>1 DEF KeeperPid, KeeperState
<1>2. ASSUME NEW k \in Keepers, KeeperServe(k)  PROVE DieInv'
  BY <1>2 DEF KeeperServe, KeeperState
<1>3. ASSUME NEW k \in Keepers, KeeperFree(k)  PROVE DieInv'
  BY <1>3 DEF KeeperFree, KeeperState
<1>4. ASSUME NEW k \in Keepers, KeeperClose(k)  PROVE DieInv'
  BY <1>4 DEF KeeperClose, KeeperState
<1>5. ASSUME NEW k \in Keepers, KeeperExit(k)  PROVE DieInv'
  BY <1>5 DEF KeeperExit, KeeperState
<1>6. ASSUME NEW b \in Brains, EnsureRunning(b)  PROVE DieInv'
  BY <1>6 DEF EnsureRunning, Attached, Booted, Fresh, FreshKeeper, BrainPC
<1>7. ASSUME NEW b \in Brains, acquireLock(b)  PROVE DieInv'
  BY <1>7 DEF acquireLock, Fresh, FreshKeeper, BrainPC
<1>8. ASSUME NEW b \in Brains, LockTimeout(b)  PROVE DieInv'
  BY <1>8 DEF LockTimeout, Fail, Ended, Fresh, FreshKeeper, BrainPC
<1>9. ASSUME NEW b \in Brains, SpawnKeeper(b)  PROVE DieInv'
  BY <1>9 DEF SpawnKeeper, Ended, Idle, Fresh, FreshKeeper, BrainPC
<1>10. ASSUME NEW b \in Brains, attachWithRetry(b)  PROVE DieInv'
  BY <1>10 DEF attachWithRetry, Attached, Booted, Fresh, FreshKeeper, BrainPC
<1>11. ASSUME NEW b \in Brains, AttachTimeout(b)  PROVE DieInv'
  BY <1>11 DEF AttachTimeout, Fail, Ended, Fresh, FreshKeeper, BrainPC
<1>12. ASSUME NEW b \in Brains, BootCancelled(b)  PROVE DieInv'
  BY <1>12 DEF BootCancelled, Fresh, FreshKeeper, BrainPC
<1>13. ASSUME NEW b \in Brains, serveControl(b)  PROVE DieInv'
  BY <1>13 DEF serveControl, Fresh, FreshKeeper, BrainPC
<1>14. ASSUME NEW b \in Brains, ListenTLS(b)  PROVE DieInv'
  BY <1>14 DEF ListenTLS, Ended, PidAfter, Fresh, FreshKeeper, BrainPC
<1>15. ASSUME NEW b \in Brains, CloseControl(b)  PROVE DieInv'
  BY <1>15 DEF CloseControl, Fresh, FreshKeeper, BrainPC
<1>16. ASSUME NEW b \in Brains, ClosePort(b)  PROVE DieInv'
  BY <1>16 DEF ClosePort, Fresh, FreshKeeper, BrainPC
<1>17. ASSUME NEW b \in Brains, detachFromKeeper(b)  PROVE DieInv'
  BY <1>17 DEF detachFromKeeper, Fresh, FreshKeeper, BrainPC
<1>18. ASSUME NEW b \in Brains, AfterRun(b)  PROVE DieInv'
  BY <1>18 DEF AfterRun, TermKeeper, Fresh, FreshKeeper, BrainPC
<1>19. ASSUME NEW b \in Brains, KeeperStopped(b)  PROVE DieInv'
  BY <1>19 DEF KeeperStopped, Stopped, Fresh, FreshKeeper, BrainPC
<1>20. ASSUME NEW b \in Brains, Exit(b)  PROVE DieInv'
  BY <1>20 DEF Exit, Ended, PidAfter, Fresh, FreshKeeper, BrainPC
<1>21. ASSUME NEW b \in Brains, ReplacementReady(b)  PROVE DieInv'
  BY <1>21 DEF ReplacementReady, Fresh, FreshKeeper, BrainPC
<1>22. ASSUME NEW b \in Brains, ReplacementExited(b)  PROVE DieInv'
  BY <1>22 DEF ReplacementExited, Fresh, FreshKeeper, BrainPC
<1>23. ASSUME NEW b \in Brains, HandoffTimeout(b)  PROVE DieInv'
  BY <1>23 DEF HandoffTimeout, Fresh, FreshKeeper, BrainPC
<1>24. ASSUME NEW b \in Brains, HandoffDetach(b)  PROVE DieInv'
  BY <1>24 DEF HandoffDetach, Fresh, FreshKeeper, BrainPC
<1>25. ASSUME NEW b \in Brains, HandoffCancel(b)  PROVE DieInv'
  BY <1>25 DEF HandoffCancel, Fresh, FreshKeeper, BrainPC
<1>26. ASSUME NEW b \in Brains, Probe(b)  PROVE DieInv'
  BY <1>26 DEF Probe, Fresh, FreshKeeper, BrainPC
<1>27. ASSUME NEW b \in Brains, RequestHandoff(b)  PROVE DieInv'
  BY <1>27 DEF RequestHandoff, Fresh, FreshKeeper, BrainPC
<1>28. ASSUME NEW b \in Brains, HandoffRefused(b)  PROVE DieInv'
  BY <1>28 DEF HandoffRefused, Fresh, FreshKeeper, BrainPC
<1>29. ASSUME NEW b \in Brains, TakeOver(b)  PROVE DieInv'
  BY <1>29 DEF TakeOver, Fresh, FreshKeeper, BrainPC
<1>30. ASSUME NEW b \in Brains, runReloadHandoff(b)  PROVE DieInv'
  BY <1>30 DEF runReloadHandoff, Fresh, FreshKeeper, BrainPC
<1>31. ASSUME NEW b \in Brains, Start(b)  PROVE DieInv'
  BY <1>31 DEF Start, Started, Alone, Idle, Fresh, FreshKeeper, BrainPC
<1>32. ASSUME NEW b \in Brains, Crash(b)  PROVE DieInv'
  BY <1>32 DEF Crash, Ended, Fresh, FreshKeeper, BrainPC
<1>33. ASSUME NEW b \in Brains, NEW c \in Brains, Relay(b, c)  PROVE DieInv'
  BY <1>33 DEF Relay
<1>34. ASSUME NEW op \in {"stop", "die", "reload"}, Command(op)  PROVE DieInv'
  BY <1>34 DEF Command, CliState, Idle, Alone, Changing, Reachable
<1>35. CASE StopByPid
  <2>1. cli # Idle /\ cli'.then = cli.then
    BY <1>35, StopCli
  <2>2. UNCHANGED <<pc, kind, kst, open, want>> /\ done \subseteq done'
    BY <1>35 DEF StopByPid
  <2> QED
    BY <2>1, <2>2
<1>36. CASE StopAwaited
  BY <1>36 DEF StopAwaited, CliState, Idle
<1>37. CASE CommandNext
  BY <1>37 DEF CommandNext, CliState, Idle, TermKeeper, Started, Fresh, KeeperState, BrainPC
<1>38. CASE DieDone
  BY <1>38 DEF DieDone, CliState, Idle, Stopped
<1>39. CASE UNCHANGED vars
  BY <1>39 DEF vars
<1> QED
  BY <1>1, <1>2, <1>3, <1>4, <1>5, <1>6, <1>7, <1>8, <1>9, <1>10, <1>11, <1>12, <1>13, <1>14,
         <1>15, <1>16, <1>17, <1>18, <1>19, <1>20, <1>21, <1>22, <1>23, <1>24, <1>25, <1>26,
         <1>27, <1>28, <1>29, <1>30, <1>31, <1>32, <1>33, <1>34, <1>35, <1>36, <1>37, <1>38,
         <1>39
     DEF Next, Keeper, Brain, Handoff, Operator

-----------------------------------------------------------------------------
(* One keeper.                                                               *)

\* Every step keeps SpawnInv while nothing overlaps, times out or dies too soon.
LEMMA SpawnStep ==
  ASSUME TypeOK, Calm, DieInv, SpawnInv, [Next]_vars
  PROVE  SpawnInv'
<1> USE LifecycleAssumption DEF TypeOK, procs, handoff, keepers, files, operator, Go,
            SpawnInv, LockHeld, SpawnerWaits, OneKeeper, PidNamesKeeper, AwaitsLast, UpOnPath,
            KAlive
<1>1. ASSUME NEW k \in Keepers, KeeperPid(k)  PROVE SpawnInv'
  BY <1>1 DEF KeeperPid, KeeperState
<1>2. ASSUME NEW k \in Keepers, KeeperServe(k)  PROVE SpawnInv'
  BY <1>2 DEF KeeperServe, KeeperState
<1>3. ASSUME NEW k \in Keepers, KeeperFree(k)  PROVE SpawnInv'
  BY <1>3 DEF KeeperFree, KeeperState
<1>4. ASSUME NEW k \in Keepers, KeeperClose(k)  PROVE SpawnInv'
  BY <1>4 DEF KeeperClose, KeeperState
<1>5. ASSUME NEW k \in Keepers, KeeperExit(k)  PROVE SpawnInv'
  BY <1>5 DEF KeeperExit, KeeperState
<1>6. ASSUME NEW b \in Brains, EnsureRunning(b)  PROVE SpawnInv'
  BY <1>6 DEF EnsureRunning, Attached, Booted, CanAttach, BrainPC
<1>7. ASSUME NEW b \in Brains, acquireLock(b)  PROVE SpawnInv'
  BY <1>7 DEF acquireLock, BrainPC
<1>8. ASSUME NEW b \in Brains, LockTimeout(b)  PROVE SpawnInv'
  BY <1>8 DEF LockTimeout, Fail, Ended, Calm, BrainPC
<1>9. ASSUME NEW b \in Brains, SpawnKeeper(b)  PROVE SpawnInv'
  <2>1. pc[b] = "check" /\ flock = b /\ b # NONE
    BY <1>9 DEF SpawnKeeper, LockHeld
  <2>2. cli = Idle /\ \A a \in Brains : pc[a] # "await"
    BY <2>1 DEF DieInv, NoBootMeanwhile, Booting, Dying
  <2>3. \A k \in Keepers : kst[k] # "spawned"
    BY <2>1 DEF LockHeld, SpawnerWaits
  \* It ends, and no keeper is affected.
  <2>4. CASE Ended(b) /\ UNCHANGED <<kst, kpid, ksock, cli, awaits>>
    BY <2>1, <2>2, <2>3, <2>4 DEF Ended, BrainPC, LockHeld, SpawnerWaits, OneKeeper,
                                  PidNamesKeeper, AwaitsLast, UpOnPath, KAlive, Idle
  \* It spawns: the pid file would have named any keeper there is.
  <2>5. CASE ~MayHaveKeeper /\ UNCHANGED <<kpid, ksock, cli, awaits, flock>> /\ Go(b, "wait")
    <3>1. \A k \in Keepers : ~KAlive(k)
      <4>1. ASSUME NEW k \in Keepers, KAlive(k)
            PROVE  kst[k] \in {"pidded", "up", "quit", "closed"}
        BY <2>3, <4>1 DEF KAlive, KeeperState
      <4>2. ASSUME NEW k \in Keepers, KAlive(k)
            PROVE  FALSE
        BY <2>5, <4>1, <4>2 DEF PidNamesKeeper, MayHaveKeeper
      <4> QED
        BY <4>2
    <3>2. PICK k \in Keepers : kst' = [kst EXCEPT ![k] = "spawned"]
      BY <1>9, <2>5 DEF SpawnKeeper
    <3>3. \A j \in Keepers : j # k => kst'[j] = kst[j] /\ kst[j] \in {"off", "gone"}
      BY <3>1, <3>2 DEF KAlive
    <3>4. kst'[k] = "spawned" /\ pc'[b] = "wait" /\ flock' = b
          /\ \A a \in Brains : a # b => pc'[a] = pc[a]
      BY <2>1, <2>5, <3>2
    <3>5. LockHeld' /\ SpawnerWaits'
      BY <2>1, <2>5, <3>4 DEF LockHeld, SpawnerWaits
    <3>6. OneKeeper' /\ PidNamesKeeper' /\ UpOnPath'
      BY <3>3, <3>4 DEF OneKeeper, PidNamesKeeper, UpOnPath, KAlive
    <3>7. AwaitsLast'
      BY <2>2, <2>5, <3>4 DEF AwaitsLast, Idle
    <3> QED
      BY <3>5, <3>6, <3>7
  <2> QED
    BY <1>9, <2>4, <2>5 DEF SpawnKeeper
<1>10. ASSUME NEW b \in Brains, attachWithRetry(b)  PROVE SpawnInv'
  BY <1>10 DEF attachWithRetry, Attached, Booted, CanAttach, BrainPC
<1>11. ASSUME NEW b \in Brains, AttachTimeout(b)  PROVE SpawnInv'
  BY <1>11 DEF AttachTimeout, Fail, Ended, Hopeless, Calm, BrainPC
<1>12. ASSUME NEW b \in Brains, BootCancelled(b)  PROVE SpawnInv'
  BY <1>12 DEF BootCancelled, Spawning, Calm, BrainPC
<1>13. ASSUME NEW b \in Brains, serveControl(b)  PROVE SpawnInv'
  BY <1>13 DEF serveControl, BrainPC
<1>14. ASSUME NEW b \in Brains, ListenTLS(b)  PROVE SpawnInv'
  BY <1>14 DEF ListenTLS, Ended, PidAfter, BrainPC
<1>15. ASSUME NEW b \in Brains, CloseControl(b)  PROVE SpawnInv'
  BY <1>15 DEF CloseControl, BrainPC
<1>16. ASSUME NEW b \in Brains, ClosePort(b)  PROVE SpawnInv'
  BY <1>16 DEF ClosePort, BrainPC
<1>17. ASSUME NEW b \in Brains, detachFromKeeper(b)  PROVE SpawnInv'
  BY <1>17 DEF detachFromKeeper, BrainPC
<1>18. ASSUME NEW b \in Brains, AfterRun(b)  PROVE SpawnInv'
  BY <1>18 DEF AfterRun, TermKeeper, Calm, DieInv, NoBootMeanwhile, Dying, Booting, Alive,
         KeeperState, BrainPC
<1>19. ASSUME NEW b \in Brains, KeeperStopped(b)  PROVE SpawnInv'
  BY <1>19 DEF KeeperStopped, Stopped, Calm, DieInv, NoBootMeanwhile, Dying, Booting, Alive,
         KeeperState, BrainPC
<1>20. ASSUME NEW b \in Brains, Exit(b)  PROVE SpawnInv'
  BY <1>20 DEF Exit, Ended, PidAfter, BrainPC
<1>21. ASSUME NEW b \in Brains, ReplacementReady(b)  PROVE SpawnInv'
  BY <1>21 DEF ReplacementReady, BrainPC
<1>22. ASSUME NEW b \in Brains, ReplacementExited(b)  PROVE SpawnInv'
  BY <1>22 DEF ReplacementExited, BrainPC
<1>23. ASSUME NEW b \in Brains, HandoffTimeout(b)  PROVE SpawnInv'
  BY <1>23 DEF HandoffTimeout, BrainPC
<1>24. ASSUME NEW b \in Brains, HandoffDetach(b)  PROVE SpawnInv'
  BY <1>24 DEF HandoffDetach, BrainPC
<1>25. ASSUME NEW b \in Brains, HandoffCancel(b)  PROVE SpawnInv'
  BY <1>25 DEF HandoffCancel, BrainPC
<1>26. ASSUME NEW b \in Brains, Probe(b)  PROVE SpawnInv'
  BY <1>26 DEF Probe, BrainPC
<1>27. ASSUME NEW b \in Brains, RequestHandoff(b)  PROVE SpawnInv'
  BY <1>27 DEF RequestHandoff, BrainPC
<1>28. ASSUME NEW b \in Brains, HandoffRefused(b)  PROVE SpawnInv'
  BY <1>28 DEF HandoffRefused, BrainPC
<1>29. ASSUME NEW b \in Brains, TakeOver(b)  PROVE SpawnInv'
  BY <1>29 DEF TakeOver, BrainPC
<1>30. ASSUME NEW b \in Brains, runReloadHandoff(b)  PROVE SpawnInv'
  BY <1>30 DEF runReloadHandoff, Fresh, BrainPC
<1>31. ASSUME NEW b \in Brains, Start(b)  PROVE SpawnInv'
  BY <1>31 DEF Start, Started, Fresh, BrainPC
<1>32. ASSUME NEW b \in Brains, Crash(b)  PROVE SpawnInv'
  BY <1>32 DEF Crash, Ended, Spawning, Calm, BrainPC
<1>33. ASSUME NEW b \in Brains, NEW c \in Brains, Relay(b, c)  PROVE SpawnInv'
  BY <1>33 DEF Relay
<1>34. ASSUME NEW op \in {"stop", "die", "reload"}, Command(op)  PROVE SpawnInv'
  BY <1>34 DEF Command, CliState, Idle
<1>35. CASE StopByPid
  BY <1>35, StopCli DEF StopByPid, CliState
<1>36. CASE StopAwaited
  BY <1>36 DEF StopAwaited, CliState, Idle
<1>37. CASE CommandNext
  BY <1>37 DEF CommandNext, CliState, Idle, TermKeeper, Started, Fresh, KeeperState, BrainPC,
         DieInv, NoBootMeanwhile
<1>38. CASE DieDone
  BY <1>38 DEF DieDone, CliState, Idle, Stopped, Calm
<1>39. CASE UNCHANGED vars
  BY <1>39 DEF vars
<1> HIDE DEF SpawnInv
<1>40. ASSUME NEW k \in Keepers, Keeper(k)  PROVE SpawnInv'
  BY <1>1, <1>2, <1>3, <1>4, <1>5, <1>40 DEF Keeper
<1>41. ASSUME NEW b \in Brains, Brain(b)  PROVE SpawnInv'
  BY <1>6, <1>7, <1>8, <1>9, <1>10, <1>11, <1>12, <1>13, <1>14, <1>15, <1>16, <1>17, <1>18,
         <1>19, <1>20, <1>41
     DEF Brain
<1>42. ASSUME NEW b \in Brains, Handoff(b)  PROVE SpawnInv'
  BY <1>21, <1>22, <1>23, <1>24, <1>25, <1>26, <1>27, <1>28, <1>29, <1>33, <1>42 DEF Handoff
<1>43. CASE Operator
  BY <1>35, <1>36, <1>37, <1>38, <1>43 DEF Operator
<1> QED
  BY <1>30, <1>31, <1>32, <1>34, <1>39, <1>40, <1>41, <1>42, <1>43 DEF Next

-----------------------------------------------------------------------------
(* The theorems.                                                             *)

\* Every behaviour keeps the types, DieInv and SpawnInv, each of the latter
\* under the faults it allows.
THEOREM LifecycleInvariant == Spec => []LifecycleInv
<1> USE LifecycleAssumption
<1>1. Init => LifecycleInv
  <2> SUFFICES ASSUME Init PROVE LifecycleInv
    OBVIOUS
  <2>1. TypeOK
    BY DEF Init, TypeOK, BrainPC, KeeperState, CliState
  <2>2. DieInv
    BY DEF Init, DieInv, NewIsUndecided, OpenIsPastBoot, DyingWasAsked, DieWasAsked,
           NoBootMeanwhile, ReloadIsAlone, Dying, Alive, Idle
  <2>3. SpawnInv
    BY DEF Init, SpawnInv, LockHeld, SpawnerWaits, OneKeeper, PidNamesKeeper, AwaitsLast,
           UpOnPath, KAlive, Idle
  <2> QED
    BY <2>1, <2>2, <2>3 DEF LifecycleInv
<1>2. LifecycleInv /\ [Next]_vars => LifecycleInv'
  <2> SUFFICES ASSUME LifecycleInv, [Next]_vars
               PROVE  LifecycleInv'
    OBVIOUS
  <2>1. fault' = fault
    <3>1. ASSUME NEW k \in Keepers, Keeper(k)  PROVE fault' = fault
      BY <3>1 DEF Keeper, KeeperPid, KeeperServe, KeeperFree, KeeperClose, KeeperExit
    <3>2. ASSUME NEW b \in Brains, Brain(b)  PROVE fault' = fault
      BY <3>2 DEF Brain, EnsureRunning, acquireLock, LockTimeout, SpawnKeeper, attachWithRetry,
           AttachTimeout, BootCancelled, serveControl, ListenTLS, CloseControl, ClosePort,
           detachFromKeeper, AfterRun, KeeperStopped, Exit, Fail
    <3>3. ASSUME NEW b \in Brains, Handoff(b)  PROVE fault' = fault
      BY <3>3 DEF Handoff, ReplacementReady, ReplacementExited, HandoffTimeout, HandoffDetach,
           HandoffCancel, Probe, RequestHandoff, HandoffRefused, TakeOver, Relay
    <3>4. ASSUME NEW b \in Brains, runReloadHandoff(b) \/ Start(b) \/ Crash(b)
          PROVE  fault' = fault
      BY <3>4 DEF runReloadHandoff, Start, Crash
    <3>5. ASSUME NEW op \in {"stop", "die", "reload"}, Command(op)  PROVE fault' = fault
      BY <3>5 DEF Command
    <3>6. Operator => fault' = fault
      BY DEF Operator, StopByPid, StopAwaited, CommandNext, DieDone
    <3> QED
      BY <3>1, <3>2, <3>3, <3>4, <3>5, <3>6 DEF Next, vars
  <2>2. TypeOK'
    BY TypeStep DEF LifecycleInv
  <2>3. Alone' => DieInv'
    BY <2>1, DieStep DEF LifecycleInv, Alone
  <2>4. Calm' => SpawnInv'
    BY <2>1, SpawnStep DEF LifecycleInv, Calm, Alone
  <2> QED
    BY <2>2, <2>3, <2>4 DEF LifecycleInv
<1> QED
  BY <1>1, <1>2, PTL DEF Spec

\* The keeper that holds the uplinks stays the one behind the keeper's socket,
\* so that the next brain finds it: no boot spawns a second keeper beside it.
THEOREM KeeperIsFound == Spec => []KeeperReachable
<1>1. LifecycleInv => KeeperReachable
  <2> SUFFICES ASSUME LifecycleInv, Calm, NEW k \in held, kst[k] = "up"
               PROVE  ksock = k
    BY DEF KeeperReachable, KeeperOnItsPath, Calm
  <2>1. k \in Keepers
    BY DEF LifecycleInv, TypeOK
  <2> QED
    BY <2>1 DEF LifecycleInv, SpawnInv, UpOnPath
<1> QED
  BY <1>1, LifecycleInvariant, PTL

\* No keeper that is up quits unless the operator's last word was die: no stop,
\* no reload, refused, timed out or done, and no crash costs an uplink.
THEOREM OnlyDieEndsUplinks == Spec => UplinksOutlive
<1>1. LifecycleInv /\ [Next]_vars =>
        [Alone => \A k \in Keepers : kst[k] = "up" /\ kst'[k] # "up" => want = "dead"]_vars
  <2> SUFFICES ASSUME LifecycleInv, Next, Alone, NEW k \in Keepers, kst[k] = "up", kst'[k] # "up"
               PROVE  want = "dead"
    BY DEF vars
  <2> USE LifecycleAssumption DEF procs, handoff, keepers, files, operator
  <2>1. TypeOK /\ DieInv
    BY DEF LifecycleInv
  <2>2. CASE kst' = kst
    BY <2>2
  <2>3. ASSUME NEW j \in Keepers, Keeper(j)
        PROVE  want = "dead"
    BY <2>1, <2>3 DEF TypeOK, Keeper, KeeperPid, KeeperServe, KeeperFree, KeeperClose, KeeperExit
  <2>4. ASSUME NEW b \in Brains, Brain(b) \/ Handoff(b) \/ runReloadHandoff(b) \/ Start(b) \/ Crash(b)
        PROVE  want = "dead"
    <3>1. CASE AfterRun(b)
      <4>1. kind[b] = "die" /\ Alive(b) /\ b \in Brains
        BY <2>1, <2>2, <3>1 DEF AfterRun, Alive, TypeOK
      <4> QED
        BY <2>1, <4>1 DEF DieInv, DyingWasAsked, Dying
    <3>2. CASE SpawnKeeper(b)
      BY <2>1, <3>2 DEF SpawnKeeper, FreshKeeper, TypeOK
    <3>3. CASE ~AfterRun(b) /\ ~SpawnKeeper(b)
      BY <2>2, <2>4, <3>3
         DEF Brain, EnsureRunning, acquireLock, LockTimeout, attachWithRetry,
             AttachTimeout, BootCancelled, serveControl, ListenTLS, CloseControl, ClosePort,
             detachFromKeeper, KeeperStopped, Exit, Fail,
             Handoff, ReplacementReady, ReplacementExited, HandoffTimeout, HandoffDetach,
             HandoffCancel, Probe, RequestHandoff, HandoffRefused, TakeOver, Relay,
             runReloadHandoff, Start, Crash
    <3> QED
      BY <3>1, <3>2, <3>3
  <2>5. ASSUME NEW op \in {"stop", "die", "reload"}, Command(op)
        PROVE  want = "dead"
    BY <2>2, <2>5 DEF Command
  <2>6. CASE Operator
    <3>1. CASE CommandNext
      BY <2>1, <2>2, <3>1 DEF CommandNext, DieInv, DieWasAsked
    <3>2. CASE StopByPid \/ StopAwaited \/ DieDone
      BY <2>2, <3>2 DEF StopByPid, StopAwaited, DieDone
    <3> QED
      BY <2>6, <3>1, <3>2 DEF Operator
  <2> QED
    BY <2>3, <2>4, <2>5, <2>6 DEF Next
<1> QED
  BY <1>1, LifecycleInvariant, PTL DEF Spec, UplinksOutlive, Alone
=============================================================================
