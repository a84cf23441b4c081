-------------------------- MODULE Supervisor_proofs --------------------------
(***************************************************************************)
(* Proofs about Supervisor, for any number of children.                    *)
(***************************************************************************)
EXTENDS Supervisor, TLAPS

USE SupervisorAssumption

-----------------------------------------------------------------------------
(* Where the start-up is: children are started in order, and the next one  *)
(* only after the last has served.                                         *)
InTurn ==
  /\ \A c \in Child : child[c] = "none" <=> c > started
  /\ pc \in Early => started = 0
  /\ pc = "spawn" => started < N
  /\ pc \in Startup \ {"spawn"} => started > 0 /\ turn = started
  /\ pc \in Serving => started = N
  /\ pc \in Startup =>
       \A c \in Child : (c < started \/ (c = started /\ pc = "spawn")) =>
                         child[c] \in {"serving", "zombie"}
  /\ pc \in Serving => \A c \in Child : child[c] \in {"serving", "zombie"}
  /\ pc \notin Stop \cup {"exited"} => heard = {} /\ killed = {}
  /\ \A c \in Child : child[c] = "draining" => c \in heard
  /\ heard \cup killed \subseteq 1 .. started

(* A death that has not been collected, and a stop that has not been seen, *)
(* have left their byte in the pipe, unless the supervisor is between its  *)
(* drain and its look at them.                                             *)
NothingMissed ==
  /\ pc \in Early => ~ terminating /\ reaped = {}
  /\ pc \in Startup \cup Serving =>
       /\ reaped = {}
       /\ ~ pipe /\ pc \notin {"reap", "collect"} =>
            \A c \in Child : child[c] # "zombie"
       /\ ~ pipe /\ pc \notin {"reap", "ready", "collect", "decide"} =>
            ~ terminating

(* Who is left at each point of shutdown().                                *)
Accounted ==
  /\ reaped \subseteq {c \in Child : child[c] = "zombie"}
  /\ pc = "grace" /\ late =>
       \A c \in Child : child[c] \notin {"forked", "session"}
  /\ pc \in {"kill", "drain"} => \A c \in Child : child[c] # "forked"
  /\ pc = "kill" => turn <= started
  /\ pc = "kill" =>
       \A c \in 1 .. started : c > turn => c \in reaped \cup killed
  /\ pc = "drain" => \A c \in 1 .. started : c \in reaped \cup killed

IInv == TypeOK /\ InTurn /\ NothingMissed /\ Accounted /\ NoneLeftBehind

(* What shutdown() and reap() go through are children.                     *)
LEMMA Members ==
  ASSUME TypeOK
  PROVE  Running \subseteq Child /\ Zombies \subseteq Running
  BY DEF TypeOK, Running, Zombies, Child

-----------------------------------------------------------------------------
(* One step keeps the types; Spawn runs only while a child is missing,     *)
(* which InTurn says, so it is part of the hypothesis.                     *)
LEMMA TypeStep ==
  ASSUME TypeOK, InTurn, [Next]_vars
  PROVE  TypeOK'
  <1> USE DEF TypeOK, Early, Startup, Serving, Stop, EXIT_OK,
          EXIT_STARTUP_FAILED, EXIT_BAD_PORT, EXIT_BUNDLE_UNVERIFIED,
          EXIT_CHILD_DIED, EXIT_PROXY_UNAVAILABLE, own, kids, Child,
          Stages, Running, Zombies
  <1>1. CASE UNCHANGED vars
    BY <1>1 DEF vars
  <1>2. CASE ResolvePort
    BY <1>2 DEF ResolvePort, Check
  <1>3. CASE ProbeProxy
    BY <1>3 DEF ProbeProxy, Check
  <1>4. CASE VerifyBundle
    BY <1>4 DEF VerifyBundle, Check
  <1>5. CASE Spawn
    <2>1. pc' \in Early \cup Startup \cup Serving \cup Stop
                 \cup {"exited", "crashed"}
      BY <1>5 DEF Spawn
    <2>2. turn' \in 0 .. N /\ started' \in 0 .. N
      <3>1. started < N /\ started' = started + 1 /\ turn' = started + 1
        BY <1>5 DEF Spawn, InTurn
      <3>2. QED
        BY <3>1
    <2>3. late' \in BOOLEAN /\ terminating' \in BOOLEAN /\ pipe' \in BOOLEAN
      BY <1>5 DEF Spawn
    <2>4. code' \in 0 .. 5
      BY <1>5 DEF Spawn
    <2>5. child' \in [Child -> Stages]
      BY <1>5 DEF Spawn
    <2>6. reaped' \subseteq Child /\ fell' \subseteq Child
      BY <1>5, Members DEF Spawn
    <2>7. heard' \subseteq Child /\ killed' \subseteq Child
      BY <1>5, Members DEF Spawn
    <2>8. QED
      BY <2>1, <2>2, <2>3, <2>4, <2>5, <2>6, <2>7
  <1>6. CASE ForkFails
    BY <1>6 DEF ForkFails
  <1>7. CASE Ready
    <2>1. pc' \in Early \cup Startup \cup Serving \cup Stop
                 \cup {"exited", "crashed"}
      BY <1>7 DEF Ready, Shutdown
    <2>2. turn' \in 0 .. N /\ started' \in 0 .. N
      BY <1>7 DEF Ready, Shutdown
    <2>3. late' \in BOOLEAN /\ terminating' \in BOOLEAN /\ pipe' \in BOOLEAN
      BY <1>7 DEF Ready, Shutdown
    <2>4. code' \in 0 .. 5
      BY <1>7 DEF Ready, Shutdown
    <2>5. child' \in [Child -> Stages]
      BY <1>7 DEF Ready, Shutdown
    <2>6. reaped' \subseteq Child /\ fell' \subseteq Child
      BY <1>7, Members DEF Ready, Shutdown
    <2>7. heard' \subseteq Child /\ killed' \subseteq Child
      BY <1>7, Members DEF Ready, Shutdown
    <2>8. QED
      BY <2>1, <2>2, <2>3, <2>4, <2>5, <2>6, <2>7
  <1>8. CASE Probe
    BY <1>8 DEF Probe
  <1>9. CASE Wait
    BY <1>9 DEF Wait
  <1>10. CASE Reap
    <2>1. pc' \in Early \cup Startup \cup Serving \cup Stop
                 \cup {"exited", "crashed"}
      BY <1>10 DEF Reap, Shutdown, Collected
    <2>2. turn' \in 0 .. N /\ started' \in 0 .. N
      BY <1>10 DEF Reap, Shutdown, Collected
    <2>3. late' \in BOOLEAN /\ terminating' \in BOOLEAN /\ pipe' \in BOOLEAN
      BY <1>10 DEF Reap, Shutdown, Collected
    <2>4. code' \in 0 .. 5
      BY <1>10 DEF Reap, Shutdown, Collected
    <2>5. child' \in [Child -> Stages]
      BY <1>10 DEF Reap, Shutdown, Collected
    <2>6. reaped' \subseteq Child /\ fell' \subseteq Child
      BY <1>10, Members DEF Reap, Shutdown, Collected
    <2>7. heard' \subseteq Child /\ killed' \subseteq Child
      BY <1>10, Members DEF Reap, Shutdown, Collected
    <2>8. QED
      BY <2>1, <2>2, <2>3, <2>4, <2>5, <2>6, <2>7
  <1>11. CASE Serve
    BY <1>11 DEF Serve
  <1>12. CASE Collect
    <2>1. pc' \in Early \cup Startup \cup Serving \cup Stop
                 \cup {"exited", "crashed"}
      BY <1>12 DEF Collect, Shutdown, Collected
    <2>2. turn' \in 0 .. N /\ started' \in 0 .. N
      BY <1>12 DEF Collect, Shutdown, Collected
    <2>3. late' \in BOOLEAN /\ terminating' \in BOOLEAN /\ pipe' \in BOOLEAN
      BY <1>12 DEF Collect, Shutdown, Collected
    <2>4. code' \in 0 .. 5
      BY <1>12 DEF Collect, Shutdown, Collected
    <2>5. child' \in [Child -> Stages]
      BY <1>12 DEF Collect, Shutdown, Collected
    <2>6. reaped' \subseteq Child /\ fell' \subseteq Child
      BY <1>12, Members DEF Collect, Shutdown, Collected
    <2>7. heard' \subseteq Child /\ killed' \subseteq Child
      BY <1>12, Members DEF Collect, Shutdown, Collected
    <2>8. QED
      BY <2>1, <2>2, <2>3, <2>4, <2>5, <2>6, <2>7
  <1>13. CASE Decide
    <2>1. pc' \in Early \cup Startup \cup Serving \cup Stop
                 \cup {"exited", "crashed"}
      BY <1>13 DEF Decide, Shutdown
    <2>2. turn' \in 0 .. N /\ started' \in 0 .. N
      BY <1>13 DEF Decide, Shutdown
    <2>3. late' \in BOOLEAN /\ terminating' \in BOOLEAN /\ pipe' \in BOOLEAN
      BY <1>13 DEF Decide, Shutdown
    <2>4. code' \in 0 .. 5
      BY <1>13 DEF Decide, Shutdown
    <2>5. child' \in [Child -> Stages]
      BY <1>13 DEF Decide, Shutdown
    <2>6. reaped' \subseteq Child /\ fell' \subseteq Child
      BY <1>13, Members DEF Decide, Shutdown
    <2>7. heard' \subseteq Child /\ killed' \subseteq Child
      BY <1>13, Members DEF Decide, Shutdown
    <2>8. QED
      BY <2>1, <2>2, <2>3, <2>4, <2>5, <2>6, <2>7
  <1>14. CASE Terminate
    <2>1. pc' \in Early \cup Startup \cup Serving \cup Stop
                 \cup {"exited", "crashed"}
      BY <1>14 DEF Terminate
    <2>2. turn' \in 0 .. N /\ started' \in 0 .. N
      BY <1>14 DEF Terminate
    <2>3. late' \in BOOLEAN /\ terminating' \in BOOLEAN /\ pipe' \in BOOLEAN
      BY <1>14 DEF Terminate
    <2>4. code' \in 0 .. 5
      BY <1>14 DEF Terminate
    <2>5. child' \in [Child -> Stages]
      BY <1>14 DEF Terminate
    <2>6. reaped' \subseteq Child /\ fell' \subseteq Child
      BY <1>14, Members DEF Terminate
    <2>7. heard' \subseteq Child /\ killed' \subseteq Child
      <3>1. \/ heard' = heard
            \/ turn \in Running /\ heard' = heard \cup {turn}
        BY <1>14 DEF Terminate
      <3>2. turn \in Running => turn \in Child
        BY Members
      <3>3. QED
        BY <3>1, <3>2, <1>14 DEF Terminate
    <2>8. QED
      BY <2>1, <2>2, <2>3, <2>4, <2>5, <2>6, <2>7
  <1>15. CASE AllTermed
    BY <1>15 DEF AllTermed
  <1>16. CASE Linger
    <2>1. pc' \in Early \cup Startup \cup Serving \cup Stop
                 \cup {"exited", "crashed"}
      BY <1>16 DEF Linger, Collected
    <2>2. turn' \in 0 .. N /\ started' \in 0 .. N
      BY <1>16 DEF Linger, Collected
    <2>3. late' \in BOOLEAN /\ terminating' \in BOOLEAN /\ pipe' \in BOOLEAN
      BY <1>16 DEF Linger, Collected
    <2>4. code' \in 0 .. 5
      BY <1>16 DEF Linger, Collected
    <2>5. child' \in [Child -> Stages]
      BY <1>16 DEF Linger, Collected
    <2>6. reaped' \subseteq Child /\ fell' \subseteq Child
      BY <1>16, Members DEF Linger, Collected
    <2>7. heard' \subseteq Child /\ killed' \subseteq Child
      BY <1>16, Members DEF Linger, Collected
    <2>8. QED
      BY <2>1, <2>2, <2>3, <2>4, <2>5, <2>6, <2>7
  <1>17. CASE GraceEnds
    BY <1>17 DEF GraceEnds
  <1>18. CASE Kill
    <2>1. pc' \in Early \cup Startup \cup Serving \cup Stop
                 \cup {"exited", "crashed"}
      BY <1>18 DEF Kill
    <2>2. turn' \in 0 .. N /\ started' \in 0 .. N
      BY <1>18 DEF Kill
    <2>3. late' \in BOOLEAN /\ terminating' \in BOOLEAN /\ pipe' \in BOOLEAN
      BY <1>18 DEF Kill
    <2>4. code' \in 0 .. 5
      BY <1>18 DEF Kill
    <2>5. child' \in [Child -> Stages]
      BY <1>18 DEF Kill
    <2>6. reaped' \subseteq Child /\ fell' \subseteq Child
      BY <1>18, Members DEF Kill
    <2>7. heard' \subseteq Child /\ killed' \subseteq Child
      <3>1. \/ killed' = killed
            \/ turn \in Running /\ killed' = killed \cup {turn}
        BY <1>18 DEF Kill
      <3>2. turn \in Running => turn \in Child
        BY Members
      <3>3. QED
        BY <3>1, <3>2, <1>18 DEF Kill
    <2>8. QED
      BY <2>1, <2>2, <2>3, <2>4, <2>5, <2>6, <2>7
  <1>19. CASE AllKilled
    BY <1>19 DEF AllKilled
  <1>20. CASE Exit
    BY <1>20 DEF Exit
  <1>21. CASE RequestStop
    BY <1>21 DEF RequestStop
  <1>22. CASE OrphanEnds
    BY <1>22 DEF OrphanEnds, ChildSignal
  <1>23. CASE Expires
    BY <1>23 DEF Expires
  <1>24. ASSUME NEW c \in Child, ~ Ended, LeadsSession(c)
        PROVE  TypeOK'
    BY <1>24 DEF LeadsSession, Enters
  <1>25. ASSUME NEW c \in Child, ~ Ended, Executes(c)
        PROVE  TypeOK'
    BY <1>25 DEF Executes, Enters
  <1>26. ASSUME NEW c \in Child, ~ Ended, Answers(c)
        PROVE  TypeOK'
    BY <1>26 DEF Answers, Enters
  <1>27. ASSUME NEW c \in Child, ~ Ended, Heeds(c)
        PROVE  TypeOK'
    BY <1>27 DEF Heeds, Enters
  <1>28. ASSUME NEW c \in Child, ~ Ended, Ends(c)
        PROVE  TypeOK'
    BY <1>28 DEF Ends, Zombie, ChildSignal
  <1>29. ASSUME NEW c \in Child, ~ Ended, Falls(c)
        PROVE  TypeOK'
    BY <1>29 DEF Falls, Zombie, ChildSignal
  <1>30. QED
    BY <1>1, <1>2, <1>3, <1>4, <1>5, <1>6, <1>7, <1>8, <1>9, <1>10, <1>11,
       <1>12, <1>13, <1>14, <1>15, <1>16, <1>17, <1>18, <1>19, <1>20,
       <1>21, <1>22, <1>23, <1>24, <1>25, <1>26, <1>27, <1>28, <1>29 DEF
       Next, Step, Environment

(* Children are started in their turn.                                     *)
LEMMA InTurnStep ==
  ASSUME TypeOK, InTurn, [Next]_vars
  PROVE  InTurn'
  <1> USE DEF TypeOK, InTurn, Early, Startup, Serving, Stop, own, kids,
          Child, Stages, Running, Zombies, Installed, Ended
  <1>1. CASE UNCHANGED vars
    BY <1>1 DEF vars
  <1>2. CASE ResolvePort
    BY <1>2 DEF ResolvePort, Check
  <1>3. CASE ProbeProxy
    BY <1>3 DEF ProbeProxy, Check
  <1>4. CASE VerifyBundle
    BY <1>4 DEF VerifyBundle, Check
  <1>5. CASE Spawn
    BY <1>5 DEF Spawn
  <1>6. CASE ForkFails
    BY <1>6 DEF ForkFails
  <1>7. CASE Ready
    BY <1>7 DEF Ready, Shutdown
  <1>8. CASE Probe
    BY <1>8 DEF Probe
  <1>9. CASE Wait
    BY <1>9 DEF Wait
  <1>10. CASE Reap
    BY <1>10 DEF Reap, Shutdown, Collected
  <1>11. CASE Serve
    BY <1>11 DEF Serve
  <1>12. CASE Collect
    BY <1>12 DEF Collect, Shutdown, Collected
  <1>13. CASE Decide
    BY <1>13 DEF Decide, Shutdown
  <1>14. CASE Terminate
    BY <1>14 DEF Terminate
  <1>15. CASE AllTermed
    BY <1>15 DEF AllTermed
  <1>16. CASE Linger
    BY <1>16 DEF Linger, Collected
  <1>17. CASE GraceEnds
    BY <1>17 DEF GraceEnds
  <1>18. CASE Kill
    BY <1>18 DEF Kill
  <1>19. CASE AllKilled
    BY <1>19 DEF AllKilled
  <1>20. CASE Exit
    BY <1>20 DEF Exit
  <1>21. CASE RequestStop
    BY <1>21 DEF RequestStop
  <1>22. CASE OrphanEnds
    BY <1>22 DEF OrphanEnds, ChildSignal
  <1>23. CASE Expires
    BY <1>23 DEF Expires
  <1>24. ASSUME NEW c \in Child, ~ Ended, LeadsSession(c)
        PROVE  InTurn'
    BY <1>24 DEF LeadsSession, Enters
  <1>25. ASSUME NEW c \in Child, ~ Ended, Executes(c)
        PROVE  InTurn'
    BY <1>25 DEF Executes, Enters
  <1>26. ASSUME NEW c \in Child, ~ Ended, Answers(c)
        PROVE  InTurn'
    BY <1>26 DEF Answers, Enters
  <1>27. ASSUME NEW c \in Child, ~ Ended, Heeds(c)
        PROVE  InTurn'
    BY <1>27 DEF Heeds, Enters
  <1>28. ASSUME NEW c \in Child, ~ Ended, Ends(c)
        PROVE  InTurn'
    <2>1. c \in heard \/ c \in killed
      BY <1>28 DEF Ends
    <2>2. pc \in Stop
      BY <2>1, <1>28
    <2>3. child' = [child EXCEPT ![c] = "zombie"] /\ child[c] # "none"
      <3>1. child' = [child EXCEPT ![c] = "zombie"]
        BY <1>28 DEF Ends, Zombie
      <3>2. pc \notin Early \cup Startup \cup Serving
        BY <2>2
      <3>3. c \in heard \cup killed => c <= started
        BY <1>28
      <3>4. QED
        BY <2>1, <3>1, <3>2, <3>3
    <2>4. UNCHANGED <<own, heard, killed>>
      BY <1>28 DEF Ends, Zombie
    <2>5. QED
      BY <2>2, <2>3, <2>4
  <1>29. ASSUME NEW c \in Child, ~ Ended, Falls(c)
        PROVE  InTurn'
    BY <1>29 DEF Falls, Zombie, ChildSignal
  <1>30. QED
    BY <1>1, <1>2, <1>3, <1>4, <1>5, <1>6, <1>7, <1>8, <1>9, <1>10, <1>11,
       <1>12, <1>13, <1>14, <1>15, <1>16, <1>17, <1>18, <1>19, <1>20,
       <1>21, <1>22, <1>23, <1>24, <1>25, <1>26, <1>27, <1>28, <1>29 DEF
       Next, Step, Environment

(* No death and no stop is missed.                                         *)
LEMMA MissedStep ==
  ASSUME TypeOK, InTurn, NothingMissed, [Next]_vars
  PROVE  NothingMissed'
  <1> USE DEF TypeOK, InTurn, NothingMissed, Early, Startup, Serving,
          Stop, own, kids, Child, Stages, Running, Zombies, Installed
  <1>1. CASE UNCHANGED vars
    BY <1>1 DEF vars
  <1>2. CASE ResolvePort
    BY <1>2 DEF ResolvePort, Check
  <1>3. CASE ProbeProxy
    BY <1>3 DEF ProbeProxy, Check
  <1>4. CASE VerifyBundle
    BY <1>4 DEF VerifyBundle, Check
  <1>5. CASE Spawn
    BY <1>5 DEF Spawn
  <1>6. CASE ForkFails
    BY <1>6 DEF ForkFails
  <1>7. CASE Ready
    BY <1>7 DEF Ready, Shutdown
  <1>8. CASE Probe
    BY <1>8 DEF Probe
  <1>9. CASE Wait
    BY <1>9 DEF Wait
  <1>10. CASE Reap
    <2>1. CASE Zombies # {}
      BY <2>1, <1>10 DEF Reap, Shutdown
    <2>2. CASE Zombies = {}
      <3>1. reaped' = {}
        BY <2>2, <1>10 DEF Reap, Collected
      <3>2. ASSUME NEW c \in Child, child[c] = "zombie" PROVE FALSE
        <4>1. c <= started
          BY <3>2
        <4>2. c \in Zombies
          <5>1. c \in 1 .. started /\ c \notin reaped
            BY <4>1, <1>10 DEF Reap
          <5>2. QED
            BY <5>1, <3>2 DEF Zombies, Running
        <4>3. QED
          BY <4>2, <2>2
      <3>3. QED
        BY <3>1, <3>2, <1>10 DEF Reap, Shutdown
    <2>3. QED
      BY <2>1, <2>2
  <1>11. CASE Serve
    BY <1>11 DEF Serve
  <1>12. CASE Collect
    BY <1>12 DEF Collect, Shutdown, Collected
  <1>13. CASE Decide
    BY <1>13 DEF Decide, Shutdown
  <1>14. CASE Terminate
    BY <1>14 DEF Terminate
  <1>15. CASE AllTermed
    BY <1>15 DEF AllTermed
  <1>16. CASE Linger
    BY <1>16 DEF Linger, Collected
  <1>17. CASE GraceEnds
    BY <1>17 DEF GraceEnds
  <1>18. CASE Kill
    BY <1>18 DEF Kill
  <1>19. CASE AllKilled
    BY <1>19 DEF AllKilled
  <1>20. CASE Exit
    BY <1>20 DEF Exit
  <1>21. CASE RequestStop
    BY <1>21 DEF RequestStop
  <1>22. CASE OrphanEnds
    BY <1>22 DEF OrphanEnds, ChildSignal
  <1>23. CASE Expires
    BY <1>23 DEF Expires
  <1>24. ASSUME NEW c \in Child, ~ Ended, LeadsSession(c)
        PROVE  NothingMissed'
    BY <1>24 DEF LeadsSession, Enters
  <1>25. ASSUME NEW c \in Child, ~ Ended, Executes(c)
        PROVE  NothingMissed'
    BY <1>25 DEF Executes, Enters
  <1>26. ASSUME NEW c \in Child, ~ Ended, Answers(c)
        PROVE  NothingMissed'
    BY <1>26 DEF Answers, Enters
  <1>27. ASSUME NEW c \in Child, ~ Ended, Heeds(c)
        PROVE  NothingMissed'
    BY <1>27 DEF Heeds, Enters
  <1>28. ASSUME NEW c \in Child, ~ Ended, Ends(c)
        PROVE  NothingMissed'
    BY <1>28 DEF Ends, Zombie, ChildSignal
  <1>29. ASSUME NEW c \in Child, ~ Ended, Falls(c)
        PROVE  NothingMissed'
    BY <1>29 DEF Falls, Zombie, ChildSignal
  <1>30. QED
    BY <1>1, <1>2, <1>3, <1>4, <1>5, <1>6, <1>7, <1>8, <1>9, <1>10, <1>11,
       <1>12, <1>13, <1>14, <1>15, <1>16, <1>17, <1>18, <1>19, <1>20,
       <1>21, <1>22, <1>23, <1>24, <1>25, <1>26, <1>27, <1>28, <1>29 DEF
       Next, Step, Environment

(* shutdown() accounts for each child in turn.                             *)
LEMMA AccountedStep ==
  ASSUME TypeOK, InTurn, Accounted, [Next]_vars
  PROVE  Accounted'
  <1> USE DEF TypeOK, InTurn, Accounted, Early, Startup, Serving, Stop,
          own, kids, Child, Stages, Running, Zombies, Installed, Ended
  <1>1. CASE UNCHANGED vars
    BY <1>1 DEF vars
  <1>2. CASE ResolvePort
    BY <1>2 DEF ResolvePort, Check
  <1>3. CASE ProbeProxy
    BY <1>3 DEF ProbeProxy, Check
  <1>4. CASE VerifyBundle
    BY <1>4 DEF VerifyBundle, Check
  <1>5. CASE Spawn
    BY <1>5 DEF Spawn
  <1>6. CASE ForkFails
    BY <1>6 DEF ForkFails
  <1>7. CASE Ready
    BY <1>7 DEF Ready, Shutdown
  <1>8. CASE Probe
    BY <1>8 DEF Probe
  <1>9. CASE Wait
    BY <1>9 DEF Wait
  <1>10. CASE Reap
    <2>1. reaped' \subseteq {c \in Child : child'[c] = "zombie"}
      <3>1. reaped' = reaped \cup Zombies /\ child' = child
        BY <1>10 DEF Reap, Collected
      <3>2. Zombies \subseteq {c \in Child : child[c] = "zombie"}
        BY Members DEF Zombies
      <3>3. QED
        BY <3>1, <3>2
    <2>2. QED
      BY <2>1, <1>10 DEF Reap, Shutdown, Collected
  <1>11. CASE Serve
    BY <1>11 DEF Serve
  <1>12. CASE Collect
    BY <1>12 DEF Collect, Shutdown, Collected
  <1>13. CASE Decide
    BY <1>13 DEF Decide, Shutdown
  <1>14. CASE Terminate
    BY <1>14 DEF Terminate
  <1>15. CASE AllTermed
    BY <1>15 DEF AllTermed
  <1>16. CASE Linger
    <2>1. reaped' \subseteq {c \in Child : child'[c] = "zombie"}
      <3>1. reaped' = reaped \cup Zombies /\ child' = child
        BY <1>16 DEF Linger, Collected
      <3>2. Zombies \subseteq {c \in Child : child[c] = "zombie"}
        BY Members DEF Zombies
      <3>3. QED
        BY <3>1, <3>2
    <2>2. QED
      BY <2>1, <1>16 DEF Linger, Collected
  <1>17. CASE GraceEnds
    BY <1>17 DEF GraceEnds
  <1>18. CASE Kill
    BY <1>18 DEF Kill
  <1>19. CASE AllKilled
    BY <1>19 DEF AllKilled
  <1>20. CASE Exit
    BY <1>20 DEF Exit
  <1>21. CASE RequestStop
    BY <1>21 DEF RequestStop
  <1>22. CASE OrphanEnds
    BY <1>22 DEF OrphanEnds, ChildSignal
  <1>23. CASE Expires
    BY <1>23 DEF Expires
  <1>24. ASSUME NEW c \in Child, ~ Ended, LeadsSession(c)
        PROVE  Accounted'
    BY <1>24 DEF LeadsSession, Enters
  <1>25. ASSUME NEW c \in Child, ~ Ended, Executes(c)
        PROVE  Accounted'
    BY <1>25 DEF Executes, Enters
  <1>26. ASSUME NEW c \in Child, ~ Ended, Answers(c)
        PROVE  Accounted'
    BY <1>26 DEF Answers, Enters
  <1>27. ASSUME NEW c \in Child, ~ Ended, Heeds(c)
        PROVE  Accounted'
    <2>1. CASE Enters(c, "starting", "draining")
      BY <2>1 DEF Enters
    <2>2. CASE Enters(c, "serving", "draining")
      BY <2>2 DEF Enters
    <2>3. QED
      BY <2>1, <2>2, <1>27 DEF Heeds
  <1>28. ASSUME NEW c \in Child, ~ Ended, Ends(c)
        PROVE  Accounted'
    BY <1>28 DEF Ends, Zombie, ChildSignal
  <1>29. ASSUME NEW c \in Child, ~ Ended, Falls(c)
        PROVE  Accounted'
    BY <1>29 DEF Falls, Zombie, ChildSignal
  <1>30. QED
    BY <1>1, <1>2, <1>3, <1>4, <1>5, <1>6, <1>7, <1>8, <1>9, <1>10, <1>11,
       <1>12, <1>13, <1>14, <1>15, <1>16, <1>17, <1>18, <1>19, <1>20,
       <1>21, <1>22, <1>23, <1>24, <1>25, <1>26, <1>27, <1>28, <1>29 DEF
       Next, Step, Environment

(* ... and so leaves none behind.                                          *)
LEMMA LeftStep ==
  ASSUME TypeOK, InTurn, Accounted, NoneLeftBehind, [Next]_vars
  PROVE  NoneLeftBehind'
  <1> USE DEF TypeOK, InTurn, Accounted, NoneLeftBehind, Early, Startup,
          Serving, Stop, own, kids, Child, Running, Ended
  <1>1. CASE UNCHANGED vars
    BY <1>1 DEF vars
  <1>2. CASE ResolvePort
    BY <1>2 DEF ResolvePort, Check
  <1>3. CASE ProbeProxy
    BY <1>3 DEF ProbeProxy, Check
  <1>4. CASE VerifyBundle
    BY <1>4 DEF VerifyBundle, Check
  <1>5. CASE Spawn
    BY <1>5 DEF Spawn
  <1>6. CASE ForkFails
    BY <1>6 DEF ForkFails
  <1>7. CASE Ready
    BY <1>7 DEF Ready, Shutdown
  <1>8. CASE Probe
    BY <1>8 DEF Probe
  <1>9. CASE Wait
    BY <1>9 DEF Wait
  <1>10. CASE Reap
    BY <1>10 DEF Reap, Shutdown, Collected
  <1>11. CASE Serve
    BY <1>11 DEF Serve
  <1>12. CASE Collect
    BY <1>12 DEF Collect, Shutdown, Collected
  <1>13. CASE Decide
    BY <1>13 DEF Decide, Shutdown
  <1>14. CASE Terminate
    BY <1>14 DEF Terminate
  <1>15. CASE AllTermed
    BY <1>15 DEF AllTermed
  <1>16. CASE Linger
    BY <1>16 DEF Linger, Collected
  <1>17. CASE GraceEnds
    BY <1>17 DEF GraceEnds
  <1>18. CASE Kill
    BY <1>18 DEF Kill
  <1>19. CASE AllKilled
    BY <1>19 DEF AllKilled
  <1>20. CASE Exit
    BY <1>20 DEF Exit
  <1>21. CASE RequestStop
    BY <1>21 DEF RequestStop
  <1>22. CASE OrphanEnds
    BY <1>22 DEF OrphanEnds, ChildSignal
  <1>23. CASE Expires
    BY <1>23 DEF Expires
  <1>24. ASSUME NEW c \in Child, ~ Ended, LeadsSession(c)
        PROVE  NoneLeftBehind'
    BY <1>24 DEF LeadsSession, Enters
  <1>25. ASSUME NEW c \in Child, ~ Ended, Executes(c)
        PROVE  NoneLeftBehind'
    BY <1>25 DEF Executes, Enters
  <1>26. ASSUME NEW c \in Child, ~ Ended, Answers(c)
        PROVE  NoneLeftBehind'
    BY <1>26 DEF Answers, Enters
  <1>27. ASSUME NEW c \in Child, ~ Ended, Heeds(c)
        PROVE  NoneLeftBehind'
    BY <1>27 DEF Heeds, Enters
  <1>28. ASSUME NEW c \in Child, ~ Ended, Ends(c)
        PROVE  NoneLeftBehind'
    BY <1>28 DEF Ends, Zombie, ChildSignal
  <1>29. ASSUME NEW c \in Child, ~ Ended, Falls(c)
        PROVE  NoneLeftBehind'
    BY <1>29 DEF Falls, Zombie, ChildSignal
  <1>30. QED
    BY <1>1, <1>2, <1>3, <1>4, <1>5, <1>6, <1>7, <1>8, <1>9, <1>10, <1>11,
       <1>12, <1>13, <1>14, <1>15, <1>16, <1>17, <1>18, <1>19, <1>20,
       <1>21, <1>22, <1>23, <1>24, <1>25, <1>26, <1>27, <1>28, <1>29 DEF
       Next, Step, Environment

-----------------------------------------------------------------------------
(* The inductive invariant: what each point of the supervisor's program    *)
(* knows of its children, of the pipe and of the stop asked for.           *)
THEOREM Invariant == Spec => []IInv
  <1>1. Init => IInv
    <2> SUFFICES ASSUME Init PROVE IInv
      OBVIOUS
    <2>1. TypeOK
      <3>1. child \in [Child -> Stages]
        BY DEF Init, Stages
      <3>2. pc = "port" /\ turn = 0 /\ started = 0 /\ code = 0
            /\ late = FALSE /\ terminating = FALSE /\ pipe = FALSE
        BY DEF Init, EXIT_OK
      <3>3. reaped = {} /\ fell = {} /\ heard = {} /\ killed = {}
        BY DEF Init
      <3>4. /\ turn \in 0 .. N /\ started \in 0 .. N /\ code \in 0 .. 5
            /\ reaped \subseteq Child /\ fell \subseteq Child
            /\ heard \subseteq Child /\ killed \subseteq Child
        BY <3>2, <3>3
      <3>5. pc \in Early
        BY <3>2 DEF Early
      <3>6. QED
        BY <3>1, <3>2, <3>4, <3>5 DEF TypeOK
    <2>2. InTurn
      BY DEF Init, InTurn, Child, Early, Startup, Serving, Stop
    <2>3. NothingMissed
      BY DEF Init, NothingMissed, Early, Startup, Serving
    <2>4. Accounted /\ NoneLeftBehind
      BY DEF Init, Accounted, NoneLeftBehind
    <2>5. QED
      BY <2>1, <2>2, <2>3, <2>4 DEF IInv
  <1>2. IInv /\ [Next]_vars => IInv'
    BY TypeStep, InTurnStep, MissedStep, AccountedStep, LeftStep DEF IInv
  <1>3. QED
    BY <1>1, <1>2, PTL DEF Spec

(* Every variable keeps its type.                                          *)
THEOREM TypeCorrect == Spec => []TypeOK
  <1>1. IInv => TypeOK
    BY DEF IInv
  <1>2. QED
    BY <1>1, Invariant, PTL

(* The supervisor sleeps without a timeout only while every child serves   *)
(* and no stop is waiting: no signal is lost.                              *)
THEOREM SleepsOnlyWhileServing == Spec => []QuietMeansServing
  <1>1. IInv => QuietMeansServing
    BY DEF IInv, TypeOK, InTurn, NothingMissed, QuietMeansServing,
           Startup, Serving
  <1>2. QED
    BY <1>1, Invariant, PTL

(* Whatever way it came to stop, run() returns with every child it started *)
(* ended or killed.                                                        *)
THEOREM NobodyLeftBehind == Spec => []NoneLeftBehind
  <1>1. IInv => NoneLeftBehind
    BY DEF IInv
  <1>2. QED
    BY <1>1, Invariant, PTL
=============================================================================
