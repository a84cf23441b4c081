----------------------------- MODULE Supervisor -----------------------------
(***************************************************************************)
(* PID 1 of the single-container deployment, scripts/render_entrypoint.py: *)
(* it checks that it can serve at all, starts its children one after the   *)
(* other, waits for each to answer a probe, then blocks in select() on a   *)
(* pipe its signal handlers write to, until a child ends or a stop is      *)
(* asked for; either way it stops every child and exits.                   *)
(*                                                                         *)
(* The children are numbered in the order they are started: 1 is the API,  *)
(* 2 the console, 3 the proxy.  The kernel, the children and the clock are *)
(* the environment: a child forks, leads a session of its own, executes,   *)
(* serves, and may end at any time.                                        *)
(***************************************************************************)
EXTENDS Integers

CONSTANT N   \* how many children there are

ASSUME SupervisorAssumption == N \in Nat \ {0}

Child == 1 .. N

EXIT_OK == 0
EXIT_STARTUP_FAILED == 1
EXIT_BAD_PORT == 2
EXIT_BUNDLE_UNVERIFIED == 3
EXIT_CHILD_DIED == 4
EXIT_PROXY_UNAVAILABLE == 5

VARIABLES
  pc,          \* where the supervisor is
  turn,        \* the last child appended to Supervisor.children, or the one
               \* that shutdown() looks at next
  started,     \* len(Supervisor.children)
  terminating, \* Supervisor.terminating
  pipe,        \* a byte waits in the self-pipe
  late,        \* the deadline of the loop it is in has passed
  code,        \* what run() returns
  child,       \* what each process is doing
  reaped,      \* the children whose status is set
  fell,        \* the children that ended without being told to
  heard,       \* the children that SIGTERM has reached
  killed       \* the children that SIGKILL has reached

own    == <<pc, turn, started, late, code>>
kids   == <<child, reaped, fell, heard, killed>>
vars   == <<own, terminating, pipe, kids>>

Stages  == {"none", "forked", "session", "starting", "serving", "draining", "zombie"}
Early   == {"port", "proxy", "verify"}
Startup == {"spawn", "ready", "probe", "wait", "reap"}
Serving == {"serve", "collect", "decide"}
Stop    == {"term", "grace", "kill", "drain"}
Ended   == pc \in {"exited", "crashed"}

(* The signal handlers are installed when Supervisor() is built.           *)
Installed == pc \in Startup \cup Serving \cup Stop

Running == {c \in 1 .. started : c \notin reaped}   \* Child.running
Zombies == {c \in Running : child[c] = "zombie"}

Init ==
  /\ pc = "port" /\ turn = 0 /\ started = 0 /\ late = FALSE /\ code = EXIT_OK
  /\ terminating = FALSE /\ pipe = FALSE
  /\ child = [c \in Child |-> "none"]
  /\ reaped = {} /\ fell = {} /\ heard = {} /\ killed = {}

-----------------------------------------------------------------------------
(* Faults, for the checks only: plausible slips in the definitions below.  *)

HandlerIgnoring == UNCHANGED pipe             \* SIG_IGN for SIGCHLD
StopUnwoken ==                                \* no wakeup descriptor
  /\ Installed
  /\ terminating' = TRUE
  /\ UNCHANGED <<own, pipe, kids>>
-----------------------------------------------------------------------------
(* The environment.                                                        *)

(* The handler of SIGCHLD does nothing; its byte reaches the pipe.         *)
ChildSignal == pipe' = TRUE

Enters(c, from, to) ==
  /\ child[c] = from
  /\ child' = [child EXCEPT ![c] = to]
  /\ UNCHANGED <<own, terminating, pipe, reaped, fell, heard, killed>>

(* The forked child: setsid(), then the handlers reset and execv().        *)
LeadsSession(c) == Enters(c, "forked", "session")
Executes(c)     == Enters(c, "session", "starting")
Answers(c)      == Enters(c, "starting", "serving")
Heeds(c)        == c \in heard /\ (Enters(c, "starting", "draining") \/ Enters(c, "serving", "draining"))

Zombie(c) ==
  /\ child' = [child EXCEPT ![c] = "zombie"]
  /\ ChildSignal
  /\ UNCHANGED <<own, terminating, reaped, heard, killed>>

(* A child ends as it was told to.                                         *)
Ends(c) ==
  /\ child[c] = "draining" \/ (c \in killed /\ child[c] # "zombie")
  /\ Zombie(c)
  /\ UNCHANGED fell

(* A child ends by itself, a failed execv() (CHILD_EXEC_FAILED) included.  *)
Falls(c) ==
  /\ child[c] \in {"forked", "session", "starting", "serving"}
  /\ Zombie(c)
  /\ fell' = fell \cup {c}

(* An orphan that PID 1 has inherited ends; reap() drops its status.       *)
OrphanEnds ==
  /\ Installed
  /\ ChildSignal
  /\ UNCHANGED <<own, terminating, kids>>

(* SIGTERM or SIGINT: _request_stop, and a byte in the pipe.  Before the   *)
(* handlers are installed the kernel discards it, as for any PID 1.        *)
RequestStop ==
  /\ Installed
  /\ terminating' = TRUE
  /\ pipe' = TRUE
  /\ UNCHANGED <<own, kids>>

(* time.monotonic() passes the deadline of the current loop.  The grace    *)
(* period of 25 seconds is longer than a forked child takes to execute.    *)
Expires ==
  /\ pc \in {"ready", "probe", "wait", "reap", "grace", "drain"}
  /\ ~ late
  /\ pc = "grace" => \A c \in Child : child[c] \notin {"forked", "session"}
  /\ late' = TRUE
  /\ UNCHANGED <<pc, turn, started, code, terminating, pipe, kids>>

-----------------------------------------------------------------------------
(* Before anything is forked.                                              *)

Check(here, there, refusal) ==
  /\ pc = here
  /\ \/ pc' = there /\ UNCHANGED code
     \/ pc' = "exited" /\ code' = refusal
  /\ UNCHANGED <<turn, started, late, terminating, pipe, kids>>

ResolvePort  == Check("port", "proxy", EXIT_BAD_PORT)
ProbeProxy   == Check("proxy", "verify", EXIT_PROXY_UNAVAILABLE)
VerifyBundle == Check("verify", "spawn", EXIT_BUNDLE_UNVERIFIED)

(* spawn() and the start of await_ready(), with its own deadline.          *)
Spawn ==
  /\ pc = "spawn"
  /\ started' = started + 1 /\ turn' = started + 1
  /\ child' = [child EXCEPT ![started + 1] = "forked"]
  /\ pc' = "ready" /\ late' = FALSE
  /\ UNCHANGED <<code, terminating, pipe, reaped, fell, heard, killed>>

(* fork() fails: no handler in run() catches an OSError, the process ends  *)
(* with a traceback and the kernel kills what is left in the container.    *)
ForkFails ==
  /\ pc = "spawn"
  /\ pc' = "crashed" /\ code' = EXIT_STARTUP_FAILED
  /\ UNCHANGED <<turn, started, late, terminating, pipe, kids>>

-----------------------------------------------------------------------------
(* shutdown() begins with the newest child; run() then returns answer.     *)
Shutdown(answer) ==
  /\ pc' = "term" /\ turn' = started /\ late' = FALSE /\ code' = answer
  /\ UNCHANGED started

(* The top of await_ready()'s loop: a stop comes before the next probe.    *)
Ready ==
  /\ pc = "ready"
  /\ \/ terminating /\ Shutdown(EXIT_OK)
     \/ ~ terminating /\ pc' = "probe" /\ UNCHANGED <<turn, started, late, code>>
  /\ UNCHANGED <<terminating, pipe, kids>>

(* A probe is answered only by a child that serves, and may fail even then.*)
Probe ==
  /\ pc = "probe"
  /\ \/ child[turn] = "serving" /\ pc' = (IF turn = N THEN "serve" ELSE "spawn")
     \/ pc' = "wait"
  /\ UNCHANGED <<turn, started, late, code, terminating, pipe, kids>>

(* wait_for_event(): a byte is there and is drained, or the time is out.   *)
Wait ==
  /\ pc = "wait"
  /\ pipe' = FALSE
  /\ pc' = "reap"
  /\ UNCHANGED <<turn, started, late, code, terminating, kids>>

Collected == reaped' = reaped \cup Zombies   \* reap()

(* await_ready() after its wait: any death, then the deadline.             *)
Reap ==
  /\ pc = "reap"
  /\ Collected
  /\ \/ Zombies # {} /\ Shutdown(EXIT_STARTUP_FAILED)
     \/ Zombies = {} /\ late /\ Shutdown(EXIT_STARTUP_FAILED)
     \/ Zombies = {} /\ ~ late /\ pc' = "ready" /\ UNCHANGED <<turn, started, late, code>>
  /\ UNCHANGED <<terminating, pipe, child, fell, heard, killed>>

(* Everything serves: select() without a timeout returns on a byte only.   *)
Serve ==
  /\ pc = "serve" /\ pipe
  /\ pipe' = FALSE
  /\ pc' = "collect"
  /\ UNCHANGED <<turn, started, late, code, terminating, kids>>

Collect ==
  /\ pc = "collect"
  /\ Collected
  /\ \/ Zombies # {} /\ Shutdown(EXIT_CHILD_DIED)
     \/ Zombies = {} /\ pc' = "decide" /\ UNCHANGED <<turn, started, late, code>>
  /\ UNCHANGED <<terminating, pipe, child, fell, heard, killed>>

Decide ==
  /\ pc = "decide"
  /\ \/ terminating /\ Shutdown(EXIT_OK)
     \/ ~ terminating /\ pc' = "serve" /\ UNCHANGED <<turn, started, late, code>>
  /\ UNCHANGED <<terminating, pipe, kids>>

-----------------------------------------------------------------------------
(* signal_group(SIGTERM).  A child that leads no group yet is not found    *)
(* (ESRCH is swallowed); one that still has this program's handlers loses  *)
(* the signal to them, and they write to the pipe it has inherited.        *)
Terminate ==
  /\ pc = "term" /\ turn > 0
  /\ turn' = turn - 1
  /\ IF turn \in Running /\ child[turn] \notin {"forked", "session"}
       THEN heard' = heard \cup {turn}
       ELSE UNCHANGED heard
  /\ pipe' = (pipe \/ (turn \in Running /\ child[turn] = "session"))
  /\ UNCHANGED <<pc, started, late, code, terminating, child, reaped, fell, killed>>

AllTermed ==
  /\ pc = "term" /\ turn = 0
  /\ pc' = "grace" /\ late' = FALSE
  /\ UNCHANGED <<turn, started, code, terminating, pipe, kids>>

(* One pass of a waiting loop of shutdown(): wait_for_event, reap.         *)
Linger ==
  /\ pc \in {"grace", "drain"} /\ Running # {} /\ ~ late
  /\ pipe' = FALSE
  /\ Collected
  /\ UNCHANGED <<own, terminating, child, fell, heard, killed>>

(* Fault: those that outlast the grace period are left to the kernel.      *)
GraceEndsQuietly ==
  /\ pc = "grace" /\ (Running = {} \/ late)
  /\ pc' = "drain" /\ turn' = started /\ late' = FALSE
  /\ UNCHANGED <<started, code, terminating, pipe, kids>>

GraceEnds ==
  /\ pc = "grace" /\ (Running = {} \/ late)
  /\ pc' = "kill" /\ turn' = started
  /\ UNCHANGED <<started, late, code, terminating, pipe, kids>>

(* signal_group(SIGKILL) to whoever is left, newest first.                 *)
Kill ==
  /\ pc = "kill" /\ turn > 0
  /\ turn' = turn - 1
  /\ IF turn \in Running /\ child[turn] # "forked"
       THEN killed' = killed \cup {turn}
       ELSE UNCHANGED killed
  /\ UNCHANGED <<pc, started, late, code, terminating, pipe, child, reaped, fell, heard>>

AllKilled ==
  /\ pc = "kill" /\ turn = 0
  /\ pc' = "drain" /\ late' = FALSE
  /\ UNCHANGED <<turn, started, code, terminating, pipe, kids>>

Exit ==
  /\ pc = "drain" /\ (Running = {} \/ late)
  /\ pc' = "exited"
  /\ UNCHANGED <<turn, started, late, code, terminating, pipe, kids>>

-----------------------------------------------------------------------------
Step ==
  \/ ResolvePort \/ ProbeProxy \/ VerifyBundle \/ Spawn \/ ForkFails
  \/ Ready \/ Probe \/ Wait \/ Reap \/ Serve \/ Collect \/ Decide
  \/ Terminate \/ AllTermed \/ Linger \/ GraceEnds \/ Kill \/ AllKilled \/ Exit

(* Nothing happens to the children of a supervisor that has ended: the     *)
(* kernel kills them with it.                                              *)
Environment ==
  \/ RequestStop \/ OrphanEnds \/ Expires
  \/ /\ ~ Ended
     /\ \E c \in Child : \/ LeadsSession(c) \/ Executes(c) \/ Answers(c)
                         \/ Heeds(c) \/ Ends(c) \/ Falls(c)

Next == Step \/ Environment

Spec == Init /\ [][Next]_vars

(* The kernel runs the supervisor whenever it can go on, its clock         *)
(* advances, and a forked child reaches its program.  No child is assumed  *)
(* to start serving, to heed a signal or to end.                           *)
Fairness ==
  /\ WF_vars(Step)
  /\ WF_vars(Expires)
  /\ \A c \in Child : WF_vars(~ Ended /\ (LeadsSession(c) \/ Executes(c)))

LiveSpec == Spec /\ Fairness

-----------------------------------------------------------------------------
TypeOK ==
  /\ pc \in Early \cup Startup \cup Serving \cup Stop \cup {"exited", "crashed"}
  /\ turn \in 0 .. N /\ started \in 0 .. N
  /\ terminating \in BOOLEAN /\ pipe \in BOOLEAN /\ late \in BOOLEAN
  /\ code \in 0 .. 5
  /\ child \in [Child -> Stages]
  /\ reaped \subseteq Child /\ fell \subseteq Child
  /\ heard \subseteq Child /\ killed \subseteq Child

(* No signal is lost: while the supervisor sleeps without a timeout and no *)
(* byte is there to wake it, every child is serving and nobody has asked   *)
(* for a stop.  The drain comes before the reap and before the look at     *)
(* terminating, in both loops and across the passage from one to the other *)
(* (wait_for_event, await_ready, run).                                     *)
QuietMeansServing ==
  pc = "serve" /\ ~ pipe =>
    ~ terminating /\ \A c \in Child : child[c] = "serving"

(* When run() returns, every child it started has ended or has been sent   *)
(* SIGKILL: a child that ignores SIGTERM does not outlive the two          *)
(* deadlines of shutdown().                                                *)
NoneLeftBehind ==
  pc = "exited" => \A c \in 1 .. started : child[c] = "zombie" \/ c \in killed

(* A stop that is asked for once the handlers are there ends the           *)
(* container, from whatever point of the start-up or of the shutdown.      *)
StopEnds == terminating ~> Ended

(* If a child ends by itself, during the start-up or later, the container  *)
(* ends: nothing keeps half a deployment running.                          *)
FallEnds == (fell # {}) ~> Ended

(* What docs/render-deployment.md says of a stop: a child stops accepting  *)
(* before one that was started earlier goes away.  shutdown() signals them *)
(* in that order but waits for none of them in between, so it does not     *)
(* hold even of a stop that every child has heard and none has resisted.   *)
StopsInOrder ==
  heard = Child /\ fell = {} /\ killed = {} =>
    \A a, b \in Child : a < b /\ child[b] = "serving" => child[a] # "zombie"
=============================================================================
