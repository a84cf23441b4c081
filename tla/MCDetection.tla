---------------------------- MODULE MCDetection -----------------------------
EXTENDS Detection

Quiet ==
  [outcome |-> "failure", mfa |-> "none", baseline |-> FALSE, newDevice |-> FALSE,
   newCountry |-> FALSE, otherNew |-> 0, pairFailures |-> 0, pairAttempts |-> 0,
   userFailures |-> 0, sourceUsers |-> 1, consecutive |-> 0, gap |-> Null, blocked |-> 0,
   pairBurst |-> 0, userBurst |-> 0, previous |-> "success", since |-> 600,
   hourUsers |-> 1, hourFailures |-> 0, hourAttempts |-> 60, hourSuccesses |-> 0,
   hourDevices |-> 1, hourAgents |-> 1, hourUserSources |-> 1, hourUserFailures |-> 0,
   hourUserAttempts |-> 60, hourPairAttempts |-> 0, deviations |-> 0, geo |-> "missing",
   distance |-> Null, speed |-> "missing", velocity |-> Null, cov |-> Null, mean |-> Null,
   quarterAttempts |-> 0, quarterUserAttempts |-> 0, mfaFailures |-> 0, challenges |-> 0]

(* A run of failures of one source on one account, up to a success; many   *)
(* sources on it; one source on many accounts; a session that looks taken. *)
Guessing ==
  {[Quiet EXCEPT !.outcome = o, !.pairFailures = n, !.pairAttempts = n, !.userFailures = n,
                 !.consecutive = n, !.previous = "failure", !.since = 5, !.pairBurst = b,
                 !.userBurst = n, !.sourceUsers = u, !.hourUsers = 4, !.hourFailures = n,
                 !.hourUserFailures = n, !.hourPairAttempts = p, !.blocked = k] :
     o \in {"failure", "success"}, n \in {7, 8}, b \in {5, 6}, u \in {3, 4},
     p \in {5, 8}, k \in {0, 2}}
Distributing ==
  {[Quiet EXCEPT !.hourUserSources = s, !.hourUserFailures = f, !.hourUserAttempts = 25,
                 !.hourPairAttempts = p, !.hourUsers = u, !.hourFailures = 20,
                 !.hourAttempts = 45, !.hourSuccesses = 1, !.baseline = TRUE,
                 !.newDevice = TRUE, !.hourDevices = 3] :
     s \in {7, 8}, f \in {19, 20}, p \in {5, 6}, u \in {3, 4, 15}}
Spreading ==
  {[Quiet EXCEPT !.hourUsers = u, !.hourFailures = f, !.hourAttempts = f + 2,
                 !.hourSuccesses = 1, !.baseline = b, !.newDevice = b, !.hourAgents = a,
                 !.hourUserAttempts = 2, !.cov = 150, !.mean = 60, !.quarterAttempts = 20] :
     u \in {10, 15}, f \in {15, 44}, b \in BOOLEAN, a \in {2, 3}}
Sessions ==
  {[Quiet EXCEPT !.outcome = o, !.baseline = TRUE, !.newDevice = TRUE, !.otherNew = n,
                 !.deviations = 2, !.mfa = "failed", !.mfaFailures = m, !.challenges = m,
                 !.quarterUserAttempts = 8, !.previous = "failure", !.since = 60,
                 !.consecutive = 3, !.userBurst = 8, !.userFailures = 3,
                 !.hourUserFailures = 3, !.geo = "ok", !.distance = 800, !.speed = s,
                 !.velocity = 900] :
     o \in {"failure", "success"}, n \in {0, 1}, m \in {3, 4},
     s \in {"ok", "zero_elapsed"}}

(* An account that comes back, after whatever came last: nothing yet, a    *)
(* success without any failure before it, a block, a failure; and a source *)
(* whose own burst no success of another source has ended.                 *)
Returning ==
  {[Quiet EXCEPT !.outcome = "success", !.previous = o, !.since = t, !.consecutive = c,
                 !.pairBurst = b, !.userBurst = n] :
     o \in {"none", "success", "blocked", "failure"}, t \in {Null, 5, 301}, c \in {0, 3},
     b \in {0, 6}, n \in {0, 3, 8}}

MCViews ==
  {v \in {Quiet} \cup Guessing \cup Distributing \cup Spreading \cup Sessions \cup Returning :
     Coherent(v)}

MCSettings ==
  {[reducer |-> "max", zeroElapsed |-> "insufficient", enabled |-> Catalog \ {BOT1}],
   [reducer |-> "bounded_sum", zeroElapsed |-> "fire", enabled |-> Catalog \ {MFA1, PS1}],
   [reducer |-> "bounded_sum", zeroElapsed |-> "fire", enabled |-> Catalog \ {BF1, GEO1}]}
=============================================================================
