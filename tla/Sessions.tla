------------------------------ MODULE Sessions ------------------------------
(***************************************************************************)
(* Browser sessions of galaxyd (app.rs): local and OIDC logins, the pending*)
(* OIDC transactions, configuration reload behind auth_gate, logout, and   *)
(* the revalidation of OIDC sessions by refresh tasks that run detached    *)
(* from the requests that need them.                                       *)
(*                                                                         *)
(* Configurations are numbered by the reloads that brought them.  Passwords*)
(* and tokens are reduced to whether they are accepted; a refresh token is *)
(* its number in the chain of rotations.                                   *)
(***************************************************************************)
EXTENDS Naturals, FiniteSets

CONSTANTS
  Logins,       \* runs of local_login_submit, oidc_login or oidc_callback;
                \* the id of a session or transaction is the run that made it
  Requests,     \* requests that carry a session cookie
  SessionLimit, \* sessions kept (4096 in the code)
  PendingLimit, \* pending OIDC transactions kept (4096 in the code)
  RefreshSlots, \* permits of refresh_slots (8 in the code)
  SessionTTL, PendingTTL, \* session_ttl, 300 s
  Interval,     \* refresh_interval of each configuration
  MaxClock,     \* bound: the clock stops there
  MaxReloads,   \* bound: number of reloads
  None

Generations == 0 .. MaxReloads

ASSUME SessionsAssumption ==
  /\ {SessionLimit, PendingLimit, RefreshSlots} \subseteq Nat \ {0}
  /\ {SessionTTL, PendingTTL, MaxClock, MaxReloads} \subseteq Nat
  /\ Interval \in [Generations -> Nat \ {0}]
  /\ None \notin Logins \cup Requests

VARIABLES
  clock,
  gate,       \* "free", or the step that a reload holding auth_gate is at
  config,     \* number of the configuration in force
  generation, \* the counter that auth_gate guards
  sessions,   \* Logins -> session or None
  pending,    \* Logins -> pending OIDC transaction or None
  login,      \* Logins -> the local variables of the run
  request,    \* Requests -> the local variables of the request
  task,       \* Requests -> the refresh task the request spawned
  lock,       \* Logins -> the task that holds the session's refresh_lock
  received    \* history: Logins -> the provider's latest refresh token, None if the
              \* answer that brought it was of no use

vars == <<clock, gate, config, generation, sessions, pending, login, request,
          task, lock, received>>

Times == 0 .. MaxClock
Tokens == Nat

Session == [source : {"local", "oidc"}, began : Generations, config : Generations,
            checked : Times, expires : Nat, token : Tokens \cup {None}]
Pending == [expires : Nat, generation : Generations]
LoginSteps == {"idle", "config", "insert", "take", "verify",
               "exchange", "remember", "done"}
Login == [step : LoginSteps, kind : {None, "local", "oidc_login", "oidc_callback"},
          generation : Generations, config : Generations, from : Logins \cup {None}]
RequestSteps == {"idle", "waiting", "final", "granted", "denied", "unavailable",
                 "gone"}
Request == [step : RequestSteps, id : Logins \cup {None}, start : Times,
            config : Generations, checked : Times \cup {None}]
TaskSteps == {"none", "lock", "recheck", "slot", "gate", "config", "present", "save",
              "userinfo", "update", "revoke", "done"}
Task == [step : TaskSteps, generation : Generations, config : Generations,
         token : Tokens \cup {None}, result : {"none", "ok", "unavailable"}]

TypeOK ==
  /\ clock \in Times
  /\ gate \in {"free", "generation", "sessions", "pending"}
  /\ config \in Generations
  /\ generation \in Generations
  /\ sessions \in [Logins -> Session \cup {None}]
  /\ pending \in [Logins -> Pending \cup {None}]
  /\ login \in [Logins -> Login]
  /\ request \in [Requests -> Request]
  /\ task \in [Requests -> Task]
  /\ lock \in [Logins -> Requests \cup {None}]
  /\ received \in [Logins -> Tokens \cup {None}]

NoTask == [step |-> "none", generation |-> 0, config |-> 0, token |-> None,
           result |-> "none"]

Init ==
  /\ clock = 0
  /\ gate = "free"
  /\ config = 0
  /\ generation = 0
  /\ sessions = [l \in Logins |-> None]
  /\ pending = [l \in Logins |-> None]
  /\ login = [l \in Logins |-> [step |-> "idle", kind |-> None, generation |-> 0,
                                config |-> 0, from |-> None]]
  /\ request = [r \in Requests |-> [step |-> "idle", id |-> None, start |-> 0,
                                    config |-> 0, checked |-> None]]
  /\ task = [r \in Requests |-> NoTask]
  /\ lock = [l \in Logins |-> None]
  /\ received = [l \in Logins |-> 0]

session_expired(s) == s.expires <= clock

Live == {l \in Logins : sessions[l] # None}
Expired == {l \in Live : session_expired(sessions[l])}

Tick ==
  /\ clock < MaxClock
  /\ clock' = clock + 1
  /\ UNCHANGED <<gate, config, generation, sessions, pending, login, request,
                 task, lock, received>>

-----------------------------------------------------------------------------
(* apply_reload, which holds auth_gate for writing throughout.  Readers of *)
(* the gate wait; readers of the configuration, the sessions and the       *)
(* pending transactions do not.                                            *)

ReloadConfig ==
  /\ gate = "free"
  /\ config < MaxReloads
  /\ config' = config + 1
  /\ gate' = "generation"
  /\ UNCHANGED <<clock, generation, sessions, pending, login, request, task, lock,
                 received>>

ReloadGeneration ==
  /\ gate = "generation"
  /\ generation' = generation + 1
  /\ gate' = "sessions"
  /\ UNCHANGED <<clock, config, sessions, pending, login, request, task, lock,
                 received>>

ReloadClearSessions ==
  /\ gate = "sessions"
  /\ sessions' = [l \in Logins |-> None]
  /\ gate' = "pending"
  /\ UNCHANGED <<clock, config, generation, pending, login, request, task, lock,
                 received>>

ReloadClearPending ==
  /\ gate = "pending"
  /\ pending' = [l \in Logins |-> None]
  /\ gate' = "free"
  /\ UNCHANGED <<clock, config, generation, sessions, login, request, task, lock,
                 received>>

apply_reload ==
  ReloadConfig \/ ReloadGeneration \/ ReloadClearSessions \/ ReloadClearPending

-----------------------------------------------------------------------------
(* Logins                                                                  *)

Reading == UNCHANGED <<clock, gate, config, generation, request, task, lock>>

\* Each of the three handlers begins by noting the generation.
BeginLogin(l) ==
  /\ login[l].step = "idle"
  /\ gate = "free"
  /\ \E kind \in {"local", "oidc_login", "oidc_callback"}, from \in Logins \cup {None} :
       /\ kind = "oidc_callback" <=> from # None
       /\ from # l
       /\ login' = [login EXCEPT ![l] = [@ EXCEPT !.step = "config", !.kind = kind,
                                         !.from = from, !.generation = generation]]
  /\ Reading /\ UNCHANGED <<sessions, pending, received>>

\* Then it reads the configuration, in a step of its own.
ReadConfig(l) ==
  /\ login[l].step = "config"
  /\ LET next == CASE login[l].kind = "local" -> "verify"
                   [] login[l].kind = "oidc_login" -> "insert"
                   [] login[l].kind = "oidc_callback" -> "take"
     IN  login' = [login EXCEPT ![l] = [@ EXCEPT !.config = config, !.step = next]]
  /\ Reading /\ UNCHANGED <<sessions, pending, received>>

EndLogin(l) == login' = [login EXCEPT ![l].step = "done"]

\* Any early return: method disabled, wrong origin, rate limit, bad password,
\* provider unreachable or its answer invalid.
RefuseLogin(l) ==
  /\ login[l].step \in {"config", "verify", "insert", "take", "exchange"}
  /\ EndLogin(l)
  /\ Reading /\ UNCHANGED <<sessions, pending, received>>

\* Mutation: the limit is not enforced.
InsertUnbounded(l) ==
  /\ login[l].step = "insert"
  /\ pending' = [pending EXCEPT ![l] = [expires |-> clock + PendingTTL,
                                        generation |-> login[l].generation]]
  /\ EndLogin(l)
  /\ Reading /\ UNCHANGED <<sessions, received>>

\* The password is right.
VerifyPassword(l) ==
  /\ login[l].step = "verify"
  /\ login' = [login EXCEPT ![l].step = "remember"]
  /\ Reading /\ UNCHANGED <<sessions, pending, received>>

\* oidc_login stores the transaction without looking at the gate again.
\* Expired transactions go first, then the one that expires next.
InsertPending(l) ==
  LET alive == {p \in Logins : pending[p] # None /\ pending[p].expires >= clock}
      oldest == {p \in alive : \A q \in alive : pending[p].expires <= pending[q].expires}
  IN
  /\ login[l].step = "insert"
  /\ \E out \in Logins \cup {None} :
       /\ IF Cardinality(alive) >= PendingLimit THEN out \in oldest ELSE out = None
       /\ pending' = [p \in Logins |->
            IF p = l THEN [expires |-> clock + PendingTTL,
                           generation |-> login[l].generation]
            ELSE IF p \in alive \ {out} THEN pending[p] ELSE None]
  /\ EndLogin(l)
  /\ Reading /\ UNCHANGED <<sessions, received>>

\* Mutation: the generation of the transaction is not compared.
TakeAnyGeneration(l) ==
  LET p == login[l].from IN
  /\ login[l].step = "take"
  /\ pending' = [pending EXCEPT ![p] = None]
  /\ login' = [login EXCEPT ![l].step = IF pending[p] # None THEN "exchange" ELSE "done"]
  /\ Reading /\ UNCHANGED <<sessions, received>>

\* Mutation: the transaction is looked up but stays in the table.
TakeLeavesPending(l) ==
  LET p == login[l].from IN
  /\ login[l].step = "take"
  /\ pending[p] # None
  /\ login' = [login EXCEPT ![l].step = "exchange"]
  /\ Reading /\ UNCHANGED <<sessions, pending, received>>

\* oidc_callback takes the transaction out, whether or not it can be used.
TakePending(l) ==
  LET p == login[l].from IN
  /\ login[l].step = "take"
  /\ pending' = [pending EXCEPT ![p] = None]
  /\ LET usable == /\ pending[p] # None
                   /\ pending[p].expires >= clock
                   /\ pending[p].generation = login[l].generation
     IN  login' = [login EXCEPT ![l].step = IF usable THEN "exchange" ELSE "done"]
  /\ Reading /\ UNCHANGED <<sessions, received>>

\* The provider exchanges the code for tokens, the ID token is valid and
\* UserInfo is about the same subject.
ExchangeCode(l) ==
  /\ login[l].step = "exchange"
  /\ login' = [login EXCEPT ![l].step = "remember"]
  /\ Reading /\ UNCHANGED <<sessions, pending, received>>

\* Mutation: the times of check and of expiry are swapped.
NewSessionSwapped(l) ==
  LET oidc == login[l].kind = "oidc_callback" IN
  [source |-> IF oidc THEN "oidc" ELSE "local",
   began |-> IF oidc THEN login[login[l].from].generation ELSE login[l].generation,
   config |-> login[l].config,
   checked |-> clock + SessionTTL, expires |-> clock,
   token |-> IF oidc THEN 0 ELSE None]

NewSession(l) ==
  LET oidc == login[l].kind = "oidc_callback" IN
  [source |-> IF oidc THEN "oidc" ELSE "local",
   began |-> IF oidc THEN login[login[l].from].generation ELSE login[l].generation,
   config |-> login[l].config,
   checked |-> IF oidc THEN clock ELSE 0, expires |-> clock + SessionTTL,
   token |-> IF oidc THEN 0 ELSE None]

\* remember_session: a full table first loses its expired sessions, then, if
\* that was not enough, any one.
Remembered(l, s) ==
  LET kept == IF Cardinality(Live) >= SessionLimit THEN Live \ Expired ELSE Live
  IN
  \E out \in Logins \cup {None} :
    /\ IF Cardinality(kept) >= SessionLimit THEN out \in kept ELSE out = None
    /\ sessions' = [m \in Logins |-> IF m = l THEN s
                                     ELSE IF m \in kept \ {out} THEN sessions[m]
                                     ELSE None]

\* Mutation: the session is stored without a look at the gate's generation.
RememberAnyway(l) ==
  /\ login[l].step = "remember"
  /\ Remembered(l, NewSession(l))
  /\ EndLogin(l)
  /\ Reading /\ UNCHANGED <<pending, received>>

\* remember_session_if_current, under the gate.  A provider may issue no
\* refresh token.
RememberSession(l) ==
  /\ login[l].step = "remember"
  /\ gate = "free"
  /\ IF login[l].generation = generation
     THEN \/ Remembered(l, NewSession(l))
          \/ Remembered(l, [NewSession(l) EXCEPT !.token = None])
     ELSE UNCHANGED sessions
  /\ EndLogin(l)
  /\ Reading /\ UNCHANGED <<pending, received>>

Logout(l) ==
  /\ sessions[l] # None
  /\ sessions' = [sessions EXCEPT ![l] = None]
  /\ Reading /\ UNCHANGED <<pending, login, received>>

-----------------------------------------------------------------------------
(* session_from_headers                                                    *)

Usable(l) == l \in Live \ Expired

\* By the interval of the configuration in force.
Due(l) == sessions[l].source = "oidc" /\ clock - sessions[l].checked >= Interval[config]

RequestTo(r, step) == request' = [request EXCEPT ![r].step = step]

\* The cookie names a session.  One that is expired is removed; one that is
\* due for revalidation is handed to a spawned refresh task.
Lookup(r, l) ==
  LET to(step) == request' = [request EXCEPT ![r] =
                    [@ EXCEPT !.id = l, !.start = clock, !.config = config, !.step = step]]
  IN
  /\ request[r].step = "idle"
  /\ \/ /\ ~Usable(l)
        /\ sessions' = [sessions EXCEPT ![l] = None]
        /\ to("denied")
        /\ UNCHANGED task
     \/ /\ Usable(l) /\ Due(l)
        /\ task' = [task EXCEPT ![r].step = "lock"]
        /\ to("waiting")
        /\ UNCHANGED sessions
     \/ /\ Usable(l) /\ ~Due(l)
        /\ to("final")
        /\ UNCHANGED <<sessions, task>>
  /\ UNCHANGED <<clock, gate, config, generation, pending, login, lock, received>>

\* Mutation: a failed revalidation does not keep the request from going on.
JoinIgnoresFailure(r) ==
  /\ request[r].step = "waiting"
  /\ task[r].step = "done"
  /\ RequestTo(r, "final")
  /\ UNCHANGED <<clock, gate, config, generation, sessions, pending, login, task, lock,
                 received>>

Join(r) ==
  /\ request[r].step = "waiting"
  /\ task[r].step = "done"
  /\ RequestTo(r, IF task[r].result = "unavailable" THEN "unavailable" ELSE "final")
  /\ UNCHANGED <<clock, gate, config, generation, sessions, pending, login, task, lock,
                 received>>

\* The session is looked up once more and its rights, as they are now, are
\* what the request is judged by.
Final(r) ==
  LET l == request[r].id
      s == sessions[l]
  IN
  /\ request[r].step = "final"
  /\ \/ /\ ~Usable(l)
        /\ sessions' = [sessions EXCEPT ![l] = None]
        /\ RequestTo(r, "denied")
     \/ /\ Usable(l)
        /\ request' = [request EXCEPT ![r] = [@ EXCEPT !.step = "granted",
              !.checked = IF s.source = "oidc" THEN s.checked ELSE None]]
        /\ UNCHANGED sessions
  /\ UNCHANGED <<clock, gate, config, generation, pending, login, task, lock, received>>

\* The client leaves or the request times out; a refresh task runs on.
Abandon(r) ==
  /\ request[r].step \in {"waiting", "final"}
  /\ RequestTo(r, "gone")
  /\ UNCHANGED <<clock, gate, config, generation, sessions, pending, login, task, lock,
                 received>>

-----------------------------------------------------------------------------
(* The refresh task                                                        *)

TaskTo(r, step) == task' = [task EXCEPT ![r].step = step]

\* Mutation: the refresh_lock is not released.
ReturnKeepsLock(r, result) ==
  /\ task' = [task EXCEPT ![r] = [NoTask EXCEPT !.step = "done", !.result = result]]
  /\ UNCHANGED lock

\* The task returns: refresh_lock and refresh slot are released.
TaskReturn(r, result) ==
  /\ task' = [task EXCEPT ![r] = [NoTask EXCEPT !.step = "done", !.result = result]]
  /\ lock' = [lock EXCEPT ![request[r].id] = None]

Shared == UNCHANGED <<clock, gate, config, generation, pending, login, request>>

TaskLock(r) ==
  /\ task[r].step = "lock"
  /\ lock[request[r].id] = None
  /\ lock' = [lock EXCEPT ![request[r].id] = r]
  /\ TaskTo(r, "recheck")
  /\ Shared /\ UNCHANGED <<sessions, received>>

\* With the lock held the session is read again: it may be gone, expired, or
\* revalidated by the task that held the lock before.
TaskRecheck(r) ==
  LET l == request[r].id IN
  /\ task[r].step = "recheck"
  /\ \/ /\ ~Usable(l)
        /\ sessions' = [sessions EXCEPT ![l] = None]
        /\ TaskReturn(r, "ok")
     \/ /\ Usable(l) /\ ~Due(l)
        /\ TaskReturn(r, "ok")
        /\ UNCHANGED sessions
     \/ /\ Usable(l) /\ Due(l)
        /\ task' = [task EXCEPT ![r] =
             [@ EXCEPT !.step = "slot", !.token = sessions[l].token]]
        /\ UNCHANGED <<sessions, lock>>
  /\ Shared /\ UNCHANGED received

InSlot == {"gate", "config", "present", "save", "userinfo", "update", "revoke"}

\* A session without refresh token cannot be revalidated.
TaskSlot(r) ==
  /\ task[r].step = "slot"
  /\ Cardinality({t \in Requests : task[t].step \in InSlot}) < RefreshSlots
  /\ TaskTo(r, IF task[r].token = None THEN "revoke" ELSE "gate")
  /\ Shared /\ UNCHANGED <<sessions, lock, received>>

TaskGate(r) ==
  /\ task[r].step = "gate"
  /\ gate = "free"
  /\ task' = [task EXCEPT ![r] = [@ EXCEPT !.step = "config", !.generation = generation]]
  /\ Shared /\ UNCHANGED <<sessions, lock, received>>

TaskConfig(r) ==
  /\ task[r].step = "config"
  /\ task' = [task EXCEPT ![r] = [@ EXCEPT !.step = "present", !.config = config]]
  /\ Shared /\ UNCHANGED <<sessions, lock, received>>

\* The provider accepts the refresh token and may replace it; its answer has an
\* access token.
TaskPresent(r) ==
  LET new == task[r].token + 1 IN
  /\ task[r].step = "present"
  /\ \/ /\ task' = [task EXCEPT ![r] = [@ EXCEPT !.step = "save", !.token = new]]
        /\ received' = [received EXCEPT ![request[r].id] = new]
     \/ TaskTo(r, "userinfo") /\ UNCHANGED received
  /\ Shared /\ UNCHANGED <<sessions, lock>>

\* Mutation: the replaced token is not saved before UserInfo is asked.
SaveForgotten(r) ==
  /\ task[r].step = "save"
  /\ TaskTo(r, "userinfo")
  /\ Shared /\ UNCHANGED <<sessions, lock, received>>

\* A replaced token is kept at once, before anything else can fail.
TaskSave(r) ==
  LET l == request[r].id IN
  /\ task[r].step = "save"
  /\ gate = "free"
  /\ IF task[r].generation # generation
     THEN TaskTo(r, "revoke") /\ UNCHANGED sessions
     ELSE /\ TaskTo(r, "userinfo")
          /\ sessions' = IF sessions[l] = None THEN sessions
                         ELSE [sessions EXCEPT ![l].token = task[r].token]
  /\ Shared /\ UNCHANGED <<lock, received>>

TaskUserinfo(r) ==
  /\ task[r].step = "userinfo"
  /\ TaskTo(r, "update")
  /\ Shared /\ UNCHANGED <<sessions, lock, received>>

\* Mutation: the refreshed session is inserted, not updated in place.
UpdateInserts(r) ==
  /\ task[r].step = "update"
  /\ gate = "free"
  /\ sessions' = [sessions EXCEPT ![request[r].id] =
       [source |-> "oidc", began |-> generation, config |-> task[r].config,
        checked |-> clock, expires |-> clock + SessionTTL, token |-> task[r].token]]
  /\ TaskReturn(r, "ok")
  /\ Shared /\ UNCHANGED received

\* The rights are replaced if nothing happened to the session or to the
\* configuration meanwhile.
TaskUpdate(r) ==
  LET l == request[r].id IN
  /\ task[r].step = "update"
  /\ gate = "free"
  /\ IF task[r].generation # generation \/ ~Usable(l)
     THEN TaskTo(r, "revoke") /\ UNCHANGED <<sessions, lock>>
     ELSE /\ sessions' = [sessions EXCEPT ![l] = [@ EXCEPT !.config = task[r].config,
                                                           !.checked = clock]]
          /\ TaskReturn(r, "ok")
  /\ Shared /\ UNCHANGED received

\* Client secret, discovery, token endpoint or UserInfo fail for now.  The
\* token endpoint may have replaced the token before: its answer is lost or
\* cannot be read, or has the new token and no access token.
TaskUnavailable(r) ==
  /\ task[r].step \in {"config", "present", "userinfo"}
  /\ \/ UNCHANGED received
     \/ /\ task[r].step = "present"
        /\ received' = [received EXCEPT ![request[r].id] = None]
  /\ TaskReturn(r, "unavailable")
  /\ Shared /\ UNCHANGED sessions

\* The provider says invalid_grant, or names another subject.
TaskRefused(r) ==
  /\ task[r].step \in {"present", "userinfo"}
  /\ TaskTo(r, "revoke")
  /\ Shared /\ UNCHANGED <<sessions, lock, received>>

TaskRevoke(r) ==
  /\ task[r].step = "revoke"
  /\ sessions' = [sessions EXCEPT ![request[r].id] = None]
  /\ TaskReturn(r, "ok")
  /\ Shared /\ UNCHANGED received

-----------------------------------------------------------------------------
LoginStep(l) ==
  \/ ReadConfig(l) \/ RefuseLogin(l) \/ VerifyPassword(l) \/ InsertPending(l)
  \/ TakePending(l) \/ ExchangeCode(l) \/ RememberSession(l)

TaskStep(r) ==
  \/ TaskLock(r) \/ TaskRecheck(r) \/ TaskSlot(r) \/ TaskGate(r) \/ TaskConfig(r)
  \/ TaskPresent(r) \/ TaskSave(r) \/ TaskUserinfo(r) \/ TaskUpdate(r)
  \/ TaskUnavailable(r) \/ TaskRefused(r) \/ TaskRevoke(r)

RequestStep(r) == Join(r) \/ Final(r)

Next ==
  \/ Tick \/ apply_reload
  \/ \E l \in Logins : BeginLogin(l) \/ LoginStep(l) \/ Logout(l)
  \/ \E r \in Requests :
       TaskStep(r) \/ RequestStep(r) \/ Abandon(r) \/ \E l \in Logins : Lookup(r, l)

Spec == Init /\ [][Next]_vars

\* A reload runs to its end, calls to the provider return (the client has
\* timeouts), and the executor runs what can run.
Fairness ==
  /\ WF_vars(ReloadGeneration \/ ReloadClearSessions \/ ReloadClearPending)
  /\ \A r \in Requests : WF_vars(TaskStep(r)) /\ WF_vars(RequestStep(r))

LiveSpec == Spec /\ Fairness

-----------------------------------------------------------------------------
(* Properties                                                              *)

\* When no reload is under way every session owes its rights to the present
\* configuration and its login began under it: neither a login nor an OIDC
\* transaction nor a revalidation that a reload overtook leaves a session.
SessionsAreCurrent ==
  gate = "free" =>
    \A l \in Live : sessions[l].config = config /\ sessions[l].began = generation

\* A session that is gone (logged out, revoked, expired, evicted or cleared)
\* never comes back: revalidation updates a session but does not create one.
GoneIsGone ==
  [][\A l \in Logins : sessions[l] = None /\ login[l].step = "done"
                         => sessions'[l] = None]_vars

\* However many requests find a session due at once, and whatever fails after
\* the token endpoint has answered, a refresh task presents the latest token of
\* the provider, unless that came in an answer without access token or got
\* lost.  Then the session keeps a superseded one.
NoSupersededToken ==
  \A r \in Requests : task[r].step \in {"gate", "config", "present"} =>
    received[request[r].id] \in {None, task[r].token}

\* By the interval of some configuration since the given one.
Recent(start, since, checked) == \E c \in since .. config : start < checked + Interval[c]

\* A request is granted on an OIDC session only with rights that were checked
\* with the provider less than one interval before the request came in, by the
\* interval of a configuration that was in force while the request ran; while
\* the provider is unavailable it is not granted at all.
NoStaleGrant ==
  \A r \in Requests : request[r].step = "granted" /\ request[r].checked # None =>
    Recent(request[r].start, request[r].config, request[r].checked)

\* One OIDC transaction makes at most one session, however often and however
\* concurrently its callback is requested.
TransactionUsedOnce ==
  \A l, m \in Logins :
    l # m /\ {login[l].kind, login[m].kind} = {"oidc_callback"} /\ login[l].from = login[m].from
      => ~(login[l].step \in {"exchange", "remember"}
           /\ (login[m].step \in {"exchange", "remember"} \/ m \in Live))

\* The tables stay within their limits.
TablesBounded ==
  /\ Cardinality(Live) <= SessionLimit
  /\ Cardinality({p \in Logins : pending[p] # None}) <= PendingLimit

\* Every request that waits for a refresh is answered: no order of taking the
\* session's lock, a permit and the gate makes tasks wait for each other.
RequestsSettle ==
  \A r \in Requests : request[r].step = "waiting" ~> request[r].step # "waiting"
=============================================================================
