--------------------------- MODULE SessionsProofs ---------------------------
(***************************************************************************)
(* What Sessions.tla guarantees for any number of logins and requests, any *)
(* limits and lifetimes and any number of reloads.                         *)
(***************************************************************************)
EXTENDS Sessions, FiniteSetTheorems, TLAPS

-----------------------------------------------------------------------------
(* The inductive invariants                                                *)

\* The counter lags behind the configuration while a reload is between the two,
\* and no session survives the step that clears them.
GateInv ==
  /\ config = IF gate = "generation" THEN generation + 1 ELSE generation
  /\ gate = "pending" => Live = {}

\* A login that has begun is of one of three kinds, and a callback answers to
\* the transaction of another run.
KindInv ==
  \A l \in Logins : login[l].step # "idle" =>
    /\ login[l].kind \in {"local", "oidc_login", "oidc_callback"}
    /\ login[l].kind = "oidc_callback" => login[l].from \in Logins \ {l}

\* A request that has gone beyond its start, or has a task, names a session, and
\* a task on its way to the provider has a token to present.
IdInv ==
  \A r \in Requests :
    /\ request[r].step \in {"waiting", "final"} \/ task[r].step # "none" =>
         request[r].id \in Logins
    /\ task[r].step \in {"gate", "config", "present"} => task[r].token \in Tokens

\* A login has read its configuration after its generation, so that with the
\* generation still in force the configuration is the one in force.
LoginInv ==
  \A l \in Logins :
    /\ login[l].generation <= generation
    /\ login[l].step \in {"insert", "take", "verify", "exchange", "remember"} =>
         login[l].config \in login[l].generation .. config
    /\ login[l].step \in {"insert", "verify"} => login[l].kind # "oidc_callback"

\* A transaction carries the generation of the login that began it.
PendingInv ==
  \A p \in Logins : pending[p] # None =>
    login[p].step = "done" /\ pending[p].generation = login[p].generation

\* The callbacks that have used a transaction: it is gone for good, and was of
\* the callback's own generation.
Used(l) == login[l].step \in {"exchange", "remember"} \/ l \in Live
UsedInv ==
  \A l \in Logins : login[l].kind = "oidc_callback" /\ Used(l) =>
    /\ login[login[l].from].step = "done"
    /\ pending[login[l].from] = None
    /\ login[l].step # "done" => login[login[l].from].generation = login[l].generation

\* The same for the configuration that a refresh task works by.
TaskInv ==
  \A r \in Requests :
    /\ task[r].generation <= generation
    /\ task[r].step \in {"present", "save", "userinfo", "update"} =>
         task[r].config \in task[r].generation .. config

\* Sessions, and the tasks that refresh them, are of logins that are over, and
\* a task that is past the lock holds it.
Working == TaskSteps \ {"none", "lock", "done"}
OwnerInv ==
  /\ \A l \in Live : login[l].step = "done"
  /\ \A r \in Requests : task[r].step # "none" \/ request[r].step \in {"waiting", "final"} =>
       request[r].id \in Logins /\ login[request[r].id].step = "done"
  /\ \A r \in Requests : task[r].step \in Working => lock[request[r].id] = r
  /\ \A r \in Requests : request[r].step = "idle" => task[r].step = "none"

\* A session holds the latest refresh token that came in a usable answer, unless
\* a task that holds its lock is about to save a newer one or to end the session.
TokenInv ==
  /\ \A l \in Logins : login[l].step # "done" => received[l] = 0
  /\ \A l \in Live : sessions[l].token = None \/ received[l] \in {None, sessions[l].token}
       \/ \E r \in Requests : lock[l] = r /\ request[r].id = l
                              /\ task[r].step \in {"save", "revoke"}
  /\ \A r \in Requests :
       /\ task[r].step = "slot" =>
            task[r].token = None \/ received[request[r].id] \in {None, task[r].token}
       /\ task[r].step \in {"gate", "config", "present", "save"} =>
            received[request[r].id] \in {None, task[r].token}

\* Rights are checked no later than now; a request that will be judged by an
\* OIDC session has found it fresh, or has had it refreshed.
Judged(r) ==
  \/ request[r].step = "final"
  \/ request[r].step = "waiting" /\ task[r].step = "done" /\ task[r].result # "unavailable"
Fresh(r) ==
  LET l == request[r].id IN
  l \in Live /\ sessions[l].source = "oidc" =>
    Recent(request[r].start, request[r].config, sessions[l].checked)
FreshInv ==
  /\ \A l \in Live : sessions[l].checked <= clock
  /\ \A r \in Requests : /\ request[r].start <= clock
                         /\ request[r].config <= config
                         /\ Judged(r) => Fresh(r)

FiniteInv == IsFiniteSet(Live) /\ IsFiniteSet({p \in Logins : pending[p] # None})

-----------------------------------------------------------------------------
(* Types                                                                   *)

\* These hold together: the counter of generations stays within its bound
\* because it follows the configuration's, and the functions keep their ranges
\* because logins and tasks name what they work on.
Types == TypeOK /\ GateInv /\ KindInv /\ IdInv

\* The process starts well typed, with the gate free.
LEMMA InitTypes == Init => Types
<1> SUFFICES ASSUME Init PROVE Types
  OBVIOUS
<1>1. 0 \in Generations /\ 0 \in Times /\ 0 \in Tokens
  BY SessionsAssumption DEF Generations, Times, Tokens
<1>2. login \in [Logins -> Login]
  BY <1>1 DEF Init, Login, LoginSteps
<1>3. request \in [Requests -> Request]
  BY <1>1 DEF Init, Request, RequestSteps
<1>4. task \in [Requests -> Task]
  BY <1>1 DEF Init, NoTask, Task, TaskSteps
<1> QED BY <1>1, <1>2, <1>3, <1>4 DEF Init, Types, TypeOK, GateInv, KindInv,
         IdInv, NoTask, Live

\* A task that ends without having begun its work is a task.
LEMMA NoTaskDone ==
  ASSUME NEW result \in {"none", "ok", "unavailable"}
  PROVE  [NoTask EXCEPT !.step = "done", !.result = result] \in Task
<1>1. 0 \in Generations
  BY SessionsAssumption DEF Generations
<1> QED BY <1>1 DEF NoTask, Task, TaskSteps

\* The steps of apply_reload keep configuration and counter in step.
LEMMA ReloadTypes ==
  ASSUME TypeOK, GateInv, apply_reload PROVE TypeOK' /\ GateInv'
<1>1. CASE ReloadConfig
  BY <1>1, SessionsAssumption DEF ReloadConfig, TypeOK, GateInv, Generations, Live
<1>2. CASE ReloadGeneration
  BY <1>2, SessionsAssumption DEF ReloadGeneration, TypeOK, GateInv, Generations, Live
<1>3. CASE ReloadClearSessions
  BY <1>3 DEF ReloadClearSessions, TypeOK, GateInv, Live
<1>4. CASE ReloadClearPending
  BY <1>4 DEF ReloadClearPending, TypeOK, GateInv, Live
<1> QED BY <1>1, <1>2, <1>3, <1>4 DEF apply_reload

\* A step of a login or a task that leaves the gate alone keeps GateInv if it
\* adds no session while the gate is held.
LEMMA GateKept ==
  ASSUME GateInv, UNCHANGED <<gate, config, generation>>, gate = "pending" => Live' = {}
  PROVE  GateInv'
BY DEF GateInv

\* remember_session leaves a table of sessions.
LEMMA RememberedType ==
  ASSUME TypeOK, NEW l \in Logins, NEW s \in Session, Remembered(l, s)
  PROVE  sessions' \in [Logins -> Session \cup {None}]
BY DEF Remembered, TypeOK

\* The session a login stores is one, with a refresh token or without.
LEMMA NewSessionType ==
  ASSUME TypeOK, KindInv, NEW l \in Logins, login[l].step = "remember"
  PROVE  /\ NewSession(l) \in Session
         /\ [NewSession(l) EXCEPT !.token = None] \in Session
         /\ [NewSession(l) EXCEPT !.token = None].began = NewSession(l).began
         /\ [NewSession(l) EXCEPT !.token = None].config = NewSession(l).config
         /\ [NewSession(l) EXCEPT !.token = None].checked = NewSession(l).checked
         /\ [NewSession(l) EXCEPT !.token = None].token = None
<1> DEFINE oidc == login[l].kind = "oidc_callback"
           source == IF oidc THEN "oidc" ELSE "local"
           began == IF oidc THEN login[login[l].from].generation ELSE login[l].generation
           checked == IF oidc THEN clock ELSE 0
           expires == clock + SessionTTL
           token == IF oidc THEN 0 ELSE None
           s == NewSession(l)
           t == [s EXCEPT !.token = None]
<1>1. /\ login[l] \in Login
      /\ oidc => login[login[l].from] \in Login
      /\ clock \in Times
  BY DEF TypeOK, KindInv
<1>2. /\ source \in {"local", "oidc"} /\ began \in Generations
      /\ login[l].config \in Generations /\ checked \in Times
      /\ expires \in Nat /\ token \in Tokens \cup {None}
  BY <1>1, SessionsAssumption DEF Login, Times, Tokens
<1>3. s = [source |-> source, began |-> began, config |-> login[l].config,
           checked |-> checked, expires |-> expires, token |-> token]
  BY DEF NewSession
<1> HIDE DEF source, began, checked, expires, token, s
<1>4. t = [source |-> source, began |-> began, config |-> login[l].config,
           checked |-> checked, expires |-> expires, token |-> None]
  BY <1>3
<1>5. s \in Session /\ t \in Session
  BY <1>2, <1>3, <1>4 DEF Session
<1>6. /\ t.began = s.began /\ t.config = s.config /\ t.checked = s.checked
      /\ t.token = None
  BY <1>3, <1>4
<1> QED BY <1>5, <1>6 DEF s

\* Every step of a login keeps the types.
LEMMA LoginTypes ==
  ASSUME TypeOK, KindInv, NEW l \in Logins, BeginLogin(l) \/ LoginStep(l)
  PROVE  TypeOK' /\ KindInv'
<1>1. UNCHANGED <<clock, gate, config, generation, request, task, lock, received>>
  BY DEF BeginLogin, LoginStep, ReadConfig, RefuseLogin, VerifyPassword, InsertPending,
         TakePending, ExchangeCode, RememberSession, Reading
<1>2. login' \in [Logins -> Login] /\ KindInv'
  <2>1. ASSUME BeginLogin(l),
               NEW kind \in {"local", "oidc_login", "oidc_callback"},
               NEW from \in Logins \cup {None},
               kind = "oidc_callback" <=> from # None, from # l,
               login' = [login EXCEPT ![l] = [@ EXCEPT !.step = "config", !.kind = kind,
                                              !.from = from, !.generation = generation]]
        PROVE  login' \in [Logins -> Login] /\ KindInv'
    <3> DEFINE u == [login[l] EXCEPT !.step = "config", !.kind = kind,
                                     !.from = from, !.generation = generation]
    <3>1. /\ login[l] \in Login /\ generation \in Generations
          /\ login \in [Logins -> Login]
      BY DEF TypeOK
    <3>2. u \in Login /\ u.kind = kind /\ u.from = from
      BY <3>1 DEF Login, LoginSteps
    <3>3. login' = [login EXCEPT ![l] = u]
      BY <2>1, <3>1
    <3> HIDE DEF u
    <3> QED BY <2>1, <3>1, <3>2, <3>3 DEF KindInv
  <2>2. CASE ReadConfig(l)
    <3>1. /\ login[l] \in Login /\ config \in Generations
          /\ login \in [Logins -> Login]
      BY DEF TypeOK
    <3>2. PICK next \in {"verify", "insert", "take"} :
            login' = [login EXCEPT ![l] = [@ EXCEPT !.config = config, !.step = next]]
      BY <2>2, <3>1 DEF ReadConfig, KindInv
    <3> DEFINE u == [login[l] EXCEPT !.config = config, !.step = next]
    <3>3. u \in Login /\ u.kind = login[l].kind /\ u.from = login[l].from
      BY <3>1 DEF Login, LoginSteps
    <3>4. login' = [login EXCEPT ![l] = u]
      BY <3>1, <3>2
    <3> HIDE DEF u
    <3>5. login[l].step = "config"
      BY <2>2 DEF ReadConfig
    <3> QED BY <3>1, <3>3, <3>4, <3>5 DEF KindInv
  <2>3. CASE /\ login[l].step # "idle"
             /\ \E st \in LoginSteps : login' = [login EXCEPT ![l].step = st]
    BY <2>3 DEF TypeOK, Login, KindInv
  <2> QED BY <2>1, <2>2, <2>3 DEF BeginLogin, LoginStep, RefuseLogin, VerifyPassword,
            InsertPending, TakePending, ExchangeCode, RememberSession, EndLogin, LoginSteps
<1>3. pending' \in [Logins -> Pending \cup {None}]
  <2>1. CASE InsertPending(l)
    <3>1. [expires |-> clock + PendingTTL, generation |-> login[l].generation] \in Pending
      BY SessionsAssumption DEF TypeOK, Pending, Login, Times
    <3> QED BY <2>1, <3>1 DEF InsertPending, TypeOK
  <2>2. CASE TakePending(l)
    BY <2>2 DEF TakePending, TypeOK
  <2>3. CASE UNCHANGED pending
    BY <2>3 DEF TypeOK
  <2> QED BY <2>1, <2>2, <2>3 DEF BeginLogin, LoginStep, ReadConfig, RefuseLogin,
            VerifyPassword, ExchangeCode, RememberSession
<1>4. sessions' \in [Logins -> Session \cup {None}]
  <2>1. CASE RememberSession(l)
    <3> DEFINE without == [NewSession(l) EXCEPT !.token = None]
    <3>1. NewSession(l) \in Session /\ without \in Session
      BY <2>1, NewSessionType DEF RememberSession
    <3> HIDE DEF without
    <3>2. Remembered(l, NewSession(l)) \/ Remembered(l, without) \/ UNCHANGED sessions
      BY <2>1 DEF RememberSession, without
    <3> QED BY <3>1, <3>2, RememberedType DEF TypeOK
  <2>2. CASE UNCHANGED sessions
    BY <2>2 DEF TypeOK
  <2> QED BY <2>1, <2>2 DEF BeginLogin, LoginStep, ReadConfig, RefuseLogin,
            VerifyPassword, ExchangeCode, InsertPending, TakePending
<1> QED BY <1>1, <1>2, <1>3, <1>4 DEF TypeOK

\* What the forms of assignment to a task do to its fields.
LEMMA TaskToFields ==
  ASSUME TypeOK, NEW r \in Requests, NEW st, TaskTo(r, st)
  PROVE  /\ task'[r].step = st
         /\ task'[r].generation = task[r].generation
         /\ task'[r].config = task[r].config
         /\ task'[r].token = task[r].token
         /\ task'[r].result = task[r].result
         /\ \A t \in Requests \ {r} : task'[t] = task[t]
BY DEF TaskTo, TypeOK, Task

\* The same for the step that ends a task and frees its session's lock.
LEMMA TaskReturnFields ==
  ASSUME TypeOK, NEW r \in Requests, NEW result, TaskReturn(r, result)
  PROVE  /\ task'[r].step = "done"
         /\ task'[r].generation = 0
         /\ task'[r].result = result
         /\ \A t \in Requests \ {r} : task'[t] = task[t]
         /\ \A m \in Logins : lock'[m] = IF m = request[r].id THEN None ELSE lock[m]
BY DEF TaskReturn, TypeOK, NoTask

\* The same for the step that brings a new token.
LEMMA TaskTokenFields ==
  ASSUME TypeOK, NEW r \in Requests, NEW a, NEW b,
         task' = [task EXCEPT ![r] = [@ EXCEPT !.step = a, !.token = b]]
  PROVE  /\ task'[r].step = a
         /\ task'[r].token = b
         /\ task'[r].generation = task[r].generation
         /\ task'[r].config = task[r].config
         /\ task'[r].result = task[r].result
         /\ \A t \in Requests \ {r} : task'[t] = task[t]
BY DEF TypeOK, Task

\* Every step of a refresh task keeps the types.
LEMMA TaskTypes ==
  ASSUME TypeOK, IdInv, NEW r \in Requests, TaskStep(r)
  PROVE  TypeOK' /\ IdInv'
<1> DEFINE l == request[r].id
<1>1. /\ UNCHANGED <<clock, gate, config, generation, pending, login, request>>
      /\ task[r].step # "none"
  BY DEF TaskStep, TaskLock, TaskRecheck, TaskSlot, TaskGate, TaskConfig, TaskPresent,
         TaskSave, TaskUserinfo, TaskUpdate, TaskUnavailable, TaskRefused, TaskRevoke, Shared
<1>2. /\ l \in Logins /\ task[r] \in Task /\ task \in [Requests -> Task]
      /\ lock \in [Logins -> Requests \cup {None}]
      /\ sessions \in [Logins -> Session \cup {None}]
      /\ received \in [Logins -> Tokens \cup {None}]
      /\ clock \in Times /\ config \in Generations /\ generation \in Generations
  BY <1>1 DEF TypeOK, IdInv
<1>3. ASSUME NEW st \in TaskSteps, TaskTo(r, st)
      PROVE  task' \in [Requests -> Task]
  BY <1>2, <1>3 DEF TaskTo, Task
<1>4. ASSUME NEW result \in {"none", "ok", "unavailable"}, TaskReturn(r, result)
      PROVE  task' \in [Requests -> Task] /\ lock' \in [Logins -> Requests \cup {None}]
  BY <1>2, <1>4, NoTaskDone DEF TaskReturn
<1>5. ASSUME sessions' = [sessions EXCEPT ![l] = None]
      PROVE  sessions' \in [Logins -> Session \cup {None}]
  BY <1>2, <1>5
<1>6. /\ task' \in [Requests -> Task]
      /\ lock' \in [Logins -> Requests \cup {None}]
      /\ sessions' \in [Logins -> Session \cup {None}]
      /\ received' \in [Logins -> Tokens \cup {None}]
  <2>1. CASE TaskLock(r)
    BY <1>2, <1>3, <2>1 DEF TaskLock, TaskSteps
  <2>2. CASE TaskRecheck(r)
    <3>1. CASE task' = [task EXCEPT ![r] =
                 [@ EXCEPT !.step = "slot", !.token = sessions[l].token]]
               /\ UNCHANGED <<sessions, lock>> /\ Usable(l)
      <4>1. sessions[l].token \in Tokens \cup {None}
        BY <1>2, <3>1 DEF Usable, Live, Session
      <4> QED BY <1>2, <2>2, <3>1, <4>1 DEF TaskRecheck, Task, TaskSteps
    <3> QED BY <1>2, <1>4, <1>5, <2>2, <3>1 DEF TaskRecheck
  <2>3. CASE TaskSlot(r)
    BY <1>2, <1>3, <2>3 DEF TaskSlot, TaskSteps
  <2>4. CASE TaskGate(r)
    BY <1>2, <2>4 DEF TaskGate, Task, TaskSteps
  <2>5. CASE TaskConfig(r)
    BY <1>2, <2>5 DEF TaskConfig, Task, TaskSteps
  <2>6. CASE TaskPresent(r)
    <3>1. CASE TaskTo(r, "userinfo") /\ UNCHANGED received
      BY <1>2, <1>3, <2>6, <3>1 DEF TaskPresent, TaskSteps
    <3> DEFINE new == task[r].token + 1
    <3>2. CASE /\ task' = [task EXCEPT ![r] = [@ EXCEPT !.step = "save", !.token = new]]
               /\ received' = [received EXCEPT ![l] = new]
      <4>1. new \in Tokens
        BY <2>6 DEF TaskPresent, IdInv, Tokens
      <4> QED BY <1>2, <2>6, <3>2, <4>1 DEF TaskPresent, Task, TaskSteps
    <3> QED BY <2>6, <3>1, <3>2 DEF TaskPresent
  <2>7. CASE TaskSave(r)
    <3>1. task' \in [Requests -> Task]
      BY <1>3, <2>7 DEF TaskSave, TaskSteps
    <3>2. CASE sessions[l] # None
      <4>1. [sessions[l] EXCEPT !.token = task[r].token] \in Session
        BY <1>2, <3>2 DEF Session, Task
      <4> QED BY <1>2, <2>7, <3>1, <3>2, <4>1 DEF TaskSave
    <3> QED BY <1>2, <2>7, <3>1, <3>2 DEF TaskSave
  <2>8. CASE TaskUserinfo(r)
    BY <1>2, <1>3, <2>8 DEF TaskUserinfo, TaskSteps
  <2>9. CASE TaskUpdate(r)
    <3>1. CASE TaskTo(r, "revoke") /\ UNCHANGED <<sessions, lock>>
      BY <1>2, <1>3, <2>9, <3>1 DEF TaskUpdate, TaskSteps
    <3> DEFINE s == [sessions[l] EXCEPT !.config = task[r].config, !.checked = clock]
    <3>2. CASE sessions' = [sessions EXCEPT ![l] = s] /\ TaskReturn(r, "ok") /\ Usable(l)
      <4>1. s \in Session
        BY <1>2, <3>2 DEF Usable, Live, Session, Task
      <4> QED BY <1>2, <1>4, <2>9, <3>2, <4>1 DEF TaskUpdate
    <3> QED BY <2>9, <3>1, <3>2 DEF TaskUpdate
  <2>10. CASE TaskUnavailable(r)
    BY <1>2, <1>4, <2>10 DEF TaskUnavailable
  <2>11. CASE TaskRefused(r)
    BY <1>2, <1>3, <2>11 DEF TaskRefused, TaskSteps
  <2>12. CASE TaskRevoke(r)
    BY <1>2, <1>4, <1>5, <2>12 DEF TaskRevoke
  <2> QED BY <2>1, <2>2, <2>3, <2>4, <2>5, <2>6, <2>7, <2>8, <2>9, <2>10, <2>11, <2>12
          DEF TaskStep
<1>7. \A t \in Requests \ {r} : task'[t] = task[t]
  BY <1>2 DEF TaskStep, TaskLock, TaskRecheck, TaskSlot, TaskGate, TaskConfig, TaskPresent,
         TaskSave, TaskUserinfo, TaskUpdate, TaskUnavailable, TaskRefused, TaskRevoke,
         TaskTo, TaskReturn
<1>8. task'[r].step \in {"gate", "config", "present"} => task'[r].token \in Tokens
  <2>1. CASE TaskSlot(r)
    BY <1>2, <2>1 DEF TaskSlot, TaskTo, Task
  <2>2. CASE TaskGate(r) \/ TaskConfig(r)
    BY <1>2, <2>2 DEF TaskGate, TaskConfig, IdInv, Task
  <2>3. CASE TaskRecheck(r) \/ TaskPresent(r)
    <3> DEFINE new == task[r].token + 1
    <3>1. \/ task' = [task EXCEPT ![r] = [@ EXCEPT !.step = "slot", !.token = sessions[l].token]]
          \/ task' = [task EXCEPT ![r] = [@ EXCEPT !.step = "save", !.token = new]]
          \/ TaskTo(r, "userinfo") \/ TaskReturn(r, "ok")
      BY <2>3 DEF TaskRecheck, TaskPresent
    <3> HIDE DEF new, l
    <3>2. CASE task' = [task EXCEPT ![r] = [@ EXCEPT !.step = "slot", !.token = sessions[l].token]]
      <4>1. task'[r].step = "slot"
        BY <3>2, TaskTokenFields
      <4> QED BY <4>1
    <3>3. CASE task' = [task EXCEPT ![r] = [@ EXCEPT !.step = "save", !.token = new]]
      <4>1. task'[r].step = "save"
        BY <3>3, TaskTokenFields
      <4> QED BY <4>1
    <3>4. CASE TaskTo(r, "userinfo") \/ TaskReturn(r, "ok")
      BY <3>4, TaskToFields, TaskReturnFields
    <3> QED BY <3>1, <3>2, <3>3, <3>4
  <2>4. CASE TaskLock(r) \/ TaskSave(r) \/ TaskUserinfo(r) \/ TaskUpdate(r)
             \/ TaskUnavailable(r) \/ TaskRefused(r) \/ TaskRevoke(r)
    BY <2>4, TaskToFields, TaskReturnFields DEF TaskLock, TaskSave, TaskUserinfo,
       TaskUpdate, TaskUnavailable, TaskRefused, TaskRevoke
  <2> QED BY <2>1, <2>2, <2>3, <2>4 DEF TaskStep
<1>9. IdInv'
  BY <1>1, <1>2, <1>7, <1>8 DEF IdInv
<1> QED BY <1>1, <1>6, <1>9 DEF TypeOK

\* Every step of a request keeps the types.
LEMMA RequestTypes ==
  ASSUME TypeOK, IdInv, NEW r \in Requests,
         \/ RequestStep(r) \/ Abandon(r) \/ \E l \in Logins : Lookup(r, l)
  PROVE  TypeOK' /\ IdInv'
<1>1. /\ request[r] \in Request /\ request \in [Requests -> Request]
      /\ task \in [Requests -> Task] /\ clock \in Times /\ config \in Generations
      /\ sessions \in [Logins -> Session \cup {None}]
  BY DEF TypeOK
<1>2. ASSUME NEW st \in RequestSteps, RequestTo(r, st)
      PROVE  request' \in [Requests -> Request] /\ \A t \in Requests : request'[t].id = request[t].id
  BY <1>1, <1>2 DEF RequestTo, Request
<1>3. CASE Join(r) \/ Abandon(r)
  BY <1>1, <1>2, <1>3 DEF Join, Abandon, RequestTo, TypeOK, IdInv, RequestSteps
<1>4. CASE Final(r)
  <2>1. request[r].id \in Logins
    BY <1>4 DEF Final, IdInv
  <2>2. CASE RequestTo(r, "denied") /\ sessions' = [sessions EXCEPT ![request[r].id] = None]
    BY <1>1, <1>2, <1>4, <2>1, <2>2 DEF Final, RequestTo, TypeOK, IdInv, RequestSteps
  <2> DEFINE s == sessions[request[r].id]
             c == IF s.source = "oidc" THEN s.checked ELSE None
             q == [request[r] EXCEPT !.step = "granted", !.checked = c]
  <2>3. CASE Usable(request[r].id) /\ request' = [request EXCEPT ![r] = q]
             /\ UNCHANGED sessions
    <3>1. c \in Times \cup {None}
      BY <1>1, <2>1, <2>3 DEF Usable, Live, Session
    <3> HIDE DEF c
    <3>2. q \in Request /\ q.id = request[r].id
      BY <1>1, <3>1 DEF Request, RequestSteps
    <3> HIDE DEF q
    <3> QED BY <1>1, <1>4, <2>1, <2>3, <3>2 DEF Final, TypeOK, IdInv
  <2> QED BY <1>4, <2>2, <2>3 DEF Final
<1>5. ASSUME NEW l \in Logins, Lookup(r, l) PROVE TypeOK' /\ IdInv'
  <2>1. PICK st \in {"denied", "waiting", "final"} :
          request' = [request EXCEPT ![r] =
                        [@ EXCEPT !.id = l, !.start = clock, !.config = config, !.step = st]]
    BY <1>5 DEF Lookup
  <2> DEFINE q == [request[r] EXCEPT !.id = l, !.start = clock, !.config = config, !.step = st]
  <2>2. q \in Request /\ q.id = l
    BY <1>1 DEF Request, RequestSteps
  <2>3. request' = [request EXCEPT ![r] = q]
    BY <1>1, <2>1
  <2> HIDE DEF q
  <2>4. /\ sessions' \in [Logins -> Session \cup {None}]
        /\ task' \in [Requests -> Task]
        /\ \A t \in Requests : task'[t] = task[t] \/ (t = r /\ task'[t].step = "lock")
    <3>1. /\ UNCHANGED sessions \/ sessions' = [sessions EXCEPT ![l] = None]
          /\ UNCHANGED task \/ task' = [task EXCEPT ![r].step = "lock"]
      BY <1>5 DEF Lookup
    <3> QED BY <1>1, <3>1 DEF Task, TaskSteps
  <2>5. request' \in [Requests -> Request]
        /\ \A t \in Requests : request'[t] = request[t] \/ (t = r /\ request'[t].id = l)
    BY <1>1, <2>2, <2>3
  <2>6. UNCHANGED <<clock, gate, config, generation, pending, login, lock, received>>
    BY <1>5 DEF Lookup
  <2>7. IdInv'
    <3> SUFFICES ASSUME NEW t \in Requests
                 PROVE  /\ request'[t].step \in {"waiting", "final"} \/ task'[t].step # "none"
                             => request'[t].id \in Logins
                        /\ task'[t].step \in {"gate", "config", "present"}
                             => task'[t].token \in Tokens
      BY DEF IdInv
    <3>1. CASE t = r
      BY <2>4, <2>5, <2>2, <2>3, <1>1, <3>1 DEF IdInv
    <3>2. CASE t # r
      BY <2>4, <2>5, <3>2 DEF IdInv
    <3> QED BY <3>1, <3>2
  <2> QED BY <2>4, <2>5, <2>6, <2>7 DEF TypeOK
<1> QED BY <1>3, <1>4, <1>5 DEF RequestStep

\* Types is inductive.
LEMMA NextTypes == Types /\ [Next]_vars => Types'
<1> SUFFICES ASSUME Types, [Next]_vars PROVE Types'
  OBVIOUS
<1> USE DEF Types
<1>1. CASE Tick
  BY <1>1, SessionsAssumption DEF Tick, TypeOK, Times, GateInv, KindInv, IdInv, Live
<1>2. CASE apply_reload
  <2>1. UNCHANGED <<login, request, task>>
    BY <1>2 DEF apply_reload, ReloadConfig, ReloadGeneration, ReloadClearSessions,
                ReloadClearPending
  <2> QED BY <1>2, <2>1, ReloadTypes DEF KindInv, IdInv
<1>3. ASSUME NEW l \in Logins, BeginLogin(l) \/ LoginStep(l) PROVE Types'
  <2>1. UNCHANGED <<gate, config, generation, request, task>>
    BY <1>3 DEF BeginLogin, LoginStep, ReadConfig, RefuseLogin, VerifyPassword,
         InsertPending, TakePending, ExchangeCode, RememberSession, Reading
  <2>2. gate = "free" \/ UNCHANGED sessions
    BY <1>3 DEF BeginLogin, LoginStep, ReadConfig, RefuseLogin, VerifyPassword,
         InsertPending, TakePending, ExchangeCode, RememberSession
  <2> QED BY <1>3, <2>1, <2>2, LoginTypes, GateKept DEF GateInv, IdInv, Live
<1>4. ASSUME NEW l \in Logins, Logout(l) PROVE Types'
  BY <1>4 DEF Logout, Reading, TypeOK, GateInv, KindInv, IdInv, Live
<1>5. ASSUME NEW r \in Requests, TaskStep(r) PROVE Types'
  <2>1. /\ UNCHANGED <<gate, config, generation, login>>
        /\ \/ UNCHANGED sessions
           \/ gate = "free"
           \/ sessions' = [sessions EXCEPT ![request[r].id] = None]
    BY <1>5 DEF TaskStep, TaskLock, TaskRecheck, TaskSlot, TaskGate, TaskConfig,
         TaskPresent, TaskSave, TaskUserinfo, TaskUpdate, TaskUnavailable, TaskRefused,
         TaskRevoke, Shared
  <2>2. gate = "pending" => Live' = {}
    BY <2>1 DEF GateInv, Live, TypeOK
  <2> QED BY <1>5, <2>1, <2>2, TaskTypes, GateKept DEF KindInv
<1>6. ASSUME NEW r \in Requests,
             RequestStep(r) \/ Abandon(r) \/ \E l \in Logins : Lookup(r, l)
      PROVE  Types'
  <2>1. /\ UNCHANGED <<gate, config, generation, login>>
        /\ \/ UNCHANGED sessions
           \/ \E l : sessions' = [sessions EXCEPT ![l] = None]
    BY <1>6 DEF RequestStep, Join, Final, Abandon, Lookup
  <2>2. gate = "pending" => Live' = {}
    BY <2>1 DEF GateInv, Live, TypeOK
  <2> QED BY <1>6, <2>1, <2>2, RequestTypes, GateKept DEF KindInv
<1>7. CASE UNCHANGED vars
  BY <1>7 DEF vars, TypeOK, GateInv, KindInv, IdInv, Live
<1> QED BY <1>1, <1>2, <1>3, <1>4, <1>5, <1>6, <1>7 DEF Next

\* Every reachable state of logins, requests, refresh tasks and reloads is well
\* typed.
THEOREM SessionTypes == Spec => []TypeOK
<1>1. Types => TypeOK
  BY DEF Types
<1> QED BY <1>1, InitTypes, NextTypes, PTL DEF Spec

-----------------------------------------------------------------------------
(* What a step may do                                                      *)

\* The kinds of steps, by who takes them, and what each leaves alone.
LEMMA StepKinds ==
  ASSUME [Next]_vars
  PROVE  \/ apply_reload
         \/ \E l \in Logins :
              /\ BeginLogin(l) \/ LoginStep(l)
              /\ UNCHANGED <<clock, gate, config, generation, request, task, lock, received>>
         \/ \E r \in Requests :
              /\ TaskStep(r)
              /\ UNCHANGED <<clock, gate, config, generation, pending, login, request>>
         \/ \E r \in Requests :
              /\ RequestStep(r) \/ Abandon(r) \/ \E l \in Logins : Lookup(r, l)
              /\ UNCHANGED <<clock, gate, config, generation, pending, login, lock, received>>
         \/ /\ Tick \/ (\E l \in Logins : Logout(l)) \/ UNCHANGED vars
            /\ UNCHANGED <<gate, config, generation, pending, login, request, task, lock,
                           received>>
<1>1. ASSUME NEW l \in Logins, BeginLogin(l) \/ LoginStep(l)
      PROVE  UNCHANGED <<clock, gate, config, generation, request, task, lock, received>>
  BY <1>1 DEF BeginLogin, LoginStep, ReadConfig, RefuseLogin, VerifyPassword,
       InsertPending, TakePending, ExchangeCode, RememberSession, Reading
<1>2. ASSUME NEW r \in Requests, TaskStep(r)
      PROVE  UNCHANGED <<clock, gate, config, generation, pending, login, request>>
  BY <1>2 DEF TaskStep, TaskLock, TaskRecheck, TaskSlot, TaskGate, TaskConfig,
       TaskPresent, TaskSave, TaskUserinfo, TaskUpdate, TaskUnavailable, TaskRefused,
       TaskRevoke, Shared
<1>3. ASSUME NEW r \in Requests,
             RequestStep(r) \/ Abandon(r) \/ \E l \in Logins : Lookup(r, l)
      PROVE  UNCHANGED <<clock, gate, config, generation, pending, login, lock, received>>
  BY <1>3 DEF RequestStep, Join, Final, Abandon, Lookup
<1>4. ASSUME Tick \/ (\E l \in Logins : Logout(l)) \/ UNCHANGED vars
      PROVE  UNCHANGED <<gate, config, generation, pending, login, request, task, lock,
                         received>>
  BY <1>4 DEF Tick, Logout, Reading, vars
<1> QED BY <1>1, <1>2, <1>3, <1>4 DEF Next

\* What a login has when it begins: the generation in force.
LEMMA BeginLoginFields ==
  ASSUME TypeOK, NEW l \in Logins, BeginLogin(l)
  PROVE  /\ login[l].step = "idle" /\ login'[l].step = "config"
         /\ login'[l].generation = generation
         /\ \A m \in Logins \ {l} : login'[m] = login[m]
<1>1. PICK kind \in {"local", "oidc_login", "oidc_callback"}, from \in Logins \cup {None} :
        login' = [login EXCEPT ![l] = [@ EXCEPT !.step = "config", !.kind = kind,
                                        !.from = from, !.generation = generation]]
  BY DEF BeginLogin
<1>2. login \in [Logins -> Login] /\ login[l].step = "idle"
  BY DEF TypeOK, BeginLogin
<1> QED BY <1>1, <1>2 DEF Login

\* What it has after reading the configuration.
LEMMA ReadConfigFields ==
  ASSUME TypeOK, KindInv, NEW l \in Logins, ReadConfig(l)
  PROVE  /\ login[l].step = "config"
         /\ login'[l].step \in {"verify", "insert", "take"}
         /\ login'[l].step = "take" <=> login[l].kind = "oidc_callback"
         /\ login'[l].generation = login[l].generation
         /\ login'[l].config = config
         /\ login'[l].kind = login[l].kind
         /\ login'[l].from = login[l].from
         /\ \A m \in Logins \ {l} : login'[m] = login[m]
<1> DEFINE next == CASE login[l].kind = "local" -> "verify"
                     [] login[l].kind = "oidc_login" -> "insert"
                     [] login[l].kind = "oidc_callback" -> "take"
<1>1. login' = [login EXCEPT ![l] = [@ EXCEPT !.config = config, !.step = next]]
  BY DEF ReadConfig
<1>2. login[l].step = "config" /\ login \in [Logins -> Login]
  BY DEF ReadConfig, TypeOK
<1>3. next \in {"verify", "insert", "take"} /\ (next = "take" <=> login[l].kind = "oidc_callback")
  BY <1>2 DEF KindInv
<1> HIDE DEF next
<1> QED BY <1>1, <1>2, <1>3 DEF Login

\* What an assignment to a login's step leaves alone.
LEMMA LoginStepFields ==
  ASSUME TypeOK, NEW l \in Logins, NEW st, login' = [login EXCEPT ![l].step = st]
  PROVE  /\ login'[l].step = st
         /\ login'[l].generation = login[l].generation
         /\ login'[l].config = login[l].config
         /\ login'[l].kind = login[l].kind
         /\ login'[l].from = login[l].from
         /\ \A m \in Logins \ {l} : login'[m] = login[m]
BY DEF TypeOK, Login

\* The steps of a login after the first two.
Later(l) ==
  \/ RefuseLogin(l) \/ VerifyPassword(l) \/ InsertPending(l) \/ TakePending(l)
  \/ ExchangeCode(l) \/ RememberSession(l)

\* The remaining steps of a login: where they lead, and what they keep.
LEMMA LaterFields ==
  ASSUME TypeOK, NEW l \in Logins, Later(l)
  PROVE  /\ login[l].step \in {"config", "verify", "insert", "take", "exchange", "remember"}
         /\ login'[l].step \in {"exchange", "remember", "done"}
         /\ login'[l].step = "exchange" => TakePending(l)
         /\ login'[l].step = "remember" =>
              \/ login[l].step = "exchange"
              \/ login[l].step = "verify"
         /\ login'[l].generation = login[l].generation
         /\ login'[l].config = login[l].config
         /\ login'[l].kind = login[l].kind
         /\ login'[l].from = login[l].from
         /\ \A m \in Logins \ {l} : login'[m] = login[m]
<1> DEFINE To(st) == login' = [login EXCEPT ![l].step = st]
<1>1. \/ RefuseLogin(l) /\ To("done")
      \/ VerifyPassword(l) /\ To("remember")
      \/ InsertPending(l) /\ To("done")
      \/ TakePending(l) /\ (To("exchange") \/ To("done"))
      \/ ExchangeCode(l) /\ To("remember")
      \/ RememberSession(l) /\ To("done")
  <2>1. CASE TakePending(l)
    <3> DEFINE usable == /\ pending[login[l].from] # None
                         /\ pending[login[l].from].expires >= clock
                         /\ pending[login[l].from].generation = login[l].generation
    <3>1. login' = [login EXCEPT ![l].step = IF usable THEN "exchange" ELSE "done"]
      BY <2>1 DEF TakePending
    <3> HIDE DEF usable
    <3>2. CASE usable
      BY <2>1, <3>1, <3>2
    <3>3. CASE ~usable
      BY <2>1, <3>1, <3>3
    <3> QED BY <3>2, <3>3
  <2> QED BY <2>1 DEF Later, RefuseLogin, VerifyPassword, InsertPending, ExchangeCode,
                      RememberSession, EndLogin
<1>2. \A st : To(st) =>
        /\ login'[l].step = st
        /\ login'[l].generation = login[l].generation
        /\ login'[l].config = login[l].config
        /\ login'[l].kind = login[l].kind
        /\ login'[l].from = login[l].from
        /\ \A m \in Logins \ {l} : login'[m] = login[m]
  BY LoginStepFields
<1>3. login[l].step \in {"config", "verify", "insert", "take", "exchange", "remember"}
  BY DEF Later, RefuseLogin, VerifyPassword, InsertPending, TakePending, ExchangeCode,
         RememberSession
<1> HIDE DEF To
<1>4. \E st \in {"done", "remember", "exchange"} : To(st)
  BY <1>1
<1>5. To("exchange") => TakePending(l)
  <2> SUFFICES ASSUME To("exchange"), ~TakePending(l) PROVE FALSE
    OBVIOUS
  <2> QED BY <1>1, <1>2
<1>6. To("remember") => login[l].step \in {"exchange", "verify"}
  <2> SUFFICES ASSUME To("remember") PROVE login[l].step \in {"exchange", "verify"}
    OBVIOUS
  <2>1. VerifyPassword(l) \/ ExchangeCode(l)
    BY <1>1, <1>2
  <2> QED BY <2>1 DEF VerifyPassword, ExchangeCode
<1> QED BY <1>2, <1>3, <1>4, <1>5, <1>6

\* A login that is over never starts again.
LEMMA LoginChange ==
  ASSUME Types, [Next]_vars, NEW l \in Logins
  PROVE  BeginLogin(l) \/ ReadConfig(l) \/ Later(l) \/ login'[l] = login[l]
<1> USE DEF Types
<1>1. ASSUME NEW m \in Logins, BeginLogin(m) \/ LoginStep(m)
      PROVE  l = m \/ login'[l] = login[l]
  BY <1>1, BeginLoginFields, ReadConfigFields, LaterFields DEF LoginStep, Later
<1>2. \/ \E m \in Logins : BeginLogin(m) \/ LoginStep(m)
      \/ UNCHANGED login
  BY StepKinds DEF apply_reload, ReloadConfig, ReloadGeneration, ReloadClearSessions,
         ReloadClearPending
<1> QED BY <1>1, <1>2 DEF LoginStep, Later

\* A login that is over does not change.
LEMMA DoneStays ==
  ASSUME Types, [Next]_vars, NEW l \in Logins, login[l].step = "done"
  PROVE  login'[l] = login[l]
<1>1. TypeOK /\ KindInv
  BY DEF Types
<1>2. ~BeginLogin(l) /\ ~ReadConfig(l) /\ ~Later(l)
  BY <1>1, BeginLoginFields, ReadConfigFields, LaterFields
<1> QED BY <1>2, LoginChange

\* The ways a session comes about or changes: a login stores it, a refresh task
\* saves a token or new rights in one that is there; or it goes.
Stored(l) ==
  /\ RememberSession(l)
  /\ gate = "free" /\ login[l].generation = generation
  /\ sessions'[l] \in {NewSession(l), [NewSession(l) EXCEPT !.token = None]}
Saved(r, l) ==
  /\ TaskSave(r)
  /\ l = request[r].id /\ sessions[l] # None
  /\ sessions'[l] = [sessions[l] EXCEPT !.token = task[r].token]
Updated(r, l) ==
  /\ TaskUpdate(r)
  /\ l = request[r].id /\ Usable(l)
  /\ gate = "free" /\ task[r].generation = generation
  /\ sessions'[l] = [sessions[l] EXCEPT !.config = task[r].config, !.checked = clock]

\* remember_session stores one session, and only removes others.
LEMMA RememberedChange ==
  ASSUME TypeOK, NEW l \in Logins, NEW s, Remembered(l, s), NEW m \in Logins
  PROVE  /\ m = l => sessions'[m] = s
         /\ m # l => sessions'[m] \in {sessions[m], None}
<1> DEFINE kept == IF Cardinality(Live) >= SessionLimit THEN Live \ Expired ELSE Live
<1>1. PICK out \in Logins \cup {None} :
        sessions' = [n \in Logins |-> IF n = l THEN s
                                      ELSE IF n \in kept \ {out} THEN sessions[n]
                                      ELSE None]
  BY DEF Remembered
<1> HIDE DEF kept
<1> QED BY <1>1

\* A session changes by being removed, by its login, or by its refresh task.
LEMMA SessionsChange ==
  ASSUME Types, [Next]_vars, NEW m \in Logins
  PROVE  \/ sessions'[m] = sessions[m]
         \/ sessions'[m] = None
         \/ Stored(m)
         \/ \E r \in Requests : Saved(r, m) \/ Updated(r, m)
<1> USE DEF Types
<1> DEFINE Goal == \/ sessions'[m] = sessions[m]
                   \/ sessions'[m] = None
                   \/ Stored(m)
                   \/ \E r \in Requests : Saved(r, m) \/ Updated(r, m)
<1>1. ASSUME NEW l \in Logins, RememberSession(l) PROVE Goal
  <2> DEFINE without == [NewSession(l) EXCEPT !.token = None]
  <2>1. CASE UNCHANGED sessions
    BY <2>1
  <2>2. CASE Remembered(l, NewSession(l)) \/ Remembered(l, without)
    <3>1. CASE m = l
      <4>1. sessions'[m] \in {NewSession(m), [NewSession(m) EXCEPT !.token = None]}
        <5>1. CASE Remembered(l, NewSession(l))
          BY <3>1, <5>1, RememberedChange
        <5>2. CASE Remembered(l, without)
          <6>1. sessions'[m] = without
            <7> HIDE DEF without
            <7> QED BY <3>1, <5>2, RememberedChange
          <6> QED BY <3>1, <6>1
        <5> QED BY <2>2, <5>1, <5>2
      <4>2. gate = "free" /\ (UNCHANGED sessions \/ login[l].generation = generation)
        BY <1>1 DEF RememberSession
      <4> QED BY <1>1, <3>1, <4>1, <4>2 DEF Stored
    <3>2. CASE m # l
      BY <2>2, <3>2, RememberedChange
    <3> QED BY <3>1, <3>2
  <2> QED BY <1>1, <2>1, <2>2 DEF RememberSession
<1>2. ASSUME NEW r \in Requests, TaskSave(r) PROVE Goal
  <2>1. request[r].id \in Logins
    BY <1>2 DEF TaskSave, IdInv
  <2>2. CASE UNCHANGED sessions
    BY <2>2
  <2>3. CASE /\ sessions[request[r].id] # None
             /\ sessions' = [sessions EXCEPT ![request[r].id].token = task[r].token]
    BY <1>2, <2>1, <2>3 DEF Saved, TypeOK
  <2> QED BY <1>2, <2>2, <2>3 DEF TaskSave
<1>3. ASSUME NEW r \in Requests, TaskUpdate(r) PROVE Goal
  <2>1. request[r].id \in Logins
    BY <1>3 DEF TaskUpdate, IdInv
  <2>2. CASE UNCHANGED sessions
    BY <2>2
  <2>3. CASE ~(task[r].generation # generation \/ ~Usable(request[r].id))
    <3>1. sessions' = [sessions EXCEPT ![request[r].id] =
                         [@ EXCEPT !.config = task[r].config, !.checked = clock]]
      BY <1>3, <2>3 DEF TaskUpdate
    <3>2. CASE m = request[r].id
      <4>1. sessions'[m] = [sessions[m] EXCEPT !.config = task[r].config, !.checked = clock]
        BY <3>1, <3>2 DEF TypeOK
      <4>2. gate = "free"
        BY <1>3 DEF TaskUpdate
      <4> QED BY <1>3, <2>3, <3>2, <4>1, <4>2 DEF Updated
    <3>3. CASE m # request[r].id
      BY <3>1, <3>3 DEF TypeOK
    <3> QED BY <3>2, <3>3
  <2> QED BY <1>3, <2>2, <2>3 DEF TaskUpdate
<1>4. CASE UNCHANGED sessions
  BY <1>4
<1>5. CASE sessions' = [l \in Logins |-> None]
  BY <1>5
<1>6. CASE \E l : sessions' = [sessions EXCEPT ![l] = None]
  BY <1>6 DEF TypeOK
<1> QED BY <1>1, <1>2, <1>3, <1>4, <1>5, <1>6
      DEF Next, Tick, apply_reload, ReloadConfig, ReloadGeneration, ReloadClearSessions,
         ReloadClearPending, Logout, RequestStep, Join, Final, Abandon, Lookup, vars,
         BeginLogin, LoginStep, ReadConfig, RefuseLogin, VerifyPassword, InsertPending,
         TakePending, ExchangeCode,
         TaskStep, TaskLock, TaskRecheck, TaskSlot, TaskGate, TaskConfig, TaskPresent,
         TaskUserinfo, TaskUnavailable, TaskRefused, TaskRevoke

\* A session that is logged out, revoked, expired, evicted or cleared by a reload
\* does not come back, whatever refresh tasks are still at work on it:
\* refresh_oidc_session updates the entry it finds and never inserts one.
THEOREM GoneSessionsStayGone == Spec => GoneIsGone
<1>1. Types /\ [Next]_vars =>
        [\A l \in Logins : sessions[l] = None /\ login[l].step = "done"
                             => sessions'[l] = None]_vars
  <2> SUFFICES ASSUME Types, [Next]_vars, NEW l \in Logins,
                      sessions[l] = None, login[l].step = "done"
               PROVE  sessions'[l] = None
    OBVIOUS
  <2>1. ~Stored(l)
    BY DEF Stored, RememberSession
  <2>2. ~\E r \in Requests : Saved(r, l) \/ Updated(r, l)
    BY DEF Saved, Updated, Usable, Live
  <2> QED BY <2>1, <2>2, SessionsChange
<1> QED BY <1>1, InitTypes, NextTypes, PTL DEF Spec, GoneIsGone

\* A transaction changes by being removed or by its own oidc_login.
LEMMA PendingChange ==
  ASSUME Types, [Next]_vars, NEW p \in Logins
  PROVE  \/ pending'[p] = pending[p]
         \/ pending'[p] = None
         \/ InsertPending(p) /\ pending'[p].generation = login[p].generation
<1> USE DEF Types
<1>1. ASSUME NEW l \in Logins, InsertPending(l)
      PROVE  \/ pending'[p] \in {pending[p], None}
             \/ InsertPending(p) /\ pending'[p].generation = login[p].generation
  <2> DEFINE alive == {q \in Logins : pending[q] # None /\ pending[q].expires >= clock}
  <2>1. PICK out \in Logins \cup {None} :
          pending' = [q \in Logins |->
            IF q = l THEN [expires |-> clock + PendingTTL,
                           generation |-> login[l].generation]
            ELSE IF q \in alive \ {out} THEN pending[q] ELSE None]
    BY <1>1 DEF InsertPending
  <2> HIDE DEF alive
  <2>2. CASE p = l
    BY <1>1, <2>1, <2>2
  <2>3. CASE p # l
    BY <2>1, <2>3
  <2> QED BY <2>2, <2>3
<1>2. CASE UNCHANGED pending
  BY <1>2
<1>3. CASE pending' = [l \in Logins |-> None]
  BY <1>3
<1>4. CASE \E q : pending' = [pending EXCEPT ![q] = None]
  BY <1>4 DEF TypeOK
<1> QED BY <1>1, <1>2, <1>3, <1>4
      DEF Next, Tick, apply_reload, ReloadConfig, ReloadGeneration, ReloadClearSessions,
         ReloadClearPending, Logout, RequestStep, Join, Final, Abandon, Lookup, vars,
         BeginLogin, LoginStep, ReadConfig, RefuseLogin, VerifyPassword,
         TakePending, ExchangeCode, RememberSession, Reading,
         TaskStep, TaskLock, TaskRecheck, TaskSlot, TaskGate, TaskConfig, TaskPresent,
         TaskSave, TaskUserinfo, TaskUpdate, TaskUnavailable, TaskRefused, TaskRevoke, Shared

\* Configurations and generations only grow, and not while no reload begins or
\* is under way.
LEMMA ReloadChange ==
  ASSUME Types, [Next]_vars
  PROVE  /\ config \in Nat /\ generation \in Nat
         /\ config' \in Nat /\ generation' \in Nat
         /\ config <= config' /\ generation <= generation'
         /\ apply_reload \/ UNCHANGED <<gate, config, generation>>
         /\ apply_reload => UNCHANGED <<login, task, request, lock, received, clock>>
<1>1. config \in Nat /\ generation \in Nat
  BY SessionsAssumption DEF Types, TypeOK, Generations
<1>2. CASE apply_reload
  BY <1>1, <1>2 DEF apply_reload, ReloadConfig, ReloadGeneration, ReloadClearSessions,
         ReloadClearPending
<1>3. CASE ~apply_reload
  <2>1. UNCHANGED <<gate, config, generation>>
    BY <1>3, StepKinds
  <2> QED BY <1>1, <1>3, <2>1
<1> QED BY <1>2, <1>3

\* Which steps change a request, its task and a session's lock.
LEMMA RequestFields ==
  ASSUME TypeOK, NEW r \in Requests, NEW st, RequestTo(r, st)
  PROVE  /\ request'[r].step = st
         /\ request'[r].id = request[r].id
         /\ request'[r].start = request[r].start
         /\ request'[r].config = request[r].config
         /\ request'[r].checked = request[r].checked
         /\ \A t \in Requests \ {r} : request'[t] = request[t]
BY DEF RequestTo, TypeOK, Request

\* What a request has after the first look at its session.
LEMMA LookupFields ==
  ASSUME TypeOK, NEW r \in Requests, NEW l \in Logins, Lookup(r, l)
  PROVE  /\ request[r].step = "idle"
         /\ request'[r].step \in {"denied", "waiting", "final"}
         /\ request'[r].id = l /\ request'[r].start = clock /\ request'[r].config = config
         /\ \A t \in Requests \ {r} : request'[t] = request[t] /\ task'[t] = task[t]
         /\ request'[r].step = "denied" => task'[r] = task[r]
         /\ request'[r].step = "waiting" => Usable(l) /\ task'[r].step = "lock"
                                             /\ task'[r].generation = task[r].generation
         /\ request'[r].step = "final" => Usable(l) /\ ~Due(l) /\ task'[r] = task[r]
         /\ request'[r].step # "denied" => UNCHANGED sessions
<1>1. PICK st \in {"denied", "waiting", "final"} :
        /\ request' = [request EXCEPT ![r] =
                        [@ EXCEPT !.id = l, !.start = clock, !.config = config, !.step = st]]
        /\ st = "denied" => UNCHANGED task
        /\ st = "waiting" => Usable(l) /\ task' = [task EXCEPT ![r].step = "lock"]
        /\ st = "final" => Usable(l) /\ ~Due(l) /\ UNCHANGED task
        /\ st # "denied" => UNCHANGED sessions
  BY DEF Lookup
<1>2. /\ request'[r].step = st /\ request'[r].id = l /\ request'[r].start = clock
      /\ request'[r].config = config
      /\ \A t \in Requests \ {r} : request'[t] = request[t]
  BY <1>1 DEF TypeOK, Request
<1>3. /\ st = "waiting" => task'[r].step = "lock" /\ task'[r].generation = task[r].generation
      /\ \A t \in Requests \ {r} : task'[t] = task[t]
  BY <1>1 DEF TypeOK, Task
<1>4. request[r].step = "idle"
  BY DEF Lookup
<1> QED BY <1>1, <1>2, <1>3, <1>4

\* The last look at a session grants or denies.
LEMMA FinalFields ==
  ASSUME TypeOK, IdInv, NEW r \in Requests, Final(r)
  PROVE  /\ request[r].step = "final"
         /\ request'[r].step \in {"granted", "denied"}
         /\ request'[r].id = request[r].id
         /\ request'[r].start = request[r].start
         /\ request'[r].config = request[r].config
         /\ \A t \in Requests \ {r} : request'[t] = request[t]
         /\ request'[r].step = "granted" =>
              /\ Usable(request[r].id)
              /\ LET s == sessions[request[r].id] IN
                 request'[r].checked = IF s.source = "oidc" THEN s.checked ELSE None
<1> DEFINE l == request[r].id
           s == sessions[l]
           c == IF s.source = "oidc" THEN s.checked ELSE None
<1>1. request[r].step = "final"
  BY DEF Final
<1>2. CASE RequestTo(r, "denied")
  BY <1>1, <1>2, RequestFields
<1>3. CASE Usable(l) /\ request' = [request EXCEPT ![r] = [@ EXCEPT !.step = "granted",
                                                              !.checked = c]]
  <2> HIDE DEF c
  <2>1. /\ request'[r].step = "granted" /\ request'[r].checked = c
        /\ request'[r].id = request[r].id /\ request'[r].start = request[r].start
        /\ request'[r].config = request[r].config
        /\ \A t \in Requests \ {r} : request'[t] = request[t]
    BY <1>3 DEF TypeOK, Request
  <2> QED BY <1>1, <1>3, <2>1 DEF c
<1> QED BY <1>2, <1>3 DEF Final

\* A request changes by its own steps only.
LEMMA RequestChange ==
  ASSUME Types, [Next]_vars, NEW r \in Requests
  PROVE  \/ request'[r] = request[r]
         \/ \E l \in Logins : Lookup(r, l)
         \/ Join(r) \/ Final(r) \/ Abandon(r)
<1> USE DEF Types
<1>1. ASSUME NEW t \in Requests,
             RequestStep(t) \/ Abandon(t) \/ \E l \in Logins : Lookup(t, l)
      PROVE  r = t \/ request'[r] = request[r]
  <2>1. CASE Join(t) \/ Abandon(t)
    BY <2>1, RequestFields DEF Join, Abandon
  <2>2. CASE Final(t)
    BY <2>2, FinalFields
  <2>3. CASE \E l \in Logins : Lookup(t, l)
    BY <2>3, LookupFields
  <2> QED BY <1>1, <2>1, <2>2, <2>3 DEF RequestStep
<1>2. \/ UNCHANGED request
      \/ \E t \in Requests :
            RequestStep(t) \/ Abandon(t) \/ \E l \in Logins : Lookup(t, l)
  BY StepKinds, ReloadChange
<1> QED BY <1>1, <1>2 DEF RequestStep

\* The id, the time and the first configuration of a request are set once.
LEMMA RequestKept ==
  ASSUME Types, [Next]_vars, NEW r \in Requests, request[r].step # "idle"
  PROVE  /\ request'[r].id = request[r].id /\ request'[r].start = request[r].start
         /\ request'[r].config = request[r].config
         /\ request'[r].step # "idle"
         /\ request'[r].step = "waiting" => request[r].step = "waiting"
         /\ request'[r].step = "final" => request[r].step = "final" \/ Join(r)
<1> USE DEF Types
<1>1. CASE Join(r) \/ Abandon(r)
  BY <1>1, RequestFields DEF Join, Abandon
<1>2. CASE Final(r)
  BY <1>2, FinalFields
<1>3. ~\E l \in Logins : Lookup(r, l)
  BY DEF Lookup
<1> QED BY <1>1, <1>2, <1>3, RequestChange

\* A task takes the session's lock, works while it holds it, and returns it when
\* it is done.
LEMMA TaskStepFields ==
  ASSUME TypeOK, NEW r \in Requests, TaskStep(r)
  PROVE  /\ \A t \in Requests \ {r} : task'[t] = task[t]
         /\ \/ /\ TaskLock(r) /\ task'[r].step = "recheck"
               /\ task'[r].generation = task[r].generation
            \/ /\ task[r].step \in Working /\ task'[r].step = "done"
               /\ task'[r].generation = 0
               /\ \A m \in Logins : lock'[m] = IF m = request[r].id THEN None ELSE lock[m]
            \/ /\ task[r].step \in Working /\ UNCHANGED lock
               /\ \/ /\ task[r].step = "gate" /\ task'[r].step = "config"
                     /\ task'[r].generation = generation
                  \/ /\ task[r].step = "config" /\ task'[r].step = "present"
                     /\ task'[r].generation = task[r].generation
                     /\ task'[r].config = config
                  \/ /\ task'[r].step \in {"slot", "gate", "save", "userinfo", "update", "revoke"}
                     /\ task'[r].step \in {"save", "userinfo", "update"} =>
                          task[r].step \in {"present", "save", "userinfo"}
                     /\ task'[r].generation = task[r].generation
                     /\ task'[r].config = task[r].config
<1> DEFINE Kept(st) == /\ task'[r].step = st
                       /\ task'[r].generation = task[r].generation
                       /\ task'[r].config = task[r].config
                       /\ \A t \in Requests \ {r} : task'[t] = task[t]
           Returned == /\ task'[r].step = "done" /\ task'[r].generation = 0
                       /\ \A t \in Requests \ {r} : task'[t] = task[t]
                       /\ \A m \in Logins : lock'[m] = IF m = request[r].id THEN None
                                                      ELSE lock[m]
<1>1. \A st : TaskTo(r, st) => Kept(st)
  BY TaskToFields
<1>2. \A result : TaskReturn(r, result) => Returned
  BY TaskReturnFields
<1>3. \A a, b : task' = [task EXCEPT ![r] = [@ EXCEPT !.step = a, !.token = b]] => Kept(a)
  <2> SUFFICES ASSUME NEW a, NEW b,
                      task' = [task EXCEPT ![r] = [@ EXCEPT !.step = a, !.token = b]]
               PROVE  Kept(a)
    OBVIOUS
  <2> QED BY TaskTokenFields
<1>4. CASE TaskLock(r)
  <2>1. Kept("recheck")
    BY <1>4, <1>1 DEF TaskLock
  <2> QED BY <1>4, <2>1
<1>5. CASE TaskRecheck(r)
  <2>1. \/ TaskReturn(r, "ok")
        \/ /\ task' = [task EXCEPT ![r] = [@ EXCEPT !.step = "slot",
                                              !.token = sessions[request[r].id].token]]
           /\ UNCHANGED lock
    BY <1>5 DEF TaskRecheck
  <2>2. Returned \/ (Kept("slot") /\ UNCHANGED lock)
    BY <2>1, <1>2, <1>3
  <2>3. task[r].step \in Working
    BY <1>5 DEF TaskRecheck, Working, TaskSteps
  <2> QED BY <2>2, <2>3
<1>6. CASE TaskSlot(r)
  <2>1. TaskTo(r, "revoke") \/ TaskTo(r, "gate")
    BY <1>6 DEF TaskSlot
  <2>2. Kept("revoke") \/ Kept("gate")
    BY <2>1, <1>1
  <2>3. task[r].step \in Working /\ UNCHANGED lock
    BY <1>6 DEF TaskSlot, Working, TaskSteps
  <2> QED BY <2>2, <2>3
<1>7. CASE TaskGate(r)
  <2>1. task' = [task EXCEPT ![r] = [@ EXCEPT !.step = "config", !.generation = generation]]
    BY <1>7 DEF TaskGate
  <2>2. /\ task'[r].step = "config" /\ task'[r].generation = generation
        /\ \A t \in Requests \ {r} : task'[t] = task[t]
    BY <2>1 DEF TypeOK, Task
  <2>3. task[r].step = "gate" /\ task[r].step \in Working /\ UNCHANGED lock
    BY <1>7 DEF TaskGate, Working, TaskSteps
  <2> QED BY <2>2, <2>3
<1>8. CASE TaskConfig(r)
  <2>1. task' = [task EXCEPT ![r] = [@ EXCEPT !.step = "present", !.config = config]]
    BY <1>8 DEF TaskConfig
  <2>2. /\ task'[r].step = "present" /\ task'[r].config = config
        /\ task'[r].generation = task[r].generation
        /\ \A t \in Requests \ {r} : task'[t] = task[t]
    BY <2>1 DEF TypeOK, Task
  <2>3. task[r].step = "config" /\ task[r].step \in Working /\ UNCHANGED lock
    BY <1>8 DEF TaskConfig, Working, TaskSteps
  <2> QED BY <2>2, <2>3
<1>9. CASE TaskPresent(r)
  <2> DEFINE new == task[r].token + 1
  <2>1. \/ task' = [task EXCEPT ![r] = [@ EXCEPT !.step = "save", !.token = new]]
        \/ TaskTo(r, "userinfo")
    BY <1>9 DEF TaskPresent
  <2> HIDE DEF new
  <2>2. Kept("save") \/ Kept("userinfo")
    BY <2>1, <1>1, <1>3
  <2>3. task[r].step = "present" /\ task[r].step \in Working /\ UNCHANGED lock
    BY <1>9 DEF TaskPresent, Working, TaskSteps
  <2> QED BY <2>2, <2>3
<1>10. CASE TaskSave(r)
  <2>1. TaskTo(r, "revoke") \/ TaskTo(r, "userinfo")
    BY <1>10 DEF TaskSave
  <2>2. Kept("revoke") \/ Kept("userinfo")
    BY <2>1, <1>1
  <2>3. task[r].step = "save" /\ task[r].step \in Working /\ UNCHANGED lock
    BY <1>10 DEF TaskSave, Working, TaskSteps
  <2> QED BY <2>2, <2>3
<1>11. CASE TaskUserinfo(r)
  <2>1. Kept("update")
    BY <1>11, <1>1 DEF TaskUserinfo
  <2>2. task[r].step = "userinfo" /\ task[r].step \in Working /\ UNCHANGED lock
    BY <1>11 DEF TaskUserinfo, Working, TaskSteps
  <2> QED BY <2>1, <2>2
<1>12. CASE TaskUpdate(r)
  <2>1. (TaskTo(r, "revoke") /\ UNCHANGED lock) \/ TaskReturn(r, "ok")
    BY <1>12 DEF TaskUpdate
  <2>2. Returned \/ (Kept("revoke") /\ UNCHANGED lock)
    BY <2>1, <1>1, <1>2
  <2>3. task[r].step \in Working
    BY <1>12 DEF TaskUpdate, Working, TaskSteps
  <2> QED BY <2>2, <2>3
<1>13. CASE TaskUnavailable(r)
  <2>1. Returned
    BY <1>13, <1>2 DEF TaskUnavailable
  <2>2. task[r].step \in Working
    BY <1>13 DEF TaskUnavailable, Working, TaskSteps
  <2> QED BY <2>1, <2>2
<1>14. CASE TaskRefused(r)
  <2>1. Kept("revoke")
    BY <1>14, <1>1 DEF TaskRefused
  <2>2. task[r].step \in Working /\ UNCHANGED lock
    BY <1>14 DEF TaskRefused, Working, TaskSteps
  <2> QED BY <2>1, <2>2
<1>15. CASE TaskRevoke(r)
  <2>1. Returned
    BY <1>15, <1>2 DEF TaskRevoke
  <2>2. task[r].step \in Working
    BY <1>15 DEF TaskRevoke, Working, TaskSteps
  <2> QED BY <2>1, <2>2
<1> QED BY <1>4, <1>5, <1>6, <1>7, <1>8, <1>9, <1>10, <1>11, <1>12, <1>13, <1>14, <1>15
        DEF TaskStep

\* A task changes by its own steps only, once its request has spawned it.
LEMMA TaskChange ==
  ASSUME Types, [Next]_vars, NEW r \in Requests
  PROVE  task'[r] = task[r] \/ TaskStep(r) \/ \E l \in Logins : Lookup(r, l)
<1> USE DEF Types
<1>1. ASSUME NEW t \in Requests, TaskStep(t) PROVE r = t \/ task'[r] = task[r]
  BY <1>1, TaskStepFields
<1>2. ASSUME NEW t \in Requests, NEW l \in Logins, Lookup(t, l)
      PROVE  r = t \/ task'[r] = task[r]
  BY <1>2, LookupFields
<1>3. \/ UNCHANGED task
      \/ \E t \in Requests : TaskStep(t) \/ \E l \in Logins : Lookup(t, l)
  <2>1. ASSUME NEW t \in Requests, RequestStep(t) \/ Abandon(t) PROVE UNCHANGED task
    BY <2>1 DEF RequestStep, Join, Final, Abandon
  <2> QED BY StepKinds, ReloadChange, <2>1
<1> QED BY <1>1, <1>2, <1>3

-----------------------------------------------------------------------------
(* Sessions belong to the configuration in force                           *)

\* A login's configuration stays at least as new as its generation.
LEMMA LoginInvKept == Types /\ LoginInv /\ [Next]_vars => LoginInv'
<1> SUFFICES ASSUME Types, LoginInv, [Next]_vars, NEW l \in Logins
             PROVE  /\ login'[l].generation <= generation'
                    /\ login'[l].step \in {"insert", "take", "verify", "exchange", "remember"}
                         => login'[l].config \in login'[l].generation .. config'
                    /\ login'[l].step \in {"insert", "verify"} => login'[l].kind # "oidc_callback"
  BY DEF LoginInv
<1>1. /\ config \in Nat /\ generation \in Nat /\ config' \in Nat /\ generation' \in Nat
      /\ config <= config' /\ generation <= generation'
  BY ReloadChange
<1>2. login[l].generation \in Nat /\ login[l].config \in Nat
  BY SessionsAssumption DEF Types, TypeOK, Login, Generations
<1>3. CASE login'[l] = login[l]
  BY <1>1, <1>2, <1>3 DEF LoginInv
<1>4. CASE BeginLogin(l)
  BY <1>1, <1>4, BeginLoginFields DEF Types
<1>5. CASE ReadConfig(l)
  <2>1. generation <= config
    BY <1>1 DEF Types, GateInv
  <2>2. UNCHANGED <<config, generation>>
    BY <1>5 DEF ReadConfig, Reading
  <2> QED BY <1>1, <1>2, <1>5, <2>1, <2>2, ReadConfigFields DEF Types, LoginInv
<1>6. CASE Later(l)
  <2>1. /\ login[l].step \in {"config", "verify", "insert", "take", "exchange", "remember"}
        /\ login'[l].step \in {"exchange", "remember", "done"}
        /\ login'[l].step # "done" => login[l].step \in {"take", "exchange", "verify"}
        /\ login'[l].generation = login[l].generation
        /\ login'[l].config = login[l].config
    BY <1>6, LaterFields DEF Types, TakePending
  <2> QED BY <1>1, <1>2, <2>1 DEF LoginInv
<1> QED BY <1>3, <1>4, <1>5, <1>6, LoginChange

\* So does a refresh task's.
LEMMA TaskInvKept == Types /\ TaskInv /\ [Next]_vars => TaskInv'
<1> SUFFICES ASSUME Types, TaskInv, [Next]_vars, NEW r \in Requests
             PROVE  /\ task'[r].generation <= generation'
                    /\ task'[r].step \in {"present", "save", "userinfo", "update"} =>
                         task'[r].config \in task'[r].generation .. config'
  BY DEF TaskInv
<1>1. /\ config \in Nat /\ generation \in Nat /\ config' \in Nat /\ generation' \in Nat
      /\ config <= config' /\ generation <= generation'
  BY ReloadChange
<1>2. task[r].generation \in Nat /\ task[r].config \in Nat
  BY SessionsAssumption DEF Types, TypeOK, Task, Generations
<1>3. CASE task'[r] = task[r]
  BY <1>1, <1>2, <1>3 DEF TaskInv
<1>4. CASE TaskStep(r)
  <2>1. generation <= config
    BY <1>1 DEF Types, GateInv
  <2>2. TypeOK
    BY DEF Types
  <2>3. \/ task'[r].step = "recheck" /\ task'[r].generation = task[r].generation
        \/ task'[r].step = "done" /\ task'[r].generation = 0
        \/ task'[r].step = "config" /\ task'[r].generation = generation
        \/ /\ task'[r].step = "present" /\ task'[r].config = config
           /\ task'[r].generation = task[r].generation
        \/ /\ task'[r].step \in {"slot", "gate", "save", "userinfo", "update", "revoke"}
           /\ task'[r].step \in {"save", "userinfo", "update"} =>
                task[r].step \in {"present", "save", "userinfo"}
           /\ task'[r].generation = task[r].generation
           /\ task'[r].config = task[r].config
    BY <1>4, <2>2, TaskStepFields
  <2> QED BY <1>1, <1>2, <2>1, <2>3 DEF TaskInv
<1>5. ASSUME NEW l \in Logins, Lookup(r, l)
      PROVE  /\ task'[r].generation = task[r].generation
             /\ task'[r] = task[r] \/ task'[r].step = "lock"
  BY <1>5, LookupFields DEF Types
<1> QED BY <1>1, <1>2, <1>3, <1>4, <1>5, TaskChange DEF TaskInv

\* A transaction keeps the generation of its login.
LEMMA PendingInvKept == Types /\ PendingInv /\ [Next]_vars => PendingInv'
<1> SUFFICES ASSUME Types, PendingInv, [Next]_vars, NEW p \in Logins, pending'[p] # None
             PROVE  login'[p].step = "done" /\ pending'[p].generation = login'[p].generation
  BY DEF PendingInv
<1>1. CASE pending'[p] = pending[p]
  BY <1>1, DoneStays DEF PendingInv
<1>2. CASE InsertPending(p) /\ pending'[p].generation = login[p].generation
  <2>1. TypeOK /\ login' = [login EXCEPT ![p].step = "done"]
    BY <1>2 DEF Types, InsertPending, EndLogin
  <2> QED BY <1>2, <2>1, LoginStepFields
<1> QED BY <1>1, <1>2, PendingChange

\* Every session in the table is of a login that is over.
LEMMA OwnedSessions ==
  ASSUME Types, OwnerInv, [Next]_vars
  PROVE  \A l \in Logins : sessions'[l] # None => login'[l].step = "done"
<1> SUFFICES ASSUME NEW l \in Logins, sessions'[l] # None PROVE login'[l].step = "done"
  OBVIOUS
<1>1. CASE sessions[l] # None
  BY <1>1, DoneStays DEF OwnerInv, Live
<1>2. CASE sessions[l] = None
  <2>1. Stored(l)
    BY <1>2, SessionsChange DEF Saved, Updated, Usable, Live
  <2>2. EndLogin(l) /\ TypeOK
    BY <2>1 DEF Stored, RememberSession, Types
  <2> QED BY <2>2, LoginStepFields DEF EndLogin
<1> QED BY <1>1, <1>2

\* Whoever holds a session's lock, nobody else is past it.
LEMMA OwnerInvKept == Types /\ OwnerInv /\ [Next]_vars => OwnerInv'
<1> SUFFICES ASSUME Types, OwnerInv, [Next]_vars PROVE OwnerInv'
  OBVIOUS
<1> USE DEF Types
<1>1. \A l \in Live' : login'[l].step = "done"
  BY OwnedSessions DEF Live
<1>2. ASSUME NEW r \in Requests, request'[r].step = "idle" PROVE task'[r].step = "none"
  <2>1. request[r].step = "idle"
    BY <1>2, RequestKept
  <2>2. task[r].step = "none"
    BY <2>1 DEF OwnerInv
  <2>3. ~TaskStep(r)
    BY <2>2, TaskStepFields DEF Working, TaskLock
  <2>4. ~\E l \in Logins : Lookup(r, l)
    BY <1>2, LookupFields
  <2> QED BY <2>2, <2>3, <2>4, TaskChange
<1>3. ASSUME NEW r \in Requests,
             task'[r].step # "none" \/ request'[r].step \in {"waiting", "final"}
      PROVE  request'[r].id \in Logins /\ login'[request'[r].id].step = "done"
  <2>1. CASE request[r].step = "idle"
    <3>1. PICK l \in Logins : Lookup(r, l)
      <4>1. request'[r].step # "idle"
        BY <1>2, <1>3
      <4> QED BY <2>1, <4>1, RequestChange DEF Join, Final, Abandon
    <3>2. task[r].step = "none"
      BY <2>1 DEF OwnerInv
    <3>3. request'[r].id = l /\ Usable(l)
      BY <1>3, <3>1, <3>2, LookupFields
    <3>4. login[l].step = "done"
      BY <3>3 DEF Usable, OwnerInv
    <3> QED BY <3>3, <3>4, DoneStays
  <2>2. CASE request[r].step # "idle"
    <3>1. request'[r].id = request[r].id
      BY <2>2, RequestKept
    <3>2. ~\E l \in Logins : Lookup(r, l)
      BY <2>2 DEF Lookup
    <3>3. task[r].step # "none" \/ request[r].step \in {"waiting", "final"}
      <4>1. CASE task'[r].step # "none"
        <5>1. TaskStep(r) => task[r].step # "none"
          BY TaskStepFields DEF Working, TaskLock
        <5> QED BY <3>2, <4>1, <5>1, TaskChange
      <4>2. CASE request'[r].step \in {"waiting", "final"}
        BY <2>2, <4>2, RequestKept DEF Join
      <4> QED BY <1>3, <4>1, <4>2
    <3>4. request[r].id \in Logins /\ login[request[r].id].step = "done"
      BY <3>3 DEF OwnerInv
    <3> QED BY <3>1, <3>4, DoneStays
  <2> QED BY <2>1, <2>2
<1>4. ASSUME NEW t \in Requests, task'[t].step \in Working
      PROVE  lock'[request'[t].id] = t
  <2>1. \A l \in Logins : ~Lookup(t, l)
    <3> SUFFICES ASSUME NEW l \in Logins, Lookup(t, l) PROVE FALSE
      OBVIOUS
    <3>1. task'[t].step \in {"none", "lock"}
      BY LookupFields DEF OwnerInv
    <3> QED BY <1>4, <3>1 DEF Working
  <2>2. request[t].step # "idle"
    <3>1. request'[t].step # "idle"
      BY <1>2, <1>4 DEF Working
    <3> QED BY <2>1, <3>1, RequestChange DEF Join, Final, Abandon
  <2>3. request'[t].id = request[t].id
    BY <2>2, RequestKept
  <2>4. /\ task[t].step \in Working \/ TaskLock(t)
        /\ request[t].id \in Logins
    <3>1. task[t].step \in Working \/ TaskLock(t)
      BY <1>4, <2>1, TaskChange, TaskStepFields
    <3> QED BY <3>1 DEF Working, TaskLock, OwnerInv
  <2>5. ASSUME NEW r \in Requests, TaskStep(r) PROVE lock'[request[t].id] = t
    <3>1. CASE TaskLock(t)
      BY <2>4, <3>1 DEF TaskLock, TypeOK
    <3>2. CASE task[t].step \in Working
      <4>1. lock[request[t].id] = t
        BY <3>2 DEF OwnerInv
      <4>2. CASE TaskLock(r)
        <5>1. /\ request[t].id # request[r].id
              /\ lock' = [lock EXCEPT ![request[r].id] = r]
          BY <4>1, <4>2, SessionsAssumption DEF TaskLock
        <5> QED BY <2>4, <4>1, <5>1 DEF TypeOK
      <4>3. CASE UNCHANGED lock
        BY <4>1, <4>3
      <4>4. CASE /\ task[r].step \in Working /\ task'[r].step = "done"
                 /\ \A m \in Logins : lock'[m] = IF m = request[r].id THEN None ELSE lock[m]
        <5>1. t # r
          BY <1>4, <4>4 DEF Working
        <5>2. lock[request[r].id] = r
          BY <4>4 DEF OwnerInv
        <5> QED BY <2>4, <4>1, <4>4, <5>1, <5>2
      <4> QED BY <2>5, <4>2, <4>3, <4>4, TaskStepFields
    <3> QED BY <2>4, <3>1, <3>2
  <2>6. CASE UNCHANGED lock
    <3>1. ~TaskLock(t)
      BY <2>4, <2>6, SessionsAssumption DEF TaskLock, TypeOK
    <3> QED BY <2>3, <2>4, <2>6, <3>1 DEF OwnerInv
  <2> QED BY <2>3, <2>5, <2>6, StepKinds, ReloadChange
<1> QED BY <1>1, <1>2, <1>3, <1>4 DEF OwnerInv

\* A callback that goes on found its transaction, of its own generation, and
\* removed it.
LEMMA TakeFields ==
  ASSUME TypeOK, NEW l \in Logins, TakePending(l), login'[l].step = "exchange",
         login[l].from \in Logins
  PROVE  /\ pending[login[l].from] # None
         /\ pending[login[l].from].generation = login[l].generation
         /\ pending'[login[l].from] = None
<1> DEFINE p == login[l].from
           usable == /\ pending[p] # None
                     /\ pending[p].expires >= clock
                     /\ pending[p].generation = login[l].generation
<1>1. /\ login' = [login EXCEPT ![l].step = IF usable THEN "exchange" ELSE "done"]
      /\ pending' = [pending EXCEPT ![p] = None]
  BY DEF TakePending
<1>2. usable
  <2> HIDE DEF usable
  <2> SUFFICES ASSUME ~usable PROVE FALSE
    OBVIOUS
  <2>1. login' = [login EXCEPT ![l].step = "done"]
    BY <1>1
  <2>2. login'[l].step = "done"
    BY <2>1, LoginStepFields
  <2> QED BY <2>2
<1> QED BY <1>1, <1>2 DEF TypeOK

\* A callback comes to use a transaction only by taking it out of the table.
LEMMA UsedChange ==
  ASSUME Types, LoginInv, OwnerInv, [Next]_vars, NEW l \in Logins,
         login'[l].kind = "oidc_callback", Used(l)'
  PROVE  /\ login[l].kind = "oidc_callback" /\ login[l].from \in Logins
         /\ login'[l].from = login[l].from
         /\ login'[l].generation = login[l].generation
         /\ Used(l) \/ (TakePending(l) /\ login'[l].step = "exchange")
<1> USE DEF Types
<1>1. login'[l].step \in {"exchange", "remember", "done"}
  BY OwnedSessions DEF Used, Live
<1>2. ~BeginLogin(l) /\ ~ReadConfig(l)
  BY <1>1, BeginLoginFields, ReadConfigFields
<1>3. /\ login'[l].kind = login[l].kind /\ login'[l].from = login[l].from
      /\ login'[l].generation = login[l].generation
  BY <1>2, LoginChange, LaterFields
<1>4. login[l].from \in Logins
  <2>1. login[l].step # "idle"
    BY <1>1, <1>2, LoginChange, LaterFields
  <2> QED BY <1>3, <2>1 DEF KindInv
<1>5. ASSUME ~Used(l) PROVE TakePending(l) /\ login'[l].step = "exchange"
  <2>1. sessions'[l] = None
    <3> SUFFICES ASSUME sessions'[l] # None PROVE FALSE
      OBVIOUS
    <3>1. sessions[l] = None
      BY <1>5 DEF Used, Live
    <3>2. Stored(l)
      BY <3>1, SessionsChange DEF Saved, Updated, Usable, Live
    <3> QED BY <1>5, <3>2 DEF Stored, RememberSession, Used
  <2>2. login'[l].step \in {"exchange", "remember"}
    BY <2>1 DEF Used, Live
  <2>3. Later(l)
    BY <1>2, <1>5, <2>2, LoginChange DEF Used
  <2>4. login'[l].step # "remember"
    BY <1>3, <1>5, <2>3, LaterFields DEF Used, LoginInv
  <2> QED BY <2>2, <2>3, <2>4, LaterFields
<1> QED BY <1>3, <1>4, <1>5

\* A transaction that was used does not come back.
LEMMA UsedInvKept ==
  Types /\ LoginInv /\ PendingInv /\ OwnerInv /\ UsedInv /\ [Next]_vars => UsedInv'
<1> SUFFICES ASSUME Types, LoginInv, PendingInv, OwnerInv, UsedInv, [Next]_vars,
                    NEW l \in Logins, login'[l].kind = "oidc_callback", Used(l)'
             PROVE  /\ login'[login'[l].from].step = "done"
                    /\ pending'[login'[l].from] = None
                    /\ login'[l].step # "done" =>
                         login'[login'[l].from].generation = login'[l].generation
  BY DEF UsedInv
<1> DEFINE p == login[l].from
<1>1. /\ login[l].kind = "oidc_callback" /\ p \in Logins /\ login'[l].from = p
      /\ login'[l].generation = login[l].generation
      /\ Used(l) \/ (TakePending(l) /\ login'[l].step = "exchange")
  BY UsedChange
<1>2. CASE Used(l)
  <2>1. /\ login[p].step = "done" /\ pending[p] = None
        /\ login[l].step # "done" => login[p].generation = login[l].generation
    BY <1>1, <1>2 DEF UsedInv
  <2>2. login'[p] = login[p]
    BY <1>1, <2>1, DoneStays
  <2>3. pending'[p] = None
    BY <1>1, <2>1, PendingChange DEF InsertPending
  <2>4. login'[l].step # "done" => login[l].step # "done"
    BY DoneStays
  <2> QED BY <1>1, <2>1, <2>2, <2>3, <2>4
<1>3. CASE TakePending(l) /\ login'[l].step = "exchange"
  <2>1. /\ pending[p] # None /\ pending[p].generation = login[l].generation
        /\ pending'[p] = None
    BY <1>1, <1>3, TakeFields DEF Types
  <2>2. login[p].step = "done" /\ pending[p].generation = login[p].generation
    BY <1>1, <2>1 DEF PendingInv
  <2>3. login'[p] = login[p]
    BY <1>1, <2>2, DoneStays
  <2> QED BY <1>1, <2>1, <2>2, <2>3
<1> QED BY <1>1, <1>2, <1>3

\* No step stores a session of another configuration than the one in force.
LEMMA CurrentKept ==
  ASSUME Types, LoginInv, OwnerInv, UsedInv, TaskInv, SessionsAreCurrent, [Next]_vars
  PROVE  SessionsAreCurrent'
<1> SUFFICES ASSUME gate' = "free", NEW l \in Logins, sessions'[l] # None
             PROVE  sessions'[l].config = config' /\ sessions'[l].began = generation'
  BY DEF SessionsAreCurrent, Live
<1> USE DEF Types
<1>1. ~apply_reload
  <2> SUFFICES ASSUME apply_reload PROVE FALSE
    OBVIOUS
  <2>1. ReloadClearPending
    BY DEF apply_reload, ReloadConfig, ReloadGeneration, ReloadClearSessions
  <2> QED BY <2>1 DEF ReloadClearPending, GateInv, Live
<1>2. UNCHANGED <<gate, config, generation>>
  BY <1>1, ReloadChange
<1>3. gate = "free" /\ config = generation /\ generation \in Nat
  BY <1>2, ReloadChange DEF GateInv
<1>4. sessions[l] # None => /\ sessions[l] \in Session
                            /\ sessions[l].config = config /\ sessions[l].began = generation
  BY <1>3 DEF SessionsAreCurrent, Live, TypeOK
<1>5. CASE sessions'[l] = sessions[l]
  BY <1>2, <1>4, <1>5
<1>6. CASE Stored(l)
  <2>1. login[l].step = "remember" /\ login[l].generation = generation
    BY <1>6 DEF Stored, RememberSession
  <2>2. login[l].config = config
    <3>1. login[l].config \in generation .. generation
      BY <1>3, <2>1 DEF LoginInv
    <3> QED BY <1>3, <3>1
  <2>3. NewSession(l).config = config /\ NewSession(l).began = generation
    <3>1. CASE login[l].kind = "oidc_callback"
      BY <2>1, <2>2, <3>1 DEF UsedInv, Used, NewSession
    <3>2. CASE login[l].kind # "oidc_callback"
      BY <2>1, <2>2, <3>2 DEF NewSession
    <3> QED BY <3>1, <3>2
  <2> DEFINE without == [NewSession(l) EXCEPT !.token = None]
  <2>4. without.config = NewSession(l).config /\ without.began = NewSession(l).began
    BY <2>1, NewSessionType
  <2>5. sessions'[l] = NewSession(l) \/ sessions'[l] = without
    BY <1>6 DEF Stored
  <2> HIDE DEF without
  <2> QED BY <1>2, <2>3, <2>4, <2>5
<1>7. ASSUME NEW r \in Requests, Saved(r, l)
      PROVE  sessions'[l].config = config' /\ sessions'[l].began = generation'
  BY <1>2, <1>4, <1>7 DEF Saved, Session
<1>8. ASSUME NEW r \in Requests, Updated(r, l)
      PROVE  sessions'[l].config = config' /\ sessions'[l].began = generation'
  <2>1. /\ task[r].step = "update" /\ task[r].generation = generation
        /\ sessions[l] # None
        /\ sessions'[l] = [sessions[l] EXCEPT !.config = task[r].config, !.checked = clock]
    BY <1>8 DEF Updated, TaskUpdate, Usable, Live
  <2>2. task[r].config = config
    <3>1. task[r].config \in generation .. generation
      BY <1>3, <2>1 DEF TaskInv
    <3> QED BY <1>3, <3>1
  <2> QED BY <1>2, <1>4, <2>1, <2>2 DEF Session
<1> QED BY <1>5, <1>6, <1>7, <1>8, SessionsChange

\* What is known of logins, transactions, sessions and tasks in every state.
Ownership == Types /\ LoginInv /\ PendingInv /\ OwnerInv /\ UsedInv /\ TaskInv

\* There is nobody to own anything at the start.
LEMMA InitOwnership == Init => Ownership
<1> SUFFICES ASSUME Init PROVE Ownership
  OBVIOUS
<1>1. Types
  BY InitTypes
<1>2. LoginInv /\ PendingInv /\ UsedInv
  BY DEF Init, LoginInv, PendingInv, UsedInv, Used, Live
<1>3. OwnerInv /\ TaskInv
  BY DEF Init, OwnerInv, Working, TaskInv, NoTask, Live
<1> QED BY <1>1, <1>2, <1>3 DEF Ownership

\* Ownership is inductive.
LEMMA NextOwnership == Ownership /\ [Next]_vars => Ownership'
BY NextTypes, LoginInvKept, PendingInvKept, OwnerInvKept, UsedInvKept, TaskInvKept
   DEF Ownership

\* When no reload is under way, every session owes its rights to the present
\* configuration and comes from a login that began under it: a reload that
\* overtakes local_login_submit, oidc_login, oidc_callback or
\* refresh_oidc_session, between any two of their steps, leaves no session with
\* rights of the configuration before.
THEOREM SessionsStayCurrent == Spec => []SessionsAreCurrent
<1>1. Init => SessionsAreCurrent
  BY DEF Init, SessionsAreCurrent, Live
<1>2. Ownership /\ SessionsAreCurrent /\ [Next]_vars => SessionsAreCurrent'
  BY CurrentKept DEF Ownership
<1> QED BY <1>1, <1>2, InitOwnership, NextOwnership, PTL DEF Spec

\* One OIDC transaction makes at most one session: of the callbacks that answer
\* to it, however many and however interleaved, at most one gets beyond taking
\* it out of the table.
THEOREM TransactionsAreUsedOnce == Spec => []TransactionUsedOnce
<1> DEFINE Twice(l, m) ==
      /\ l # m /\ login[l].kind = "oidc_callback" /\ login[m].kind = "oidc_callback"
      /\ login[l].from = login[m].from
      /\ login[l].step \in {"exchange", "remember"} /\ Used(m)
<1>1. TransactionUsedOnce <=> \A l, m \in Logins : ~Twice(l, m)
  BY DEF TransactionUsedOnce, Used
<1>2. Init => TransactionUsedOnce
  BY DEF Init, TransactionUsedOnce
<1>3. Ownership /\ TransactionUsedOnce /\ [Next]_vars => TransactionUsedOnce'
  <2> SUFFICES ASSUME Ownership, TransactionUsedOnce, [Next]_vars,
                      NEW l \in Logins, NEW m \in Logins, Twice(l, m)'
               PROVE  FALSE
    BY DEF TransactionUsedOnce, Used
  <2> USE DEF Ownership, Types
  <2> DEFINE p == login[l].from
             Takes(k) == TakePending(k) /\ login'[k].step = "exchange"
  <2>1. /\ login[l].kind = "oidc_callback" /\ login[m].kind = "oidc_callback"
        /\ p \in Logins /\ login[m].from = p
        /\ Used(l) \/ Takes(l)
        /\ Used(m) \/ Takes(m)
    BY UsedChange DEF Used
  <2>2. CASE Used(l) /\ Used(m)
    <3>1. login[l].step # "done"
      BY DoneStays
    <3>2. login[l].step \in {"exchange", "remember"}
      BY <2>2, <3>1 DEF Used, OwnerInv
    <3> QED BY <1>1, <2>1, <2>2, <3>2
  <2>3. CASE (Used(l) /\ Takes(m)) \/ (Used(m) /\ Takes(l))
    <3>1. pending[p] = None
      BY <2>1, <2>3 DEF UsedInv
    <3>2. pending[p] # None
      BY <2>1, <2>3, TakeFields
    <3> QED BY <3>1, <3>2
  <2>4. CASE Takes(l) /\ Takes(m)
    <3>1. login[l].step = "take" /\ login'[l] = login[l]
      BY <2>4, LaterFields DEF TakePending, Later
    <3> QED BY <2>4, <3>1
  <2> QED BY <2>1, <2>2, <2>3, <2>4
<1> QED BY <1>2, <1>3, InitOwnership, NextOwnership, PTL DEF Spec

-----------------------------------------------------------------------------
(* Refresh tokens                                                          *)

\* The provider rotates a token only when a task presents one; an answer that is
\* of no use ends the task.
LEMMA ReceivedChange ==
  ASSUME Types, [Next]_vars, NEW l \in Logins
  PROVE  \/ received'[l] = received[l]
         \/ \E r \in Requests : /\ TaskPresent(r) /\ l = request[r].id
                               /\ received'[l] = task[r].token + 1
                               /\ task'[r].step = "save" /\ task'[r].token = received'[l]
         \/ /\ received'[l] = None
            /\ \E r \in Requests : task[r].step = "present" /\ l = request[r].id
<1> USE DEF Types
<1>1. ASSUME NEW r \in Requests, TaskPresent(r), received'[l] # received[l]
      PROVE  /\ l = request[r].id
             /\ received'[l] = task[r].token + 1
             /\ task'[r].step = "save" /\ task'[r].token = received'[l]
  <2> DEFINE new == task[r].token + 1
  <2>1. /\ task' = [task EXCEPT ![r] = [@ EXCEPT !.step = "save", !.token = new]]
        /\ received' = [received EXCEPT ![request[r].id] = new]
    BY <1>1 DEF TaskPresent
  <2> HIDE DEF new
  <2>2. task'[r].step = "save" /\ task'[r].token = new
    BY <2>1 DEF TypeOK, Task
  <2>3. l = request[r].id /\ received'[l] = new
    BY <1>1, <2>1 DEF TypeOK
  <2> QED BY <2>2, <2>3 DEF new
<1>2. ASSUME NEW r \in Requests, TaskUnavailable(r), received'[l] # received[l]
      PROVE  received'[l] = None /\ task[r].step = "present" /\ l = request[r].id
  BY <1>2 DEF TaskUnavailable, TypeOK
<1>3. UNCHANGED received \/ \E r \in Requests : TaskPresent(r) \/ TaskUnavailable(r)
  <2>1. ASSUME NEW r \in Requests, TaskStep(r)
        PROVE  UNCHANGED received \/ TaskPresent(r) \/ TaskUnavailable(r)
    BY <2>1 DEF TaskStep, TaskLock, TaskRecheck, TaskSlot, TaskGate, TaskConfig,
         TaskSave, TaskUserinfo, TaskUpdate, TaskRefused, TaskRevoke
  <2> QED BY <2>1, StepKinds, ReloadChange
<1> QED BY <1>1, <1>2, <1>3

\* Where the token of a task comes from.
LEMMA TaskTokens ==
  ASSUME TypeOK, NEW r \in Requests, TaskStep(r)
  PROVE  \/ task'[r].step \notin {"slot", "gate", "config", "present", "save"}
         \/ /\ TaskRecheck(r) /\ Usable(request[r].id) /\ task'[r].step = "slot"
            /\ task'[r].token = sessions[request[r].id].token
         \/ /\ task[r].step = "slot" /\ task'[r].step = "gate"
            /\ task[r].token # None /\ task'[r].token = task[r].token
         \/ /\ task[r].step \in {"gate", "config"} /\ task'[r].step \in {"config", "present"}
            /\ task'[r].token = task[r].token
         \/ /\ TaskPresent(r) /\ task'[r].step = "save"
<1>1. CASE TaskRecheck(r)
  <2> DEFINE old == sessions[request[r].id].token
  <2>1. \/ TaskReturn(r, "ok")
        \/ /\ task' = [task EXCEPT ![r] = [@ EXCEPT !.step = "slot", !.token = old]]
           /\ Usable(request[r].id)
    BY <1>1 DEF TaskRecheck
  <2>2. CASE TaskReturn(r, "ok")
    BY <2>2, TaskReturnFields
  <2>3. CASE /\ task' = [task EXCEPT ![r] = [@ EXCEPT !.step = "slot", !.token = old]]
             /\ Usable(request[r].id)
    <3> HIDE DEF old
    <3>1. task'[r].step = "slot" /\ task'[r].token = old
      BY <2>3 DEF TypeOK, Task
    <3> QED BY <1>1, <2>3, <3>1 DEF old
  <2> QED BY <2>1, <2>2, <2>3
<1>2. CASE TaskSlot(r)
  <2>1. \/ TaskTo(r, "revoke")
        \/ TaskTo(r, "gate") /\ task[r].token # None
    BY <1>2 DEF TaskSlot
  <2>2. task[r].step = "slot"
    BY <1>2 DEF TaskSlot
  <2> QED BY <2>1, <2>2, TaskToFields
<1>3. CASE TaskGate(r) \/ TaskConfig(r)
  <2>1. task[r].step \in {"gate", "config"}
    BY <1>3 DEF TaskGate, TaskConfig
  <2>2. task'[r].step \in {"config", "present"} /\ task'[r].token = task[r].token
    <3>1. \/ task' = [task EXCEPT ![r] = [@ EXCEPT !.step = "config", !.generation = generation]]
          \/ task' = [task EXCEPT ![r] = [@ EXCEPT !.step = "present", !.config = config]]
      BY <1>3 DEF TaskGate, TaskConfig
    <3>2. CASE task' = [task EXCEPT ![r] = [@ EXCEPT !.step = "config", !.generation = generation]]
      BY <3>2 DEF TypeOK, Task
    <3>3. CASE task' = [task EXCEPT ![r] = [@ EXCEPT !.step = "present", !.config = config]]
      BY <3>3 DEF TypeOK, Task
    <3> QED BY <3>1, <3>2, <3>3
  <2> QED BY <2>1, <2>2
<1>4. CASE TaskPresent(r)
  <2> DEFINE new == task[r].token + 1
  <2>1. \/ task' = [task EXCEPT ![r] = [@ EXCEPT !.step = "save", !.token = new]]
        \/ TaskTo(r, "userinfo")
    BY <1>4 DEF TaskPresent
  <2> HIDE DEF new
  <2>2. task'[r].step \in {"save", "userinfo"}
    BY <2>1 DEF TaskTo, TypeOK, Task
  <2> QED BY <1>4, <2>2
<1>5. CASE TaskLock(r) \/ TaskSave(r) \/ TaskUserinfo(r) \/ TaskUpdate(r)
           \/ TaskUnavailable(r) \/ TaskRefused(r) \/ TaskRevoke(r)
  <2>1. \/ TaskTo(r, "recheck") \/ TaskTo(r, "userinfo") \/ TaskTo(r, "update")
        \/ TaskTo(r, "revoke")
        \/ \E result : TaskReturn(r, result)
    BY <1>5 DEF TaskLock, TaskSave, TaskUserinfo, TaskUpdate, TaskUnavailable, TaskRefused,
                TaskRevoke
  <2>2. task'[r].step \in {"recheck", "userinfo", "update", "revoke", "done"}
    BY <2>1, TaskToFields, TaskReturnFields
  <2> QED BY <2>2
<1> QED BY <1>1, <1>2, <1>3, <1>4, <1>5 DEF TaskStep

\* No step presents a token that was superseded, or loses the latest one.
LEMMA TokenInvKept == Ownership /\ TokenInv /\ [Next]_vars => TokenInv'
<1> SUFFICES ASSUME Ownership, TokenInv, [Next]_vars PROVE TokenInv'
  OBVIOUS
<1> USE DEF Types, Ownership
<1>1. OwnerInv'
  BY NextOwnership
<1>2. ASSUME NEW l \in Logins, login'[l].step # "done" PROVE received'[l] = 0
  <2>1. login[l].step # "done"
    BY <1>2, DoneStays
  <2>2. \A r \in Requests : ~(task[r].step = "present" /\ l = request[r].id)
    BY <2>1 DEF OwnerInv
  <2>3. \A r \in Requests : ~(TaskPresent(r) /\ l = request[r].id)
    BY <2>2 DEF TaskPresent
  <2> QED BY <2>1, <2>2, <2>3, ReceivedChange DEF TokenInv
<1>3. ASSUME NEW r \in Requests, task[r].step \in Working
      PROVE  /\ request[r].id \in Logins /\ request'[r].id = request[r].id
             /\ lock[request[r].id] = r
             /\ task'[r].step \in Working => lock'[request[r].id] = r
             /\ task'[r] = task[r] \/ TaskStep(r)
  <2>1. /\ request[r].step # "idle" /\ request[r].id \in Logins
        /\ lock[request[r].id] = r
    BY <1>3 DEF OwnerInv, Working
  <2>2. request'[r].id = request[r].id
    BY <2>1, RequestKept
  <2>3. \A l \in Logins : ~Lookup(r, l)
    BY <2>1 DEF Lookup
  <2>4. task'[r].step \in Working => lock'[request'[r].id] = r
    BY <1>1 DEF OwnerInv
  <2> QED BY <2>1, <2>2, <2>3, <2>4, TaskChange
<1> DEFINE Busy(l, r) == /\ lock[l] = r /\ request[r].id = l
                         /\ task[r].step \in {"save", "revoke"}
<1>4. ASSUME NEW l \in Logins, sessions'[l] # None
      PROVE  \/ sessions'[l].token = None \/ received'[l] \in {None, sessions'[l].token}
             \/ \E r \in Requests : Busy(l, r)'
  <2>1. CASE \E r \in Requests : TaskPresent(r) /\ l = request[r].id /\ task'[r].step = "save"
    <3>1. PICK r \in Requests : TaskPresent(r) /\ l = request[r].id /\ task'[r].step = "save"
      BY <2>1
    <3>2. task[r].step \in Working /\ task'[r].step \in Working
      BY <3>1 DEF TaskPresent, Working, TaskSteps
    <3>3. Busy(l, r)'
      BY <1>3, <3>1, <3>2
    <3> QED BY <3>3
  <2>2. CASE received'[l] = received[l]
    <3>1. CASE \E r \in Requests : Busy(l, r)
      <4>1. PICK r \in Requests : Busy(l, r)
        BY <3>1
      <4>2. task[r].step \in Working /\ task[r].step \in {"save", "revoke"}
        BY <4>1 DEF Working, TaskSteps
      <4>3. CASE task'[r].step \in {"save", "revoke"}
        <5>1. task'[r].step \in Working
          BY <4>3 DEF Working, TaskSteps
        <5>2. Busy(l, r)'
          BY <1>3, <4>1, <4>2, <4>3, <5>1
        <5> QED BY <5>2
      <4>4. CASE task'[r].step \notin {"save", "revoke"}
        <5>1. TaskStep(r)
          BY <1>3, <4>2, <4>4
        <5>2. TaskSave(r) \/ TaskRevoke(r)
          BY <4>2, <5>1 DEF TaskStep, TaskLock, TaskRecheck, TaskSlot, TaskGate, TaskConfig,
             TaskPresent, TaskUserinfo, TaskUpdate, TaskUnavailable, TaskRefused
        <5>3. ~TaskRevoke(r)
          BY <1>4, <4>1 DEF TaskRevoke, TypeOK
        <5>4. sessions' = IF sessions[l] = None THEN sessions
                          ELSE [sessions EXCEPT ![l].token = task[r].token]
          <6>1. ~TaskTo(r, "revoke")
            BY <4>4, TaskToFields
          <6> QED BY <4>1, <5>2, <5>3, <6>1 DEF TaskSave
        <5>5. task[r].step = "save"
          BY <5>2, <5>3 DEF TaskSave
        <5>6. sessions'[l].token = task[r].token
          BY <1>4, <5>4 DEF TypeOK, Session
        <5>7. received[l] \in {None, task[r].token}
          BY <4>1, <5>5 DEF TokenInv
        <5> QED BY <2>2, <5>6, <5>7
      <4> QED BY <4>3, <4>4
    <3>2. CASE /\ sessions[l] # None
               /\ sessions[l].token = None \/ received[l] \in {None, sessions[l].token}
      <4>1. sessions[l] \in Session
        BY <3>2 DEF TypeOK
      <4>2. ~Stored(l)
        BY <3>2 DEF Stored, RememberSession, OwnerInv, Live
      <4>3. CASE sessions'[l] = sessions[l]
        BY <2>2, <3>2, <4>3
      <4>4. ASSUME NEW r \in Requests, Saved(r, l)
            PROVE  received[l] \in {None, sessions'[l].token}
        <5>1. received[l] \in {None, task[r].token}
          BY <4>4 DEF Saved, TaskSave, TokenInv
        <5> QED BY <4>1, <4>4, <5>1 DEF Saved, Session
      <4>5. ASSUME NEW r \in Requests, Updated(r, l)
            PROVE  sessions'[l].token = sessions[l].token
        BY <4>1, <4>5 DEF Updated, Session
      <4> QED BY <1>4, <2>2, <3>2, <4>2, <4>3, <4>4, <4>5, SessionsChange
    <3>3. CASE sessions[l] = None
      <4>1. Stored(l)
        BY <1>4, <3>3, SessionsChange DEF Saved, Updated, Usable, Live
      <4>2. login[l].step = "remember" /\ received[l] = 0
        BY <4>1 DEF Stored, RememberSession, TokenInv
      <4> DEFINE without == [NewSession(l) EXCEPT !.token = None]
      <4>3. without.token = None
        BY <4>2, NewSessionType
      <4>4. NewSession(l).token \in {0, None}
        BY DEF NewSession
      <4>5. sessions'[l] = NewSession(l) \/ sessions'[l] = without
        BY <4>1 DEF Stored
      <4> HIDE DEF without
      <4> QED BY <2>2, <4>2, <4>3, <4>4, <4>5
    <3> QED BY <3>1, <3>2, <3>3 DEF TokenInv, Live
  <2> QED BY <2>1, <2>2, ReceivedChange
<1>5. ASSUME NEW r \in Requests,
             task'[r].step \in {"slot", "gate", "config", "present", "save"}
      PROVE  /\ task'[r].step = "slot" =>
                  task'[r].token = None \/ received'[request'[r].id] \in {None, task'[r].token}
             /\ task'[r].step # "slot" =>
                  received'[request'[r].id] \in {None, task'[r].token}
  <2> DEFINE l == request[r].id
  <2>1. task[r].step \in Working
    <3>1. \A m \in Logins : ~Lookup(r, m)
      <4> SUFFICES ASSUME NEW m \in Logins, Lookup(r, m) PROVE FALSE
        OBVIOUS
      <4>1. task'[r].step \in {"none", "lock"}
        BY LookupFields DEF OwnerInv
      <4> QED BY <1>5, <4>1
    <3>2. ASSUME TaskStep(r) PROVE task[r].step \in Working
      <4>1. ~(TaskLock(r) /\ task'[r].step = "recheck")
        BY <1>5
      <4> QED BY <3>2, <4>1, TaskStepFields
    <3>3. CASE task'[r] = task[r]
      BY <1>5, <3>3 DEF Working, TaskSteps
    <3> QED BY <3>1, <3>2, <3>3, TaskChange
  <2>2. l \in Logins /\ request'[r].id = l /\ lock[l] = r
        /\ (task'[r] = task[r] \/ TaskStep(r))
    BY <1>3, <2>1
  <2>3. \/ received'[l] \in {received[l], None}
        \/ TaskPresent(r) /\ task'[r].step = "save" /\ task'[r].token = received'[l]
    <3>1. \A t \in Requests : TaskPresent(t) /\ l = request[t].id => t = r
      BY <1>3, <2>2 DEF TaskPresent, Working, TaskSteps
    <3> QED BY <2>2, <3>1, ReceivedChange
  <2>4. CASE TaskPresent(r)
    <3>1. task'[r].step = "save"
      <4>1. TaskStep(r) /\ task[r].step = "present"
        BY <2>4 DEF TaskStep, TaskPresent
      <4> QED BY <1>5, <4>1, TaskTokens DEF TaskRecheck
    <3>2. task'[r].token = received'[l]
      <4> DEFINE new == task[r].token + 1
      <4>1. \/ /\ task' = [task EXCEPT ![r] = [@ EXCEPT !.step = "save", !.token = new]]
              /\ received' = [received EXCEPT ![l] = new]
            \/ TaskTo(r, "userinfo")
        BY <2>4 DEF TaskPresent
      <4> HIDE DEF new
      <4>2. ~TaskTo(r, "userinfo")
        BY <3>1, TaskToFields
      <4>3. task'[r].token = new
        <5>1. task' = [task EXCEPT ![r] = [@ EXCEPT !.step = "save", !.token = new]]
          BY <4>1, <4>2
        <5> QED BY <5>1 DEF TypeOK, Task
      <4> QED BY <2>2, <4>1, <4>2, <4>3 DEF TypeOK
    <3> QED BY <2>2, <3>1, <3>2
  <2>5. CASE ~TaskPresent(r) /\ task'[r] = task[r]
    BY <1>5, <2>2, <2>3, <2>5 DEF TokenInv
  <2>6. CASE ~TaskPresent(r) /\ TaskStep(r)
    <3>1. received'[l] \in {received[l], None} /\ request'[r].id = l
      BY <2>2, <2>3, <2>6
    <3>2. CASE TaskRecheck(r) /\ Usable(l) /\ task'[r].step = "slot"
               /\ task'[r].token = sessions[l].token
      <4>1. \A t \in Requests : ~Busy(l, t)
        BY <2>2, <3>2 DEF TaskRecheck
      <4>2. sessions[l].token = None \/ received[l] \in {None, sessions[l].token}
        BY <2>2, <3>2, <4>1 DEF TokenInv, Usable
      <4> QED BY <3>1, <3>2, <4>2
    <3>3. CASE /\ task[r].step = "slot" /\ task'[r].step = "gate"
               /\ task[r].token # None /\ task'[r].token = task[r].token
      BY <3>1, <3>3 DEF TokenInv
    <3>4. CASE /\ task[r].step \in {"gate", "config"} /\ task'[r].step \in {"config", "present"}
               /\ task'[r].token = task[r].token
      BY <3>1, <3>4 DEF TokenInv
    <3> QED BY <1>5, <2>6, <3>2, <3>3, <3>4, TaskTokens
  <2> QED BY <2>2, <2>4, <2>5, <2>6
<1> QED BY <1>2, <1>4, <1>5 DEF TokenInv, Live

\* However many requests find a session due, and however their refresh tasks
\* interleave with reloads, logouts and each other, refresh_oidc_session
\* presents the provider's latest refresh token, unless the answer that brought
\* it was lost or had no access token.
THEOREM TokensAreLatest == Spec => []NoSupersededToken
<1>1. Init => TokenInv
  BY DEF Init, TokenInv, NoTask, Live
<1>2. TokenInv => NoSupersededToken
  BY DEF TokenInv, NoSupersededToken
<1> QED BY <1>1, <1>2, InitOwnership, NextOwnership, TokenInvKept, PTL DEF Spec

-----------------------------------------------------------------------------
(* Grants                                                                  *)

\* Time does not go back.
LEMMA ClockChange ==
  ASSUME Types, [Next]_vars
  PROVE  /\ clock \in Nat /\ clock' \in Nat /\ clock <= clock'
         /\ Tick \/ UNCHANGED clock
<1>1. clock \in Nat
  BY SessionsAssumption DEF Types, TypeOK, Times
<1>2. Tick \/ UNCHANGED clock
  BY StepKinds, ReloadChange DEF Logout, Reading, vars
<1> QED BY <1>1, <1>2 DEF Tick

\* The time of the last check of a session's rights is never in the future,
\* and only moves up.
LEMMA CheckedKept ==
  ASSUME Ownership, FreshInv, [Next]_vars, NEW l \in Logins, sessions'[l] # None
  PROVE  /\ sessions'[l].checked <= clock'
         /\ login[l].step = "done" =>
              /\ sessions[l] # None /\ sessions'[l].source = sessions[l].source
              /\ sessions[l].checked \in Nat
              /\ sessions'[l].checked \in {sessions[l].checked, clock}
<1> USE DEF Ownership, Types
<1>1. sessions[l] # None => /\ sessions[l] \in Session /\ sessions[l].checked \in Nat
                            /\ sessions[l].checked <= clock
  BY SessionsAssumption DEF FreshInv, Live, TypeOK, Session, Times
<1>2. clock \in Nat /\ clock' \in Nat /\ clock <= clock'
  BY ClockChange
<1>3. CASE sessions'[l] = sessions[l]
  BY <1>1, <1>2, <1>3
<1>4. CASE Stored(l)
  <2>1. login[l].step = "remember"
    BY <1>4 DEF Stored, RememberSession
  <2>2. NewSession(l).checked <= clock'
    <3>1. NewSession(l).checked \in {0, clock}
      BY DEF NewSession
    <3> QED BY <1>2, <3>1
  <2> DEFINE without == [NewSession(l) EXCEPT !.token = None]
  <2>3. without.checked = NewSession(l).checked
    BY <2>1, NewSessionType
  <2>4. sessions'[l] = NewSession(l) \/ sessions'[l] = without
    BY <1>4 DEF Stored
  <2> HIDE DEF without
  <2> QED BY <2>1, <2>2, <2>3, <2>4
<1>5. ASSUME NEW r \in Requests, Saved(r, l)
      PROVE  /\ sessions[l] # None /\ sessions'[l].source = sessions[l].source
             /\ sessions'[l].checked = sessions[l].checked
  BY <1>1, <1>5 DEF Saved, Session
<1>6. ASSUME NEW r \in Requests, Updated(r, l)
      PROVE  /\ sessions[l] # None /\ sessions'[l].source = sessions[l].source
             /\ sessions'[l].checked = clock
  <2>1. sessions[l] # None
    BY <1>6 DEF Updated, Usable, Live
  <2> QED BY <1>1, <1>6, <2>1 DEF Updated, Session
<1> QED BY <1>1, <1>2, <1>3, <1>4, <1>5, <1>6, SessionsChange

\* The configurations in force while a request runs become more.
LEMMA RecentKept ==
  ASSUME Types, [Next]_vars, NEW start \in Nat, NEW since \in Generations,
         NEW checked \in Nat, NEW later \in Nat, checked <= later,
         Recent(start, since, checked)
  PROVE  \E c \in since .. config' : start < later + Interval[c]
<1>1. config \in Nat /\ config' \in Nat /\ config <= config'
  BY ReloadChange
<1>2. since \in Nat /\ config <= MaxReloads /\ MaxReloads \in Nat
  BY SessionsAssumption DEF Types, TypeOK, Generations
<1>3. PICK c \in since .. config : start < checked + Interval[c]
  BY DEF Recent
<1>4. c \in Generations /\ c \in since .. config'
  BY <1>1, <1>2 DEF Generations
<1>5. Interval[c] \in Nat
  BY <1>4, SessionsAssumption
<1>6. start < later + Interval[c]
  BY <1>3, <1>5
<1> QED BY <1>4, <1>6

\* What FreshInv says of one request, with the types of its fields.
LEMMA FreshFacts ==
  ASSUME TypeOK, FreshInv, NEW r \in Requests
  PROVE  /\ request[r].start <= clock /\ request[r].config <= config
         /\ request[r].start \in Nat /\ request[r].config \in Generations
         /\ clock \in Nat /\ config \in Generations
         /\ Interval[config] \in Nat \ {0}
         /\ Judged(r) => Fresh(r)
<1>1. request[r].start <= clock /\ request[r].config <= config /\ (Judged(r) => Fresh(r))
  BY Zenon DEF FreshInv
<1>2. request[r].start \in Nat /\ request[r].config \in Generations
  BY SessionsAssumption DEF TypeOK, Request, Times
<1>3. clock \in Nat /\ config \in Generations
  BY SessionsAssumption DEF TypeOK, Times
<1> QED BY <1>1, <1>2, <1>3, SessionsAssumption

\* Rights that were checked since a request came in are recent.
LEMMA RecentNow ==
  ASSUME config \in Generations, NEW start \in Nat, NEW since \in Generations,
         NEW checked \in Nat, start < checked + Interval[config], since <= config
  PROVE  Recent(start, since, checked)
BY SessionsAssumption DEF Recent, Generations

\* A request whose session was fresh when it came in finds it no older later.
LEMMA FreshKept ==
  ASSUME Ownership, FreshInv, [Next]_vars, NEW r \in Requests,
         request[r].step # "idle", request[r].id \in Logins,
         login[request[r].id].step = "done", Fresh(r)
  PROVE  Fresh(r)'
<1> DEFINE l == request[r].id
<1>1. /\ request'[r].id = l /\ request'[r].start = request[r].start
      /\ request'[r].config = request[r].config
  BY RequestKept DEF Ownership
<1>2. request[r].start \in Nat /\ request[r].config \in Generations /\ clock \in Nat
  BY SessionsAssumption DEF Ownership, Types, TypeOK, Request, Times
<1> SUFFICES ASSUME sessions'[l] # None, sessions'[l].source = "oidc"
             PROVE  \E c \in request[r].config .. config' :
                      request[r].start < sessions'[l].checked + Interval[c]
  BY <1>1 DEF Fresh, Live, Recent
<1>3. /\ sessions[l] # None /\ sessions[l].source = "oidc" /\ sessions[l].checked \in Nat
      /\ sessions'[l].checked \in {sessions[l].checked, clock}
  BY CheckedKept
<1>4. sessions[l].checked <= clock /\ Recent(request[r].start, request[r].config, sessions[l].checked)
  BY <1>3 DEF Fresh, FreshInv, Live
<1>5. sessions'[l].checked \in Nat /\ sessions[l].checked <= sessions'[l].checked
  BY <1>2, <1>3, <1>4
<1> QED BY <1>2, <1>3, <1>4, <1>5, RecentKept DEF Ownership

\* A task that returns, and not because the provider is unavailable, leaves the
\* session fresh for the request that waits for it, or ended.
LEMMA ReturnFresh ==
  ASSUME Ownership, FreshInv, [Next]_vars, NEW r \in Requests, TaskStep(r),
         task'[r].step = "done", task'[r].result # "unavailable"
  PROVE  Fresh(r)'
<1> USE DEF Ownership, Types
<1> DEFINE l == request[r].id
<1>1. /\ l \in Logins /\ request' = request
  <2>1. task[r].step # "none"
    BY TaskStepFields DEF Working, TaskLock
  <2> QED BY <2>1, StepKinds DEF OwnerInv, TaskStep, TaskLock, TaskRecheck, TaskSlot, TaskGate,
       TaskConfig, TaskPresent, TaskSave, TaskUserinfo, TaskUpdate, TaskUnavailable,
       TaskRefused, TaskRevoke, Shared
<1>2. /\ request[r].start \in Nat /\ request[r].start <= clock /\ clock \in Nat
      /\ request[r].config \in Generations /\ request[r].config <= config
      /\ config \in Generations /\ Interval[config] \in Nat \ {0}
  BY FreshFacts
<1>10. config' = config
  BY StepKinds DEF TaskStep, TaskLock, TaskRecheck, TaskSlot, TaskGate,
       TaskConfig, TaskPresent, TaskSave, TaskUserinfo, TaskUpdate, TaskUnavailable,
       TaskRefused, TaskRevoke, Shared
<1> SUFFICES ASSUME sessions'[l] # None, sessions'[l].source = "oidc"
             PROVE  Recent(request[r].start, request[r].config, sessions'[l].checked)
  BY <1>1, <1>10 DEF Fresh, Live, Recent
<1>3. sessions' # [sessions EXCEPT ![l] = None]
  BY <1>1 DEF TypeOK
<1>4. CASE TaskRecheck(r)
  <2>1. \/ Usable(l) /\ ~Due(l) /\ UNCHANGED sessions
        \/ task' = [task EXCEPT ![r] = [@ EXCEPT !.step = "slot", !.token = sessions[l].token]]
    BY <1>3, <1>4 DEF TaskRecheck
  <2>2. task' # [task EXCEPT ![r] = [@ EXCEPT !.step = "slot", !.token = sessions[l].token]]
    <3> DEFINE old == sessions[l].token
    <3> HIDE DEF old
    <3>1. task' # [task EXCEPT ![r] = [@ EXCEPT !.step = "slot", !.token = old]]
      BY DEF TypeOK, Task
    <3> QED BY <3>1 DEF old
  <2>3. ~(clock - sessions[l].checked >= Interval[config]) /\ UNCHANGED sessions
    BY <2>1, <2>2 DEF Due
  <2>4. sessions[l].checked \in Nat
    BY <1>1, <2>3, SessionsAssumption DEF TypeOK, Session, Times
  <2>5. request[r].start < sessions[l].checked + Interval[config]
    BY <1>2, <2>3, <2>4
  <2> QED BY <1>2, <2>3, <2>4, <2>5, RecentNow
<1>5. CASE TaskUpdate(r)
  <2>1. CASE TaskTo(r, "revoke")
    BY <2>1, TaskToFields
  <2>2. CASE Usable(l) /\ sessions' = [sessions EXCEPT ![l] = [@ EXCEPT !.config = task[r].config,
                                                                   !.checked = clock]]
    <3>1. sessions[l] \in Session
      BY <1>1, <2>2 DEF Usable, Live, TypeOK
    <3>2. sessions'[l] = [sessions[l] EXCEPT !.config = task[r].config, !.checked = clock]
      BY <1>1, <2>2 DEF TypeOK
    <3>3. sessions'[l].checked = clock
      BY <3>1, <3>2 DEF Session
    <3>4. request[r].start < clock + Interval[config]
      BY <1>2
    <3> QED BY <1>2, <3>3, <3>4, RecentNow
  <2> QED BY <1>5, <2>1, <2>2 DEF TaskUpdate
<1>6. ~TaskRevoke(r)
  BY <1>3 DEF TaskRevoke
<1>7. ~TaskUnavailable(r)
  BY TaskReturnFields DEF TaskUnavailable
<1>8. ~(TaskLock(r) \/ TaskSlot(r) \/ TaskSave(r) \/ TaskUserinfo(r) \/ TaskRefused(r))
  <2> SUFFICES ASSUME TaskLock(r) \/ TaskSlot(r) \/ TaskSave(r) \/ TaskUserinfo(r)
                      \/ TaskRefused(r)
               PROVE  FALSE
    OBVIOUS
  <2>1. PICK st \in {"recheck", "revoke", "gate", "userinfo", "update"} : TaskTo(r, st)
    BY DEF TaskLock, TaskSlot, TaskSave, TaskUserinfo, TaskRefused
  <2> QED BY <2>1, TaskToFields
<1>9. ~TaskGate(r) /\ ~TaskConfig(r) /\ ~TaskPresent(r)
  <2>1. ~TaskGate(r)
    <3> SUFFICES ASSUME TaskGate(r) PROVE FALSE
      OBVIOUS
    <3>1. task' = [task EXCEPT ![r] = [@ EXCEPT !.step = "config", !.generation = generation]]
      BY DEF TaskGate
    <3> QED BY <3>1 DEF TypeOK, Task
  <2>2. ~TaskConfig(r)
    <3> SUFFICES ASSUME TaskConfig(r) PROVE FALSE
      OBVIOUS
    <3>1. task' = [task EXCEPT ![r] = [@ EXCEPT !.step = "present", !.config = config]]
      BY DEF TaskConfig
    <3> QED BY <3>1 DEF TypeOK, Task
  <2>3. ~TaskPresent(r)
    <3> SUFFICES ASSUME TaskPresent(r) PROVE FALSE
      OBVIOUS
    <3> DEFINE new == task[r].token + 1
    <3>1. \/ task' = [task EXCEPT ![r] = [@ EXCEPT !.step = "save", !.token = new]]
          \/ TaskTo(r, "userinfo")
      BY DEF TaskPresent
    <3> HIDE DEF new
    <3> QED BY <3>1 DEF TaskTo, TypeOK, Task
  <2> QED BY <2>1, <2>2, <2>3
<1> QED BY <1>4, <1>5, <1>6, <1>7, <1>8, <1>9 DEF TaskStep

\* What a request has found fresh stays so until the request is answered.
LEMMA FreshInvKept == Ownership /\ FreshInv /\ [Next]_vars => FreshInv'
<1> SUFFICES ASSUME Ownership, FreshInv, [Next]_vars PROVE FreshInv'
  OBVIOUS
<1> USE DEF Ownership, Types
<1>1. \A l \in Live' : sessions'[l].checked <= clock'
  BY CheckedKept DEF Live
<1>2. ASSUME NEW r \in Requests
      PROVE  request'[r].start <= clock' /\ request'[r].config <= config'
  <2>1. /\ request[r].start \in Nat /\ request[r].start <= clock
        /\ clock \in Nat /\ clock' \in Nat /\ clock <= clock'
    BY ClockChange, FreshFacts
  <2>2. /\ request[r].config \in Nat /\ request[r].config <= config
        /\ config \in Nat /\ config' \in Nat /\ config <= config'
    BY ReloadChange, FreshFacts, SessionsAssumption DEF Generations
  <2>3. CASE \E l \in Logins : Lookup(r, l)
    BY <2>1, <2>2, <2>3, LookupFields
  <2>4. CASE request'[r] = request[r]
    BY <2>1, <2>2, <2>4
  <2>5. CASE Join(r) \/ Abandon(r)
    BY <2>1, <2>2, <2>5, RequestFields DEF Join, Abandon
  <2>6. CASE Final(r)
    BY <2>1, <2>2, <2>6, FinalFields
  <2> QED BY <2>3, <2>4, <2>5, <2>6, RequestChange
<1>3. ASSUME NEW r \in Requests, Judged(r)' PROVE Fresh(r)'
  <2>1. CASE request[r].step = "idle"
    <3>1. PICK l \in Logins : Lookup(r, l)
      <4>1. request'[r] # request[r]
        BY <1>3, <2>1 DEF Judged
      <4> QED BY <2>1, <4>1, RequestChange DEF Join, Final, Abandon
    <3>2. /\ request'[r].step = "final" /\ request'[r].id = l /\ request'[r].start = clock
          /\ request'[r].config = config
          /\ Usable(l) /\ ~Due(l) /\ UNCHANGED <<sessions, config>>
      BY <1>3, <3>1, LookupFields DEF Judged, Lookup
    <3> SUFFICES ASSUME sessions[l].source = "oidc"
                 PROVE  Recent(clock, config, sessions[l].checked)
      BY <3>2 DEF Fresh, Live, Recent
    <3>3. ~(clock - sessions[l].checked >= Interval[config])
      BY <3>2 DEF Due
    <3>4. /\ sessions[l].checked \in Nat /\ clock \in Nat
          /\ config \in Generations /\ config <= config /\ Interval[config] \in Nat
      BY <3>2, SessionsAssumption DEF TypeOK, Session, Times, Usable, Live, Generations
    <3>5. clock < sessions[l].checked + Interval[config]
      BY <3>3, <3>4
    <3> QED BY <3>4, <3>5, RecentNow
  <2>2. CASE request[r].step # "idle" /\ Judged(r)
    <3>1. request[r].id \in Logins /\ login[request[r].id].step = "done"
      BY <2>2 DEF Judged, OwnerInv
    <3> QED BY <2>2, <3>1, FreshFacts, FreshKept
  <2>3. CASE request[r].step # "idle" /\ ~Judged(r)
    <3>1. request'[r].step # "final"
      <4> SUFFICES ASSUME request'[r].step = "final" PROVE FALSE
        OBVIOUS
      <4>1. Join(r)
        BY <2>3, RequestKept DEF Judged
      <4>2. task[r].result = "unavailable"
        BY <2>3, <4>1 DEF Judged, Join
      <4>3. RequestTo(r, "unavailable")
        BY <4>1, <4>2 DEF Join
      <4> QED BY <4>3, RequestFields
    <3>2. /\ task'[r].step = "done" /\ task'[r].result # "unavailable"
          /\ request[r].step = "waiting"
      BY <1>3, <2>3, <3>1, RequestKept DEF Judged
    <3>3. TaskStep(r)
      BY <2>3, <3>2, TaskChange DEF Judged, Lookup
    <3> QED BY <3>2, <3>3, ReturnFresh
  <2> QED BY <2>1, <2>2, <2>3
<1> QED BY <1>1, <1>2, <1>3 DEF FreshInv

\* A request is granted on an OIDC session only with rights that the provider
\* confirmed less than one refresh interval before the request came in, by a
\* configuration that was in force while the request ran, whatever other
\* tasks, reloads and logouts do while session_from_headers waits for the
\* refresh; while the provider is unavailable it is not granted.
THEOREM GrantsAreFresh == Spec => []NoStaleGrant
<1>1. Init => FreshInv /\ NoStaleGrant
  BY SessionsAssumption DEF Init, FreshInv, Judged, Live, NoStaleGrant
<1>2. Ownership /\ FreshInv /\ NoStaleGrant /\ [Next]_vars => NoStaleGrant'
  <2> SUFFICES ASSUME Ownership, FreshInv, NoStaleGrant, [Next]_vars, NEW r \in Requests,
                      request'[r].step = "granted", request'[r].checked # None
               PROVE  \E c \in request'[r].config .. config' :
                        request'[r].start < request'[r].checked + Interval[c]
    BY DEF NoStaleGrant, Recent
  <2> USE DEF Ownership, Types
  <2>5. /\ request[r].start \in Nat /\ request[r].config \in Generations
        /\ request[r].checked # None => request[r].checked \in Nat
    BY SessionsAssumption DEF TypeOK, Request, Times
  <2>1. CASE request'[r] = request[r]
    <3>1. Recent(request[r].start, request[r].config, request[r].checked)
      BY <2>1 DEF NoStaleGrant
    <3>2. request[r].checked \in Nat /\ request[r].checked <= request[r].checked
      BY <2>1, <2>5
    <3> QED BY <2>1, <2>5, <3>1, <3>2, RecentKept
  <2>2. CASE Final(r)
    <3> DEFINE s == sessions[request[r].id]
    <3>1. /\ request[r].step = "final" /\ Usable(request[r].id)
          /\ request'[r].start = request[r].start
          /\ request'[r].config = request[r].config
          /\ request'[r].checked = IF s.source = "oidc" THEN s.checked ELSE None
      BY <2>2, FinalFields
    <3>2. s.source = "oidc" /\ request'[r].checked = s.checked
      BY <3>1
    <3>3. Fresh(r)
      BY <3>1, FreshFacts DEF Judged
    <3>4. Recent(request[r].start, request[r].config, s.checked)
      BY <3>1, <3>2, <3>3 DEF Fresh, Usable
    <3>5. s.checked \in Nat /\ s.checked <= s.checked
      BY <3>1, SessionsAssumption DEF TypeOK, Session, Times, Usable, Live
    <3> QED BY <2>5, <3>1, <3>2, <3>4, <3>5, RecentKept
  <2>3. ~Join(r) /\ ~Abandon(r)
    BY RequestFields DEF Join, Abandon
  <2>4. ~\E l \in Logins : Lookup(r, l)
    BY LookupFields
  <2> QED BY <2>1, <2>2, <2>3, <2>4, RequestChange
<1> QED BY <1>1, <1>2, InitOwnership, NextOwnership, FreshInvKept, PTL DEF Spec

-----------------------------------------------------------------------------
(* The tables                                                              *)

\* To make room by dropping one of a full table's entries is enough.
LEMMA RoomForOne ==
  ASSUME NEW S, IsFiniteSet(S), NEW N \in Nat \ {0}, Cardinality(S) <= N,
         NEW K \in SUBSET S, NEW out, Cardinality(K) >= N => out \in K,
         NEW l, NEW T \in SUBSET ((K \ {out}) \cup {l})
  PROVE  IsFiniteSet(T) /\ Cardinality(T) <= N
<1>1. /\ IsFiniteSet(K) /\ Cardinality(K) <= Cardinality(S)
      /\ Cardinality(S) \in Nat /\ Cardinality(K) \in Nat
  BY FS_Subset, FS_CardinalityType
<1>2. /\ IsFiniteSet(K \ {out}) /\ Cardinality(K \ {out}) \in Nat
      /\ Cardinality(K \ {out}) = IF out \in K THEN Cardinality(K) - 1 ELSE Cardinality(K)
  BY <1>1, FS_RemoveElement, FS_CardinalityType
<1>3. Cardinality(K \ {out}) <= N - 1
  BY <1>1, <1>2
<1> DEFINE R == K \ {out}
           M == R \cup {l}
<1>4. IsFiniteSet(M) /\ Cardinality(M) <= Cardinality(R) + 1 /\ Cardinality(M) \in Nat
  <2>1. IsFiniteSet(R) /\ Cardinality(R) \in Nat
    BY <1>2
  <2> HIDE DEF R
  <2>2. IsFiniteSet(M) /\ Cardinality(M) = IF l \in R THEN Cardinality(R) ELSE Cardinality(R) + 1
    BY <2>1, FS_AddElement
  <2> QED BY <2>1, <2>2
<1>5. IsFiniteSet(T) /\ Cardinality(T) <= Cardinality(M) /\ Cardinality(T) \in Nat
  BY <1>4, FS_Subset, FS_CardinalityType
<1> QED BY <1>2, <1>3, <1>4, <1>5

\* The session table and the table of pending OIDC transactions stay within their
\* limits, which remember_session and oidc_login enforce by looking at the table
\* before each insertion.
THEOREM TablesStayBounded == Spec => []TablesBounded
<1> DEFINE Waiting == {p \in Logins : pending[p] # None}
<1>1. Init => FiniteInv /\ TablesBounded
  <2> SUFFICES ASSUME Init PROVE FiniteInv /\ TablesBounded
    OBVIOUS
  <2>1. Live = {} /\ Waiting = {}
    BY DEF Init, Live
  <2> QED BY <2>1, FS_EmptySet, SessionsAssumption DEF FiniteInv, TablesBounded
<1>2. Types /\ FiniteInv /\ TablesBounded /\ [Next]_vars => (FiniteInv /\ TablesBounded)'
  <2> SUFFICES ASSUME Types, FiniteInv, TablesBounded, [Next]_vars
               PROVE  (FiniteInv /\ TablesBounded)'
    OBVIOUS
  <2>1. IsFiniteSet(Live') /\ Cardinality(Live') <= SessionLimit
    <3>1. CASE Live' \subseteq Live
      <4>1. IsFiniteSet(Live') /\ Cardinality(Live') <= Cardinality(Live)
        BY <3>1, FS_Subset DEF FiniteInv
      <4>2. /\ Cardinality(Live') \in Nat /\ Cardinality(Live) \in Nat
            /\ SessionLimit \in Nat /\ Cardinality(Live) <= SessionLimit
        BY <4>1, FS_CardinalityType, SessionsAssumption DEF FiniteInv, TablesBounded
      <4> QED BY <4>1, <4>2
    <3>2. ASSUME NEW l \in Logins, NEW s, Remembered(l, s)
          PROVE  IsFiniteSet(Live') /\ Cardinality(Live') <= SessionLimit
      <4> DEFINE kept == IF Cardinality(Live) >= SessionLimit THEN Live \ Expired ELSE Live
      <4>1. PICK out \in Logins \cup {None} :
              /\ IF Cardinality(kept) >= SessionLimit THEN out \in kept ELSE out = None
              /\ sessions' = [m \in Logins |-> IF m = l THEN s
                                              ELSE IF m \in kept \ {out} THEN sessions[m]
                                              ELSE None]
        BY <3>2 DEF Remembered
      <4>2. kept \in SUBSET Live
        OBVIOUS
      <4> HIDE DEF kept
      <4>3. Live' \in SUBSET ((kept \ {out}) \cup {l})
        BY <4>1 DEF Live
      <4>4. /\ IsFiniteSet(Live) /\ SessionLimit \in Nat \ {0}
            /\ Cardinality(Live) <= SessionLimit
            /\ Cardinality(kept) >= SessionLimit => out \in kept
        BY <4>1, SessionsAssumption DEF FiniteInv, TablesBounded
      <4> HIDE DEF Live
      <4> QED BY <4>2, <4>3, <4>4, RoomForOne
    <3>3. ASSUME ~(Live' \subseteq Live) PROVE \E l \in Logins : \E s : Remembered(l, s)
      <4>1. PICK m \in Logins : sessions[m] = None /\ sessions'[m] # None
        BY <3>3 DEF Live
      <4>2. RememberSession(m)
        BY <4>1, SessionsChange DEF Stored, Saved, Updated, Usable, Live
      <4> QED BY <4>1, <4>2 DEF RememberSession
    <3> QED BY <3>1, <3>2, <3>3
  <2>2. IsFiniteSet(Waiting') /\ Cardinality(Waiting') <= PendingLimit
    <3>1. CASE Waiting' \subseteq Waiting
      <4>1. IsFiniteSet(Waiting') /\ Cardinality(Waiting') <= Cardinality(Waiting)
        BY <3>1, FS_Subset DEF FiniteInv
      <4>2. /\ Cardinality(Waiting') \in Nat /\ Cardinality(Waiting) \in Nat
            /\ PendingLimit \in Nat /\ Cardinality(Waiting) <= PendingLimit
        BY <4>1, FS_CardinalityType, SessionsAssumption DEF FiniteInv, TablesBounded
      <4> QED BY <4>1, <4>2
    <3>2. ASSUME NEW l \in Logins, InsertPending(l)
          PROVE  IsFiniteSet(Waiting') /\ Cardinality(Waiting') <= PendingLimit
      <4> DEFINE alive == {p \in Logins : pending[p] # None /\ pending[p].expires >= clock}
                 oldest == {p \in alive : \A q \in alive :
                              pending[p].expires <= pending[q].expires}
      <4>1. PICK out \in Logins \cup {None} :
              /\ IF Cardinality(alive) >= PendingLimit THEN out \in oldest ELSE out = None
              /\ pending' = [p \in Logins |->
                   IF p = l THEN [expires |-> clock + PendingTTL,
                                  generation |-> login[l].generation]
                   ELSE IF p \in alive \ {out} THEN pending[p] ELSE None]
        BY <3>2 DEF InsertPending
      <4>2. alive \in SUBSET Waiting /\ oldest \subseteq alive
        OBVIOUS
      <4> HIDE DEF alive, oldest
      <4>3. Waiting' \in SUBSET ((alive \ {out}) \cup {l})
        BY <4>1
      <4>4. /\ IsFiniteSet(Waiting) /\ PendingLimit \in Nat \ {0}
            /\ Cardinality(Waiting) <= PendingLimit
            /\ Cardinality(alive) >= PendingLimit => out \in alive
        BY <4>1, <4>2, SessionsAssumption DEF FiniteInv, TablesBounded
      <4> HIDE DEF Waiting
      <4> QED BY <4>2, <4>3, <4>4, RoomForOne
    <3>3. ASSUME ~(Waiting' \subseteq Waiting) PROVE \E l \in Logins : InsertPending(l)
      BY <3>3, PendingChange
    <3> QED BY <3>1, <3>2, <3>3
  <2> QED BY <2>1, <2>2 DEF FiniteInv, TablesBounded
<1> QED BY <1>1, <1>2, InitTypes, NextTypes, PTL DEF Spec
=============================================================================
