----------------------- MODULE UploadAuthorizationProofs -----------------------
(***************************************************************************)
(* What UploadAuthorization.tla guarantees for every set of requests, token *)
(* files and configurations, any number of edits and any number of uploads *)
(* at once.                                                                *)
(***************************************************************************)
EXTENDS UploadAuthorization, SequenceTheorems, TLAPS

\* What is on its way to apply_reload was validated.
ConfigInv ==
  /\ ConfigurationIsSound
  /\ candidate # None => validate(candidate)

UploadTypeOK ==
  /\ pc \in [Uploads -> {"idle", "refused", "body", "checked", "cleared"} \cup BodyRead]
  /\ held \subseteq Uploads

\* The handler has looked at the header lines by then, and its last check was
\* made at a moment when the request was entitled.
HandlerInv ==
  \A u \in Uploads :
    /\ pc[u] \notin {"idle", "refused"} =>
         single_forwarded_for(request[u].forwarded) # Refused
    /\ pc[u] \in {"cleared", "committed"} => u \in held

-----------------------------------------------------------------------------
\* The configuration in force was validated as a whole and changes nothing that
\* needs a restart: validate comes before apply_reload, which takes the value
\* that was validated and not the file.
THEOREM SoundConfiguration == Spec => []ConfigurationIsSound
<1>1. Init => ConfigInv
  BY ConfigurationAssumption DEF Init, ConfigInit, ConfigInv, ConfigurationIsSound
<1>2. ConfigInv /\ [Next]_vars => ConfigInv'
  <2> SUFFICES ASSUME ConfigInv, [Next]_vars PROVE ConfigInv'
    OBVIOUS
  <2>1. CASE Operator \/ Reload
    <3>1. CASE SendHangup
      BY <3>1 DEF ConfigInv, ConfigurationIsSound, SendHangup
    <3>2. ASSUME NEW c \in Files, EditFile(c) PROVE ConfigInv'
      BY <3>2 DEF ConfigInv, ConfigurationIsSound, EditFile
    <3>3. CASE LoadFile
      BY <3>3 DEF ConfigInv, ConfigurationIsSound, LoadFile
    <3>4. CASE ApplyReload
      BY <3>4 DEF ConfigInv, ConfigurationIsSound, ApplyReload
    <3> QED BY <2>1, <3>1, <3>2, <3>3, <3>4 DEF Operator, Reload
  <2>2. ASSUME NEW f \in TokenFiles, EditTokens(f) PROVE ConfigInv'
    BY <2>2 DEF ConfigInv, ConfigurationIsSound, EditTokens
  <2>3. ASSUME NEW u \in Uploads, Handler(u) PROVE ConfigInv'
    <3>1. UNCHANGED <<config, candidate>>
      BY <2>3 DEF Handler, Admit, Receive, CheckNamespace, Recheck, Commit, configVars
    <3> QED BY <3>1 DEF ConfigInv, ConfigurationIsSound
  <2>4. CASE UNCHANGED vars
    BY <2>4 DEF ConfigInv, ConfigurationIsSound, vars, configVars
  <2> QED BY <2>1, <2>2, <2>3, <2>4 DEF Next
<1>3. ConfigInv => ConfigurationIsSound
  BY DEF ConfigInv
<1> QED BY <1>1, <1>2, <1>3, PTL DEF Spec

-----------------------------------------------------------------------------
\* No upload is under way at the start.
LEMMA HandlerInit == Init => UploadTypeOK /\ HandlerInv
BY DEF Init, UploadTypeOK, HandlerInv

\* Where nothing but one handler moves, and it moves on.
LEMMA HandlerGoesOn ==
  ASSUME UploadTypeOK, HandlerInv, Remember, NEW u \in Uploads,
         UNCHANGED request,
         pc' \in [Uploads -> {"idle", "refused", "body", "checked", "cleared"} \cup BodyRead],
         \A v \in Uploads \ {u} : pc'[v] = pc[v],
         pc'[u] \notin {"idle", "refused"} =>
           single_forwarded_for(request[u].forwarded) # Refused,
         pc'[u] \in {"cleared", "committed"} => u \in held'
  PROVE  UploadTypeOK' /\ HandlerInv'
<1>1. held \subseteq held' /\ held' \subseteq Uploads
  BY DEF Remember, UploadTypeOK
<1>2. \A v \in Uploads : single_forwarded_for(request[v].forwarded)'
                         = single_forwarded_for(request[v].forwarded)
  BY DEF single_forwarded_for
<1> QED BY <1>1, <1>2 DEF UploadTypeOK, HandlerInv

\* Refusing an upload keeps the invariant.
LEMMA RefuseGoesOn ==
  ASSUME UploadTypeOK, HandlerInv, Remember, NEW u \in Uploads, NEW status, Refuse(u, status)
  PROVE  UploadTypeOK' /\ HandlerInv'
<1>1. /\ pc' \in [Uploads -> {"idle", "refused", "body", "checked", "cleared"} \cup BodyRead]
      /\ pc'[u] = "refused"
      /\ \A v \in Uploads \ {u} : pc'[v] = pc[v]
      /\ UNCHANGED request
  BY DEF Refuse, UploadTypeOK
<1> QED BY <1>1, HandlerGoesOn

\* What letting an upload pass does to the positions.
LEMMA PassMoves ==
  ASSUME UploadTypeOK, NEW u \in Uploads,
         NEW to \in {"body", "checked", "cleared"} \cup BodyRead, Pass(u, to)
  PROVE  /\ pc' \in [Uploads -> {"idle", "refused", "body", "checked", "cleared"} \cup BodyRead]
         /\ pc'[u] = to
         /\ \A v \in Uploads \ {u} : pc'[v] = pc[v]
         /\ UNCHANGED request
BY DEF Pass, UploadTypeOK

\* A handler that passes Recheck is entitled at that very moment.
LEMMA RecheckRemembers ==
  ASSUME UploadTypeOK, HandlerInv, Remember, NEW u \in Uploads, Recheck(u), pc'[u] = "cleared"
  PROVE  u \in held'
<1> DEFINE r == request[u]
<1>1. /\ pc[u] = "checked"
      /\ UNCHANGED <<configVars, tokens, request>>
      /\ Address(r, config) # Refused
      /\ authorize(config, r.namespace, r.token, Address(r, config))
  BY DEF Recheck, Refuse, Pass, UploadTypeOK
<1>2. Entitled(r, config)
  BY <1>1 DEF HandlerInv, Entitled
<1>3. Entitled(request[u], config)'
  <2>1. /\ config' = config /\ tokens' = tokens /\ request' = request
        /\ r' = r
    BY <1>1 DEF configVars
  <2>2. authorize_token(r.namespace, r.token)' = authorize_token(r.namespace, r.token)
    BY <2>1 DEF authorize_token, Existing
  <2>3. (single_forwarded_for(r.forwarded) # Refused)'
    BY <1>2, <2>1 DEF single_forwarded_for, Entitled
  <2>4. Address(r, config)' = Address(r, config)
    BY <2>1 DEF Address, single_forwarded_for, effective_ip, WalkBack, Stops, Hop, normalize
  <2>5. (r.namespace \in Names(config))' = (r.namespace \in Names(config))
    BY <2>1 DEF Names
  <2>6. allowed(Address(r, config), config.namespaces[Entry(config, r.namespace)].push_networks)'
        = allowed(Address(r, config), config.namespaces[Entry(config, r.namespace)].push_networks)
    BY <2>1, <2>4 DEF allowed, Entry
  <2> QED BY <1>2, <2>1, <2>2, <2>3, <2>4, <2>5, <2>6 DEF Entitled, authorize
<1> QED BY <1>3 DEF Remember, BodyRead

\* Nothing is published that was not authorized, by the configuration and token
\* files then in force together, at some moment after the body had been read.
THEOREM PublishingNeedsRights == Spec => []PublishedWithRights
<1>1. Init => UploadTypeOK /\ HandlerInv
  BY HandlerInit
<1>2. UploadTypeOK /\ HandlerInv /\ [Next]_vars => (UploadTypeOK /\ HandlerInv)'
  <2> SUFFICES ASSUME UploadTypeOK, HandlerInv, [Next]_vars
               PROVE  UploadTypeOK' /\ HandlerInv'
    OBVIOUS
  <2>1. ASSUME UNCHANGED <<request, pc>>, Remember PROVE UploadTypeOK' /\ HandlerInv'
    BY <2>1 DEF UploadTypeOK, HandlerInv, Remember, single_forwarded_for
  <2>2. ASSUME NEW u \in Uploads, Handler(u), Remember
        PROVE  UploadTypeOK' /\ HandlerInv'
    <3>1. CASE Admit(u)
      <4>1. CASE AdmitStatus(request[u]) = "ok"
        <5>1. Pass(u, "body")
          BY <3>1, <4>1 DEF Admit
        <5>2. single_forwarded_for(request[u].forwarded) # Refused
          BY <4>1 DEF AdmitStatus
        <5> QED BY <2>2, <5>1, <5>2, PassMoves, HandlerGoesOn
      <4>2. CASE AdmitStatus(request[u]) # "ok"
        BY <2>2, <3>1, <4>2, RefuseGoesOn DEF Admit
      <4> QED BY <4>1, <4>2
    <3>2. CASE Receive(u)
      <4>1. ASSUME Pass(u, "inspected") PROVE UploadTypeOK' /\ HandlerInv'
        BY <2>2, <3>2, <4>1, PassMoves, HandlerGoesOn DEF Receive, HandlerInv, BodyRead
      <4> QED BY <2>2, <3>2, <4>1, RefuseGoesOn DEF Receive
    <3>3. CASE CheckNamespace(u)
      <4>1. ASSUME Pass(u, "checked") PROVE UploadTypeOK' /\ HandlerInv'
        BY <2>2, <3>3, <4>1, PassMoves, HandlerGoesOn DEF CheckNamespace, HandlerInv
      <4> QED BY <2>2, <3>3, <4>1, RefuseGoesOn DEF CheckNamespace
    <3>4. CASE Recheck(u)
      <4>1. ASSUME Pass(u, "cleared") PROVE UploadTypeOK' /\ HandlerInv'
        <5>1. u \in held'
          BY <2>2, <3>4, <4>1, PassMoves, RecheckRemembers
        <5> QED BY <2>2, <3>4, <4>1, <5>1, PassMoves, HandlerGoesOn DEF Recheck, HandlerInv
      <4> QED BY <2>2, <3>4, <4>1, RefuseGoesOn DEF Recheck
    <3>5. CASE Commit(u)
      <4>1. u \in held'
        BY <2>2, <3>5 DEF Commit, HandlerInv, Remember
      <4> QED BY <2>2, <3>5, <4>1, PassMoves, HandlerGoesOn DEF Commit, HandlerInv, BodyRead
    <3> QED BY <2>2, <3>1, <3>2, <3>3, <3>4, <3>5 DEF Handler
  <2>3. CASE UNCHANGED vars
    BY <2>3 DEF UploadTypeOK, HandlerInv, vars, uploadVars, single_forwarded_for
  <2>4. CASE Next
    BY <2>1, <2>2, <2>4 DEF Next, EditTokens, uploadVars
  <2> QED BY <2>3, <2>4
<1>3. HandlerInv => PublishedWithRights
  BY DEF HandlerInv, PublishedWithRights
<1> QED BY <1>1, <1>2, <1>3, PTL DEF Spec

-----------------------------------------------------------------------------
(* Refusals                                                                *)

\* What of authorize does not depend on token files.
Reaches(c, namespace, address) ==
  /\ namespace \in Names(c)
  /\ allowed(address, c.namespaces[Entry(c, namespace)].push_networks)

DataTypeOK ==
  /\ tokens \in [TokenFiles -> Contents \cup {Absent}]
  /\ request \in [Uploads -> Requests]
  /\ pc = [u \in Uploads |-> pc[u]]
  /\ snapshot = [u \in Uploads |-> snapshot[u]]
  /\ ip = [u \in Uploads |-> ip[u]]
  /\ answer = [u \in Uploads |-> answer[u]]

\* A handler that goes on has the address of the configuration it started with,
\* and if that configuration does not let the address near the namespace, then
\* the request had no right when it arrived.
StartInv ==
  \A u \in Uploads : pc[u] \notin {"idle", "refused"} =>
    /\ single_forwarded_for(request[u].forwarded) # Refused
    /\ ip[u] = Address(request[u], snapshot[u]) /\ ip[u] # Refused
    /\ Reaches(snapshot[u], request[u].namespace, ip[u]) \/ u \in lacked

RefusalInv == DataTypeOK /\ StartInv /\ RefusedForAReason

\* An upload that is not entitled now has been seen without its right.
LEMMA Lacks ==
  ASSUME Remember, NEW u \in Uploads, pc'[u] # "idle", ~Entitled(request[u], config)
  PROVE  u \in lacked'
BY DEF Remember

\* Being entitled, taken apart into header, address, networks and token.
LEMMA EntitledReaches ==
  ASSUME NEW r, NEW c
  PROVE  Entitled(r, c) <=> /\ single_forwarded_for(r.forwarded) # Refused
                            /\ Address(r, c) # Refused
                            /\ Reaches(c, r.namespace, Address(r, c))
                            /\ authorize_token(r.namespace, r.token)
BY DEF Entitled, authorize, Reaches

\* A handler that does not move keeps what it knows.
LEMMA StartKept ==
  ASSUME StartInv, NEW v \in Uploads, lacked \subseteq lacked',
         request'[v] = request[v], snapshot'[v] = snapshot[v], ip'[v] = ip[v],
         pc[v] \notin {"idle", "refused"}
  PROVE  /\ single_forwarded_for(request'[v].forwarded) # Refused
         /\ ip'[v] = Address(request'[v], snapshot'[v]) /\ ip'[v] # Refused
         /\ Reaches(snapshot'[v], request'[v].namespace, ip'[v]) \/ v \in lacked'
BY DEF StartInv

\* What the early returns of upload mean: the request has no right now.
LEMMA AdmitRefuses ==
  ASSUME DataTypeOK, NEW u \in Uploads, AdmitStatus(request[u]) # "ok"
  PROVE  ~Entitled(request[u], config)
<1> DEFINE r == request[u]
<1>1. CASE r.token = NoToken
  <2>1. ~authorize_token(r.namespace, r.token)
    BY <1>1, UploadAuthorizationAssumption DEF authorize_token, Existing, DataTypeOK
  <2> QED BY <2>1, EntitledReaches
<1>2. CASE single_forwarded_for(r.forwarded) = Refused \/ Address(r, config) = Refused
  BY <1>2 DEF Entitled
<1>3. CASE \A n \in Names(config) : ~authorize(config, n, r.token, Address(r, config))
  BY <1>3 DEF Entitled, authorize
<1> QED BY <1>1, <1>2, <1>3 DEF AdmitStatus

\* A refusal for a reason keeps the invariant.
LEMMA RefuseKeeps ==
  ASSUME RefusalInv, Remember, NEW u \in Uploads, NEW status, Refuse(u, status),
         UNCHANGED tokens, status \in {"400", "401", "403"} => u \in lacked'
  PROVE  RefusalInv'
<1>1. lacked \subseteq lacked'
  BY DEF Remember
<1>2. /\ pc' = [pc EXCEPT ![u] = "refused"] /\ answer' = [answer EXCEPT ![u] = status]
      /\ UNCHANGED <<request, snapshot, ip>>
  BY DEF Refuse
<1>3. DataTypeOK'
  BY <1>2 DEF RefusalInv, DataTypeOK
<1>4. \A v \in Uploads : pc'[v] \notin {"idle", "refused"} => pc'[v] = pc[v]
  BY <1>2 DEF RefusalInv, DataTypeOK
<1>5. StartInv'
  BY <1>1, <1>2, <1>4, StartKept DEF RefusalInv, StartInv
<1>6. RefusedForAReason'
  BY <1>1, <1>2 DEF RefusalInv, RefusedForAReason, DataTypeOK
<1> QED BY <1>3, <1>5, <1>6 DEF RefusalInv

\* Letting an upload pass keeps it.
LEMMA PassKeeps ==
  ASSUME RefusalInv, Remember, NEW u \in Uploads, NEW to, Pass(u, to),
         UNCHANGED <<tokens, snapshot, ip>>, pc[u] \notin {"idle", "refused"}
  PROVE  RefusalInv'
<1>1. lacked \subseteq lacked'
  BY DEF Remember
<1>2. pc' = [pc EXCEPT ![u] = to] /\ UNCHANGED <<request, answer, snapshot, ip>>
  BY DEF Pass
<1>3. DataTypeOK'
  BY <1>2 DEF RefusalInv, DataTypeOK
<1>4. \A v \in Uploads : pc'[v] \notin {"idle", "refused"} => pc[v] \notin {"idle", "refused"}
  BY <1>2 DEF RefusalInv, DataTypeOK
<1>5. StartInv'
  BY <1>1, <1>2, <1>4, StartKept DEF RefusalInv, StartInv
<1>6. RefusedForAReason'
  BY <1>1, <1>2 DEF RefusalInv, RefusedForAReason
<1> QED BY <1>3, <1>5, <1>6 DEF RefusalInv

\* Every step keeps it.
LEMMA RefusalInvKept == RefusalInv /\ [Next]_vars => RefusalInv'
<1> SUFFICES ASSUME RefusalInv, [Next]_vars PROVE RefusalInv'
  OBVIOUS
<1>1. ASSUME UNCHANGED uploadVars, lacked \subseteq lacked',
             tokens' \in [TokenFiles -> Contents \cup {Absent}]
      PROVE  RefusalInv'
  <2>1. DataTypeOK'
    BY <1>1 DEF RefusalInv, DataTypeOK, uploadVars
  <2>2. StartInv'
    BY <1>1, StartKept DEF RefusalInv, StartInv, uploadVars
  <2>3. RefusedForAReason'
    BY <1>1 DEF RefusalInv, RefusedForAReason, uploadVars
  <2> QED BY <2>1, <2>2, <2>3 DEF RefusalInv
<1>2. ASSUME NEW f \in TokenFiles, EditTokens(f), Remember PROVE RefusalInv'
  BY <1>1, <1>2 DEF EditTokens, Remember, RefusalInv, DataTypeOK
<1>3. ASSUME NEW u \in Uploads, Handler(u), Remember PROVE RefusalInv'
  <2> DEFINE r == request[u]
  <2>1. UNCHANGED tokens
    BY <1>3 DEF Handler, Admit, Receive, CheckNamespace, Recheck, Commit
  <2>2. ASSUME NEW status, Refuse(u, status), ~Entitled(r, config) PROVE RefusalInv'
    <3>1. pc'[u] # "idle"
      BY <2>2 DEF Refuse, RefusalInv, DataTypeOK
    <3>2. u \in lacked'
      BY <1>3, <2>2, <3>1, Lacks
    <3> QED BY <1>3, <2>1, <2>2, <3>2, RefuseKeeps
  <2>3. CASE Admit(u)
    <3>1. CASE AdmitStatus(r) # "ok"
      BY <2>2, <2>3, <3>1, AdmitRefuses DEF Admit, RefusalInv
    <3>2. CASE AdmitStatus(r) = "ok"
      <4>1. /\ pc' = [pc EXCEPT ![u] = "body"]
            /\ snapshot' = [snapshot EXCEPT ![u] = config]
            /\ ip' = [ip EXCEPT ![u] = Address(r, config)]
            /\ UNCHANGED <<request, answer>>
        BY <2>3, <3>2 DEF Admit, Pass
      <4>2. lacked \subseteq lacked'
        BY <1>3 DEF Remember
      <4>3. DataTypeOK'
        BY <2>1, <4>1 DEF RefusalInv, DataTypeOK
      <4>4. /\ pc'[u] = "body" /\ snapshot'[u] = config /\ ip'[u] = Address(r, config)
            /\ request'[u] = r
            /\ \A v \in Uploads \ {u} : pc'[v] = pc[v] /\ snapshot'[v] = snapshot[v]
                                        /\ ip'[v] = ip[v] /\ request'[v] = request[v]
        BY <4>1 DEF RefusalInv, DataTypeOK
      <4>5. single_forwarded_for(r.forwarded) # Refused /\ Address(r, config) # Refused
        BY <3>2 DEF AdmitStatus
      <4>6. Reaches(config, r.namespace, Address(r, config)) \/ u \in lacked'
        <5>1. CASE Entitled(r, config)
          BY <5>1, EntitledReaches
        <5>2. CASE ~Entitled(r, config)
          BY <1>3, <4>4, <5>2, Lacks
        <5> QED BY <5>1, <5>2
      <4>7. StartInv'
        <5> SUFFICES ASSUME NEW v \in Uploads, pc'[v] \notin {"idle", "refused"}
                     PROVE  /\ single_forwarded_for(request'[v].forwarded) # Refused
                            /\ ip'[v] = Address(request'[v], snapshot'[v]) /\ ip'[v] # Refused
                            /\ \/ Reaches(snapshot'[v], request'[v].namespace, ip'[v])
                               \/ v \in lacked'
          BY DEF StartInv
        <5>1. CASE v = u
          BY <4>4, <4>5, <4>6, <5>1
        <5>2. CASE v # u
          BY <4>2, <4>4, <5>2, StartKept DEF RefusalInv
        <5> QED BY <5>1, <5>2
      <4>8. RefusedForAReason'
        BY <4>1, <4>2 DEF RefusalInv, RefusedForAReason
      <4> QED BY <4>3, <4>7, <4>8 DEF RefusalInv
    <3> QED BY <3>1, <3>2
  <2>4. CASE Receive(u)
    <3>1. CASE Refuse(u, "4xx")
      BY <1>3, <2>1, <3>1, RefuseKeeps
    <3>2. CASE Pass(u, "inspected") /\ UNCHANGED <<snapshot, ip>>
      BY <1>3, <2>1, <2>4, <3>2, PassKeeps DEF Receive
    <3> QED BY <2>4, <3>1, <3>2 DEF Receive
  <2>5. CASE CheckNamespace(u)
    <3>1. CASE authorize(snapshot[u], r.namespace, r.token, ip[u])
      BY <1>3, <2>1, <2>5, <3>1, PassKeeps DEF CheckNamespace
    <3>2. CASE ~authorize(snapshot[u], r.namespace, r.token, ip[u])
      <4>1. Refuse(u, "403") /\ pc[u] = "inspected"
        BY <2>5, <3>2 DEF CheckNamespace
      <4>2. CASE ~authorize_token(r.namespace, r.token)
        BY <2>2, <4>1, <4>2, EntitledReaches
      <4>3. CASE ~Reaches(snapshot[u], r.namespace, ip[u])
        <5>1. u \in lacked'
          BY <1>3, <4>1, <4>3 DEF RefusalInv, StartInv, Remember
        <5> QED BY <1>3, <2>1, <4>1, <5>1, RefuseKeeps
      <4> QED BY <3>2, <4>2, <4>3 DEF authorize, Reaches
    <3> QED BY <3>1, <3>2
  <2>6. CASE Recheck(u)
    <3>1. CASE Pass(u, "cleared") /\ UNCHANGED <<snapshot, ip>>
      BY <1>3, <2>1, <2>6, <3>1, PassKeeps DEF Recheck
    <3>2. CASE /\ Refuse(u, "400") \/ Refuse(u, "403")
               /\ ~Entitled(r, config)
      BY <2>2, <3>2
    <3> QED BY <2>6, <3>1, <3>2 DEF Recheck, Entitled
  <2>7. CASE Commit(u)
    BY <1>3, <2>1, <2>7, PassKeeps DEF Commit
  <2> QED BY <1>3, <2>3, <2>4, <2>5, <2>6, <2>7 DEF Handler
<1>4. CASE UNCHANGED vars
  BY <1>1, <1>4 DEF vars, RefusalInv, DataTypeOK
<1>5. CASE (Operator \/ Reload) /\ UNCHANGED <<tokens, uploadVars>> /\ Remember
  BY <1>1, <1>5 DEF Remember, RefusalInv, DataTypeOK
<1> QED BY <1>2, <1>3, <1>4, <1>5 DEF Next

\* It holds at the start.
LEMMA RefusalInit == Init => RefusalInv
<1> SUFFICES ASSUME Init PROVE RefusalInv
  OBVIOUS
<1>1. DataTypeOK
  BY UploadAuthorizationAssumption DEF Init, DataTypeOK
<1>2. StartInv /\ RefusedForAReason
  BY DEF Init, StartInv, RefusedForAReason
<1> QED BY <1>1, <1>2 DEF RefusalInv

\* An upload that is answered 400, 401 or 403 was without the right to publish at
\* some moment since it arrived, although the checks of upload judge it by the
\* configuration it started with and by the one in force, with token files read
\* anew each time.
THEOREM RefusalsHaveReasons == Spec => []RefusedForAReason
<1>1. RefusalInv => RefusedForAReason
  BY DEF RefusalInv
<1> QED BY <1>1, RefusalInit, RefusalInvKept, PTL DEF Spec

-----------------------------------------------------------------------------
(* The client address                                                      *)

\* The walk from the right ends at the first hop that is not trusted.
LEMMA WalkEnds ==
  ASSUME NEW peer, NEW S, NEW line \in Seq(S), NEW trusted, NEW i \in 0 .. Len(line),
         Hop(peer, line, i) \notin trusted,
         \A j \in 0 .. i - 1 : Hop(peer, line, j) \in trusted
  PROVE  WalkBack(peer, line, trusted) = Hop(peer, line, i)
<1> DEFINE stops == Stops(peer, line, trusted)
           Earliest(k) == \A j \in stops : k <= j
<1>1. Len(line) \in Nat
  BY LenProperties
<1>2. \A j \in stops : j \in 0 .. Len(line) - 1 /\ i <= j
  BY <1>1 DEF Stops
<1>3. CASE i = Len(line)
  <2>1. stops = {}
    BY <1>1, <1>2, <1>3
  <2> QED BY <1>3, <2>1 DEF WalkBack
<1>4. CASE i < Len(line)
  <2>1. i \in stops
    BY <1>1, <1>4 DEF Stops
  <2>2. Earliest(i)
    BY <1>2
  <2> HIDE DEF stops
  <2>3. (CHOOSE k \in stops : \A j \in stops : k <= j) = i
    <3> DEFINE k == CHOOSE k \in stops : \A j \in stops : k <= j
    <3>1. k \in stops /\ \A j \in stops : k <= j
      BY <2>1, <2>2
    <3> HIDE DEF k
    <3>2. k <= i /\ i <= k /\ k \in Int /\ i \in Int
      BY <1>1, <1>2, <2>1, <3>1
    <3>3. k = i
      BY <3>2
    <3> QED BY <3>3 DEF k
  <2> QED BY <2>1, <2>3 DEF WalkBack, stops
<1> QED BY <1>1, <1>3, <1>4

\* Another line that ends in the same i pieces.
Forged(forged, line, i) == forged \o SubSeq(line, Len(line) + 1 - i, Len(line))

\* What is put in front of a line does not show in the hops from the right, and
\* the walk does not get that far.
LEMMA ForgedWalk ==
  ASSUME NEW peer, NEW S, NEW line \in Seq(S), NEW forged \in Seq(S), NEW trusted,
         NEW i \in 0 .. Len(line),
         Hop(peer, line, i) \notin trusted,
         \A j \in 0 .. i - 1 : Hop(peer, line, j) \in trusted
  PROVE  WalkBack(peer, Forged(forged, line, i), trusted) = Hop(peer, line, i)
<1> DEFINE other == Forged(forged, line, i)
<1> DEFINE tail == SubSeq(line, Len(line) + 1 - i, Len(line))
<1>1. Len(line) \in Nat /\ Len(forged) \in Nat
  BY LenProperties
<1>2. /\ tail \in Seq(S) /\ Len(tail) = i
      /\ \A k \in 1 .. i : tail[k] = line[Len(line) - i + k]
  <2> DEFINE m == Len(line) + 1 - i
             n == Len(line)
  <2>1. m \in Int /\ n \in Int /\ \A k \in m .. n : line[k] \in S
    BY <1>1, ElementOfSeq
  <2>2. n - m + 1 = i /\ (m <= n \/ i = 0) /\ \A k \in 1 .. i : m + k - 1 = Len(line) - i + k
    BY <1>1
  <2> HIDE DEF m, n
  <2>3. /\ SubSeq(line, m, n) \in Seq(S)
        /\ Len(SubSeq(line, m, n)) = IF m <= n THEN n - m + 1 ELSE 0
        /\ \A k \in 1 .. n - m + 1 : SubSeq(line, m, n)[k] = line[m + k - 1]
    BY <2>1, SubSeqProperties
  <2>4. tail = SubSeq(line, m, n)
    BY DEF m, n
  <2> HIDE DEF tail
  <2> QED BY <2>1, <2>2, <2>3, <2>4
<1> HIDE DEF tail
<1>3. /\ other \in Seq(S) /\ Len(other) = Len(forged) + i
      /\ \A k \in 1 .. i : other[Len(forged) + k] = tail[k]
  <2>1. other = forged \o tail
    BY DEF tail, Forged
  <2> HIDE DEF other
  <2>2. /\ other \in Seq(S) /\ Len(other) = Len(forged) + Len(tail)
        /\ \A k \in 1 .. Len(forged) + Len(tail) :
             other[k] = IF k <= Len(forged) THEN forged[k] ELSE tail[k - Len(forged)]
    BY <1>2, <2>1, ConcatProperties
  <2>3. ASSUME NEW k \in 1 .. i PROVE other[Len(forged) + k] = tail[k]
    <3>1. /\ Len(forged) + k \in 1 .. Len(forged) + Len(tail)
          /\ ~(Len(forged) + k <= Len(forged)) /\ Len(forged) + k - Len(forged) = k
      BY <1>1, <1>2
    <3> DEFINE m == Len(forged) + k
    <3> HIDE DEF m
    <3>2. m \in 1 .. Len(forged) + Len(tail) /\ ~(m <= Len(forged)) /\ m - Len(forged) = k
      BY <3>1 DEF m
    <3>3. other[m] = tail[m - Len(forged)]
      BY <2>2, <3>2, Zenon
    <3>4. other[m] = tail[k]
      BY <3>2, <3>3, Zenon
    <3> QED BY <3>4 DEF m
  <2> QED BY <1>2, <2>2, <2>3
<1> HIDE DEF other
<1>4. ASSUME NEW j \in 0 .. i PROVE Hop(peer, other, j) = Hop(peer, line, j)
  <2>1. CASE j = 0
    BY <2>1 DEF Hop
  <2>2. CASE j # 0
    <3>1. i + 1 - j \in 1 .. i
      BY <1>1, <2>2
    <3>2. Len(other) + 1 - j = Len(forged) + (i + 1 - j)
      BY <1>1, <1>3
    <3>3. Len(line) - i + (i + 1 - j) = Len(line) + 1 - j
      BY <1>1
    <3>4. other[Len(other) + 1 - j] = line[Len(line) + 1 - j]
      BY <1>2, <1>3, <3>1, <3>2, <3>3
    <3> QED BY <2>2, <3>4 DEF Hop
  <2> QED BY <2>1, <2>2
<1>5. i \in 0 .. Len(other)
  BY <1>1, <1>3
<1>6. /\ Hop(peer, other, i) = Hop(peer, line, i)
      /\ \A j \in 0 .. i - 1 : Hop(peer, other, j) = Hop(peer, line, j)
  BY <1>4
<1>7. WalkBack(peer, other, trusted) = Hop(peer, other, i)
  BY <1>3, <1>5, <1>6, WalkEnds
<1> QED BY <1>6, <1>7 DEF other

\* Nothing that a client writes in front of the addresses that trusted proxies
\* appended makes effective_ip name another address than it names for what the
\* proxies appended: it is the same address, or none.
THEOREM AddressesCannotBeForged == Spec => []AddressNotForgeable
<1>1. RefusalInv => AddressNotForgeable
  <2> SUFFICES ASSUME RefusalInv, NEW u \in Uploads, pc[u] \notin {"idle", "refused"},
                      single_forwarded_for(request[u].forwarded) # NoHeader,
                      NEW i \in 0 .. Len(single_forwarded_for(request[u].forwarded)),
                      Hop(request[u].peer, single_forwarded_for(request[u].forwarded), i)
                        \notin snapshot[u].trusted,
                      \A j \in 0 .. i - 1 :
                        Hop(request[u].peer, single_forwarded_for(request[u].forwarded), j)
                          \in snapshot[u].trusted,
                      NEW forged \in Forgeries
               PROVE  LET line == single_forwarded_for(request[u].forwarded)
                      IN  effective_ip(request[u].peer,
                                       forged \o SubSeq(line, Len(line) + 1 - i, Len(line)),
                                       snapshot[u].trusted, snapshot[u].max_hops)
                            \in {ip[u], Refused}
    BY DEF AddressNotForgeable
  <2> DEFINE r == request[u]
             c == snapshot[u]
             line == single_forwarded_for(r.forwarded)
             other == Forged(forged, line, i)
  <2>1. r \in Requests /\ forged \in Seq(Pieces)
    BY UploadAuthorizationAssumption DEF RefusalInv, DataTypeOK
  <2>2. line \in Seq(Pieces)
    <3>1. line # Refused
      BY DEF RefusalInv, StartInv
    <3>2. r.forwarded \in Seq(Seq(Pieces) \cup {Refused})
      BY <2>1, UploadAuthorizationAssumption
    <3>3. Len(r.forwarded) \in Nat
      BY <3>2, LenProperties
    <3>4. Len(r.forwarded) = 1 /\ line = r.forwarded[1]
      BY <3>1, <3>3 DEF single_forwarded_for
    <3>5. r.forwarded[1] \in Seq(Pieces) \cup {Refused}
      BY <3>2, <3>4, ElementOfSeq
    <3> QED BY <3>1, <3>4, <3>5
  <2>3. /\ ip[u] = effective_ip(r.peer, line, c.trusted, c.max_hops)
        /\ ip[u] # Refused
    BY DEF RefusalInv, StartInv, Address
  <2> HIDE DEF line
  <2>4. CASE normalize(r.peer) \notin c.trusted
    BY <2>3, <2>4 DEF effective_ip
  <2>5. CASE normalize(r.peer) \in c.trusted
    <3>1. ip[u] = WalkBack(r.peer, line, c.trusted)
      BY <2>3, <2>5 DEF effective_ip
    <3>2. ip[u] = Hop(r.peer, line, i)
      BY <2>2, <3>1, WalkEnds DEF line
    <3>3. WalkBack(r.peer, other, c.trusted) = Hop(r.peer, line, i)
      BY <2>1, <2>2, ForgedWalk DEF line
    <3>4. effective_ip(r.peer, other, c.trusted, c.max_hops) \in {ip[u], Refused}
      BY <2>5, <3>2, <3>3 DEF effective_ip
    <3> QED BY <3>4 DEF other, line, Forged
  <2> QED BY <2>4, <2>5 DEF other, line
<1> QED BY <1>1, RefusalInit, RefusalInvKept, PTL DEF Spec
=============================================================================
