------------------------- MODULE UploadAuthorization -------------------------
(***************************************************************************)
(* Who may publish what (auth.rs and the checks of `upload` in app.rs).    *)
(* An upload is authorized three times: before its body is read, after the *)
(* archive is inspected, both against the configuration it started with,   *)
(* and once more against the configuration then in force.  Token files are *)
(* read anew each time.  Meanwhile an operator changes configuration and   *)
(* token files.                                                            *)
(***************************************************************************)
EXTENDS Configuration, ClientAddress

CONSTANTS
  Uploads,
  Requests,   \* [peer, forwarded, token, namespace]: what a client can send
  Pieces,     \* pieces of an X-Forwarded-For line, Malformed among them
  TokenFiles, \* <<namespace, kind>>: the files an operator handles
  Contents,   \* sets of tokens a file may hold
  FirstTokens,\* the token files at the start
  Forgeries,  \* header pieces a client may make up (AddressNotForgeable)
  NoToken,    \* no usable Authorization header
  Absent      \* there is no such file

ASSUME UploadAuthorizationAssumption ==
  /\ FirstTokens \in [TokenFiles -> Contents \cup {Absent}]
  /\ Absent \notin Contents
  /\ \A s \in Contents : NoToken \notin s
  /\ \A r \in Requests : Refused \notin {r.peer, normalize(r.peer)}
  /\ \A r \in Requests : r.forwarded \in Seq(Seq(Pieces) \cup {Refused})
  /\ Forgeries \subseteq Seq(Pieces)

VARIABLES
  tokens,   \* TokenFiles -> the tokens in the file, or Absent
  request,  \* Uploads -> the request
  pc,       \* Uploads -> where its handler stands
  snapshot, \* Uploads -> the configuration the handler started with
  ip,       \* Uploads -> the client address under that configuration
  answer,   \* Uploads -> how the request was refused
  held,     \* history: the request has had the right since its body was read
  lacked    \* history: the request was without the right since it arrived

uploadVars == <<request, pc, snapshot, ip, answer>>
vars == <<configVars, tokens, uploadVars, held, lacked>>

-----------------------------------------------------------------------------
(* auth.rs                                                                 *)

WriteKinds == {"write", "plain"}

Existing(namespace, kinds) ==
  {f \in TokenFiles : f[1] = namespace /\ f[2] \in kinds /\ tokens[f] # Absent}

\* A namespace with two write files authorizes nobody.
authorize_token(namespace, token) ==
  /\ Cardinality(Existing(namespace, WriteKinds)) = 1
  /\ \E f \in Existing(namespace, WriteKinds) : token \in tokens[f]

\* A namespace's entry in a configuration, by its position.
Entry(c, namespace) ==
  CHOOSE i \in DOMAIN c.namespaces :
    /\ c.namespaces[i].name = namespace
    /\ \A j \in 1 .. i - 1 : c.namespaces[j].name # namespace

authorize(c, namespace, token, address) ==
  /\ namespace \in Names(c)
  /\ allowed(address, c.namespaces[Entry(c, namespace)].push_networks)
  /\ authorize_token(namespace, token)

Address(r, c) ==
  effective_ip(r.peer, single_forwarded_for(r.forwarded), c.trusted, c.max_hops)

\* What decides whether a request may publish under a configuration.
Entitled(r, c) ==
  /\ single_forwarded_for(r.forwarded) # Refused
  /\ Address(r, c) # Refused
  /\ authorize(c, r.namespace, r.token, Address(r, c))

-----------------------------------------------------------------------------
Init ==
  /\ ConfigInit
  /\ tokens = FirstTokens
  /\ request \in [Uploads -> Requests]
  /\ pc = [u \in Uploads |-> "idle"]
  /\ snapshot = [u \in Uploads |-> config]
  /\ ip = [u \in Uploads |-> Refused]
  /\ answer = [u \in Uploads |-> "none"]
  /\ held = {}
  /\ lacked = {}

\* The operator puts a token file in place or removes it, by rename, so that a
\* reader sees the one or the other.
EditTokens(f) ==
  /\ edits < MaxEdits
  /\ \E content \in (Contents \cup {Absent}) \ {tokens[f]} :
       tokens' = [tokens EXCEPT ![f] = content]
  /\ edits' = edits + 1
  /\ UNCHANGED <<file, hangup, candidate, config, uploadVars>>

Refuse(u, status) ==
  /\ pc' = [pc EXCEPT ![u] = "refused"]
  /\ answer' = [answer EXCEPT ![u] = status]
  /\ UNCHANGED <<request, snapshot, ip>>

Pass(u, to) ==
  /\ pc' = [pc EXCEPT ![u] = to]
  /\ UNCHANGED <<request, answer>>

\* The early returns before the body is read, in their order.
AdmitStatus(r) ==
  IF r.token = NoToken THEN "401"
  ELSE IF single_forwarded_for(r.forwarded) = Refused THEN "400"
  ELSE IF Address(r, config) = Refused THEN "400"
  ELSE IF \A n \in Names(config) : ~authorize(config, n, r.token, Address(r, config))
  THEN "403"
  ELSE "ok"

\* The configuration is copied, token and address are looked at, and the body
\* is read only if they are good for some namespace.  Here and in Recheck no
\* edit comes between the copy and the look at the token files.
Admit(u) ==
  /\ pc[u] = "idle"
  /\ UNCHANGED <<configVars, tokens>>
  /\ \/ /\ AdmitStatus(request[u]) = "ok"
        /\ snapshot' = [snapshot EXCEPT ![u] = config]
        /\ ip' = [ip EXCEPT ![u] = Address(request[u], config)]
        /\ Pass(u, "body")
     \/ /\ AdmitStatus(request[u]) # "ok"
        /\ Refuse(u, AdmitStatus(request[u]))

\* The body is read and the archive inspected; either may be refused.
Receive(u) ==
  /\ pc[u] = "body"
  /\ UNCHANGED <<configVars, tokens>>
  /\ \/ Refuse(u, "4xx")
     \/ Pass(u, "inspected") /\ UNCHANGED <<snapshot, ip>>

\* The archive has named its namespace: it is looked up in the configuration
\* the request started with.
CheckNamespace(u) ==
  /\ pc[u] = "inspected"
  /\ UNCHANGED <<configVars, tokens>>
  /\ IF authorize(snapshot[u], request[u].namespace, request[u].token, ip[u])
     THEN Pass(u, "checked") /\ UNCHANGED <<snapshot, ip>>
     ELSE Refuse(u, "403")

\* Mutation: the second check trusts the configuration and address of the first.
RecheckSnapshot(u) ==
  /\ pc[u] = "checked"
  /\ UNCHANGED <<configVars, tokens>>
  /\ IF authorize(snapshot[u], request[u].namespace, request[u].token, ip[u])
     THEN Pass(u, "cleared") /\ UNCHANGED <<snapshot, ip>>
     ELSE Refuse(u, "403")

\* Mutation: the address found under the old configuration is used again.
RecheckOldAddress(u) ==
  /\ pc[u] = "checked"
  /\ UNCHANGED <<configVars, tokens>>
  /\ IF authorize(config, request[u].namespace, request[u].token, ip[u])
     THEN Pass(u, "cleared") /\ UNCHANGED <<snapshot, ip>>
     ELSE Refuse(u, "403")

\* The check against the configuration now in force, with the address worked
\* out again from peer and header.
Recheck(u) ==
  LET r == request[u]
      address == Address(r, config)
  IN  /\ pc[u] = "checked"
      /\ UNCHANGED <<configVars, tokens>>
      /\ IF address = Refused THEN Refuse(u, "400")
         ELSE IF authorize(config, r.namespace, r.token, address)
         THEN Pass(u, "cleared") /\ UNCHANGED <<snapshot, ip>>
         ELSE Refuse(u, "403")

\* The worker publishes (Publication.tla): the record appears.
Commit(u) ==
  /\ pc[u] = "cleared"
  /\ UNCHANGED <<configVars, tokens, snapshot, ip>>
  /\ Pass(u, "committed")

Handler(u) == Admit(u) \/ Receive(u) \/ CheckNamespace(u) \/ Recheck(u) \/ Commit(u)

BodyRead == {"inspected", "checked", "cleared", "committed"}

Remember ==
  /\ held' = held \cup
       {u \in Uploads : pc'[u] \in BodyRead /\ Entitled(request[u], config)'}
  /\ lacked' = lacked \cup
       {u \in Uploads : pc'[u] # "idle" /\ ~Entitled(request[u], config)}

Next ==
  /\ \/ (Operator \/ Reload) /\ UNCHANGED <<tokens, uploadVars>>
     \/ \E f \in TokenFiles : EditTokens(f)
     \/ \E u \in Uploads : Handler(u)
  /\ Remember

Spec == Init /\ [][Next]_vars

\* The reload task goes on once it has the gate; handlers may wait for ever
\* for a client.
LiveSpec == Spec /\ WF_vars(Reload /\ UNCHANGED <<tokens, uploadVars>> /\ Remember)

-----------------------------------------------------------------------------
\* What is published was authorized under one configuration and the token
\* files as they were together at some moment after the body had been read,
\* for the namespace the archive names and with the address of that
\* configuration: rights withdrawn while the body arrived publish nothing.
PublishedWithRights == \A u \in Uploads : pc[u] = "committed" => u \in held

\* Nobody is turned away who had the right all along: the checks mix the old
\* configuration with new token files, and the address of one configuration
\* must not be judged by the networks of another.
RefusedForAReason ==
  \A u \in Uploads : answer[u] \in {"400", "401", "403"} => u \in lacked

\* Whatever a client writes in front of the addresses that trusted proxies
\* appended, the request counts as coming from the same address, or is refused.
AddressNotForgeable ==
  \A u \in Uploads : pc[u] \notin {"idle", "refused"} =>
    LET r == request[u]
        c == snapshot[u]
        line == single_forwarded_for(r.forwarded)
    IN  line # NoHeader =>
          \A i \in 0 .. Len(line) :
            /\ Hop(r.peer, line, i) \notin c.trusted
            /\ \A j \in 0 .. i - 1 : Hop(r.peer, line, j) \in c.trusted
            => \A forged \in Forgeries :
                 effective_ip(r.peer,
                              forged \o SubSeq(line, Len(line) + 1 - i, Len(line)),
                              c.trusted, c.max_hops) \in {ip[u], Refused}
=============================================================================
