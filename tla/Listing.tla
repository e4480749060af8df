-------------------------------- MODULE Listing --------------------------------
(***************************************************************************)
(* Reading the catalog (list_collections, collection, collection_versions  *)
(* and their access checks in app.rs).  A client walks a listing page by   *)
(* page along its next links while versions are published, the             *)
(* configuration is reloaded and rights come and go.                       *)
(***************************************************************************)
EXTENDS Naturals, FiniteSets

CONSTANTS
  Records,     \* records, numbered in the order the listing sorts them
  Namespaces,
  NamespaceOf, \* Records -> Namespaces
  Configs,     \* [auth, namespaces]: what the configuration says of reading
  Sessions,    \* [admin, namespaces]: what a session may grant
  TokenGrants, \* sets of namespaces whose files may hold the client's token
  Queries,     \* first queries of a client
  MaxLimit,    \* records on a page at most (100 in the code)
  MaxChanges,  \* bound: reloads, logins and changes of rights
  None

\* A query: its filters, namespace and what it searches for, and its place.
\* whole marks the requests about one collection, which have no pages.
QueryType ==
  [namespace : Namespaces \cup {None}, matching : SUBSET Records, whole : BOOLEAN,
   limit : Nat \cup {None}, page : Nat \cup {None}, offset : Nat \cup {None}]

ASSUME ListingAssumption ==
  /\ Records \subseteq Nat /\ IsFiniteSet(Records)
  /\ NamespaceOf \in [Records -> Namespaces]
  /\ \A c \in Configs : c.namespaces \subseteq Namespaces
  /\ Queries \subseteq QueryType
  /\ MaxLimit \in Nat \ {0}
  /\ MaxChanges \in Nat
  /\ None \notin Namespaces \cup Sessions \cup Nat
  /\ \A S \in SUBSET Records : S # None

VARIABLES
  catalog,  \* the records in memory
  config,   \* the configuration in force
  clearing, \* a reload has replaced the configuration, not yet the sessions
  session,  \* the session of the client's cookie, or None
  reads,    \* namespaces whose token files hold the client's token
  changes,  \* changes made so far
  first,    \* the client's first query
  query,    \* the query of the current request
  pc,       \* where the client or the handler stands
  cfg,      \* the handler's copy of the configuration
  scope,    \* namespaces the handler found the client may read
  listed,   \* history: records on the pages so far
  last,     \* history: records on the last page
  selected, \* history: the records that page was cut from, None before the first
  due,      \* history: records the walk has to list
  narrowed, \* history: a page was cut from less than the one before
  opened    \* history: namespaces configured, and readable, since the request

environment == <<catalog, config, clearing, session, reads, changes>>
walk == <<first, query, pc, cfg, scope, listed, last, selected, due, narrowed>>
vars == <<environment, walk, opened>>

-----------------------------------------------------------------------------
(* Queries and pages                                                       *)

\* Mutation: a limit of zero is taken as it is.
ClampedAbove(q) == IF q.limit = None \/ q.limit > MaxLimit THEN MaxLimit ELSE q.limit

PageLimit(q) ==
  IF q.limit = None \/ q.limit > MaxLimit THEN MaxLimit
  ELSE IF q.limit = 0 THEN 1 ELSE q.limit

\* Pages are numbered from 1; page 0 is page 1.
PageOffset(q) ==
  IF q.offset # None THEN q.offset
  ELSE IF q.page \in {None, 0} THEN 0
  ELSE (q.page - 1) * PageLimit(q)

\* The records that a handler with copy c and scope s selects for a query.
Selected(q, c, s) ==
  {r \in catalog :
     /\ NamespaceOf[r] \in c.namespaces \cap s
     /\ q.namespace \in {None, NamespaceOf[r]}
     /\ r \in q.matching}

Rank(r, S) == Cardinality({x \in S : x < r})

Page(q, S) ==
  {r \in S : Rank(r, S) \in PageOffset(q) .. PageOffset(q) + PageLimit(q) - 1}

\* Mutation: the total is compared as if offsets began at one.
HasNextLate(q, S) == PageOffset(q) + PageLimit(q) + 1 < Cardinality(S)

HasNext(q, S) == ~q.whole /\ PageOffset(q) + PageLimit(q) < Cardinality(S)

\* Mutation: the link forgets what was searched for.
LinkWithoutFilter(q) ==
  [q EXCEPT !.limit = PageLimit(q), !.page = None,
            !.offset = PageOffset(q) + PageLimit(q), !.matching = Records]

\* collection_next_link: the filters are repeated, the page is not.
NextLink(q) ==
  [namespace |-> q.namespace, matching |-> q.matching, whole |-> q.whole,
   limit |-> PageLimit(q), page |-> None, offset |-> PageOffset(q) + PageLimit(q)]

-----------------------------------------------------------------------------
(* Access                                                                  *)

Granted == IF session = None THEN {}
           ELSE IF session.admin THEN Namespaces ELSE session.namespaces

\* What the client may read: with a session what it grants, else what its token
\* is good for, which only requests that name a namespace can use.
Readable(q) ==
  IF ~config.auth THEN Namespaces
  ELSE IF session # None THEN Granted
  ELSE IF q.namespace # None THEN reads ELSE {}

\* Mutation: no record is hidden from a session.
AnySession(q) ==
  IF ~cfg.auth \/ session # None THEN Namespaces
  ELSE IF q.namespace = None THEN None
  ELSE IF q.namespace \in reads \cap cfg.namespaces THEN Namespaces ELSE None

\* The namespaces whose records the handler will show, or None for 401 or 404:
\* require_read_access when a namespace is named, else the session's grants.
\* An administrator's are all.
Access(q) ==
  IF ~cfg.auth THEN Namespaces
  ELSE IF q.namespace = None THEN (IF session = None THEN None ELSE Granted)
  ELSE IF session # None
  THEN (IF q.namespace \in Granted THEN Namespaces ELSE None)
  ELSE IF q.namespace \in reads \cap cfg.namespaces THEN Namespaces ELSE None

-----------------------------------------------------------------------------
Init ==
  /\ catalog \in SUBSET Records
  /\ config \in Configs
  /\ clearing = FALSE
  /\ session \in Sessions \cup {None}
  /\ reads \in TokenGrants
  /\ changes = 0
  /\ first \in Queries
  /\ query = first
  /\ pc = "ready"
  /\ cfg = config
  /\ scope = {}
  /\ listed = {}
  /\ last = {}
  /\ selected = None
  /\ due = {}
  /\ narrowed = FALSE
  /\ opened = [configured |-> {}, readable |-> {}]

\* A worker adds a record (Publication.tla).
Publish(r) ==
  /\ catalog' = catalog \cup {r}
  /\ UNCHANGED <<config, clearing, session, reads, changes>>

Change == changes < MaxChanges /\ changes' = changes + 1

ReloadConfig(c) ==
  /\ Change
  /\ ~clearing
  /\ config' = c
  /\ clearing' = TRUE
  /\ UNCHANGED <<catalog, session, reads>>

ReloadSessions ==
  /\ clearing
  /\ clearing' = FALSE
  /\ session' = None
  /\ UNCHANGED <<catalog, config, reads, changes>>

\* Revalidation, expiry, logout elsewhere; or an edit of token files.
ChangeRights ==
  /\ Change
  /\ \/ /\ session # None
        /\ session' \in (Sessions \cup {None}) \ {session}
        /\ UNCHANGED reads
     \/ /\ reads' \in TokenGrants \ {reads}
        /\ UNCHANGED session
  /\ UNCHANGED <<catalog, config, clearing>>

\* The client logs in anew: the cookie of its later requests.
Login ==
  /\ Change
  /\ pc \in {"ready", "refused"}
  /\ session = None /\ ~clearing
  /\ session' \in Sessions
  /\ UNCHANGED <<catalog, config, clearing, reads>>

-----------------------------------------------------------------------------
(* One request: copy the configuration, find the scope (which may wait for *)
(* a revalidation), then read the catalog.                                 *)

Ask ==
  /\ pc = "ready"
  /\ pc' = "asked"
  /\ cfg' = config
  /\ last' = {}
  /\ UNCHANGED <<first, query, scope, listed, selected, due, narrowed>>

\* A refused client may come back with the same query.
Retry ==
  /\ pc = "refused"
  /\ Change
  /\ pc' = "ready"
  /\ UNCHANGED <<catalog, config, clearing, session, reads,
                 first, query, cfg, scope, listed, last, selected, due, narrowed>>

\* A session whose revalidation fails for want of the provider gets 503.
Authorize ==
  /\ pc = "asked"
  /\ \/ /\ Access(query) = None \/ (cfg.auth /\ session # None)
        /\ pc' = "refused"
        /\ UNCHANGED scope
     \/ /\ Access(query) # None
        /\ query.whole /\ query.namespace \notin cfg.namespaces
        /\ pc' = "refused"
        /\ UNCHANGED scope
     \/ /\ Access(query) # None
        /\ query.whole => query.namespace \in cfg.namespaces
        /\ pc' = "allowed"
        /\ scope' = Access(query)
  /\ UNCHANGED <<first, query, cfg, listed, last, selected, due, narrowed>>

\* list_collection_records; the pages about one collection are not cut.
Read ==
  LET S == Selected(query, cfg, scope)
      page == IF query.whole THEN S ELSE Page(query, S)
      rest == {r \in S : query.whole \/ Rank(r, S) >= PageOffset(query)}
  IN  /\ pc = "allowed"
      /\ listed' = listed \cup page
      /\ last' = page
      /\ selected' = S
      /\ due' = IF selected = None THEN rest ELSE due
      /\ narrowed' = (narrowed \/ (selected # None /\ ~(selected \subseteq S)))
      /\ \/ /\ HasNext(query, S)
            /\ query' = NextLink(query)
            /\ pc' = "ready"
         \/ /\ ~HasNext(query, S)
            /\ UNCHANGED query
            /\ pc' = "done"
      /\ UNCHANGED <<first, cfg, scope>>

Request == (Ask \/ Authorize \/ Read) /\ UNCHANGED environment

\* History: what was configured and what was readable while a request ran.
Watch ==
  opened' =
    IF pc' \notin {"asked", "allowed"} THEN opened
    ELSE [configured |-> (IF pc = "ready" THEN {} ELSE opened.configured)
                           \cup config'.namespaces,
          readable   |-> (IF pc = "ready" THEN {} ELSE opened.readable)
                           \cup Readable(query)']

Environment ==
  \/ \E r \in Records \ catalog : Publish(r)
  \/ \E c \in Configs \ {config} : ReloadConfig(c)
  \/ ReloadSessions \/ ChangeRights \/ Login

Next ==
  /\ \/ Environment /\ UNCHANGED walk
     \/ Request
     \/ Retry
  /\ Watch

Spec == Init /\ [][Next]_vars

\* Handlers come to an end, and the client follows the links it is given.
LiveSpec == Spec /\ WF_vars(Request /\ Watch)

-----------------------------------------------------------------------------
\* When a walk ends, every record that was selected when it began has been on
\* one of its pages, although pages are cut anew from a catalog that grows:
\* only records that a reload or lost rights take from view can hide others.
WalkListsAll == pc = "done" /\ ~narrowed => due \subseteq listed

\* A record is listed only for a namespace that was configured, and that the
\* client could read, while that very request ran: what was withdrawn before
\* it stays hidden, whatever its next link says.
HiddenStaysHidden ==
  \A r \in last : NamespaceOf[r] \in opened.configured \cap opened.readable

\* The pages behind a next link show nothing that the first query did not ask
\* for.
LinksKeepFilters ==
  \A r \in listed :
    r \in first.matching /\ first.namespace \in {None, NamespaceOf[r]}

\* A client that follows the links reaches a last page, whatever limit it gave.
WalkEnds == pc = "ready" ~> pc \in {"done", "refused"}
=============================================================================
