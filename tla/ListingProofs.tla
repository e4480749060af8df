----------------------------- MODULE ListingProofs -----------------------------
(***************************************************************************)
(* What Listing.tla guarantees for every catalog, every query, every limit *)
(* and any number of publications, reloads and changes of rights.          *)
(***************************************************************************)
EXTENDS Listing, FiniteSetTheorems, TLAPS

-----------------------------------------------------------------------------
(* Types and pages                                                         *)

TypeInv ==
  /\ catalog \subseteq Records
  /\ first \in QueryType
  /\ query \in QueryType
  /\ listed \subseteq Records
  /\ due \subseteq Records
  /\ selected \in (SUBSET Records) \cup {None}

\* What a query selects are records.
LEMMA SelectedFromCatalog ==
  ASSUME catalog \subseteq Records, NEW q, NEW c, NEW s
  PROVE  Selected(q, c, s) \subseteq Records
BY DEF Selected

\* A page has at least one place, whatever limit and page were asked for.
LEMMA PageNumbers ==
  ASSUME NEW q \in QueryType
  PROVE  PageLimit(q) \in Nat \ {0} /\ PageOffset(q) \in Nat
<1>1. PageLimit(q) \in Nat \ {0}
  BY ListingAssumption DEF PageLimit, QueryType
<1>2. CASE q.offset # None
  BY <1>1, <1>2 DEF PageOffset, QueryType
<1>3. CASE q.offset = None /\ q.page \in {None, 0}
  BY <1>1, <1>3 DEF PageOffset
<1>4. CASE q.offset = None /\ q.page \notin {None, 0}
  <2>1. q.page - 1 \in Nat
    BY <1>4 DEF QueryType
  <2>2. (q.page - 1) * PageLimit(q) \in Nat
    BY <1>1, <2>1
  <2> QED BY <1>1, <1>4, <2>2 DEF PageOffset
<1> QED BY <1>1, <1>2, <1>3, <1>4

\* The next link asks for the same records, from where this page ended.
LEMMA LinkGoesOn ==
  ASSUME NEW q \in QueryType
  PROVE  /\ NextLink(q) \in QueryType
         /\ NextLink(q).matching = q.matching
         /\ NextLink(q).namespace = q.namespace
         /\ PageOffset(NextLink(q)) = PageOffset(q) + PageLimit(q)
<1>1. PageLimit(q) \in Nat \ {0} /\ PageOffset(q) \in Nat
  BY PageNumbers
<1>2. /\ NextLink(q) \in QueryType
      /\ NextLink(q).matching = q.matching
      /\ NextLink(q).namespace = q.namespace
      /\ NextLink(q).offset = PageOffset(q) + PageLimit(q)
  <2> DEFINE L == PageLimit(q)
             O == PageOffset(q) + PageLimit(q)
  <2>1. L \in Nat /\ O \in Nat
    BY <1>1
  <2> HIDE DEF L, O
  <2>2. NextLink(q) = [namespace |-> q.namespace, matching |-> q.matching,
                       whole |-> q.whole, limit |-> L, page |-> None, offset |-> O]
    BY DEF NextLink, L, O
  <2>3. q.namespace \in Namespaces \cup {None} /\ q.matching \in SUBSET Records
        /\ q.whole \in BOOLEAN
    BY DEF QueryType
  <2> QED BY <2>1, <2>2, <2>3 DEF QueryType, O
<1>3. PageOffset(q) + PageLimit(q) # None
  BY <1>1, ListingAssumption
<1> QED BY <1>2, <1>3 DEF PageOffset

\* Types along every behaviour.
LEMMA TypesHold == Spec => []TypeInv
<1>1. Init => TypeInv
  <2> SUFFICES ASSUME Init PROVE TypeInv
    OBVIOUS
  <2>1. first \in QueryType /\ query = first /\ catalog \subseteq Records
    BY ListingAssumption DEF Init
  <2>2. listed = {} /\ due = {} /\ selected = None
    BY DEF Init
  <2> QED BY <2>1, <2>2 DEF TypeInv
<1>2. TypeInv /\ [Next]_vars => TypeInv'
  <2> SUFFICES ASSUME TypeInv, [Next]_vars PROVE TypeInv'
    OBVIOUS
  <2>1. CASE Environment /\ UNCHANGED walk
    BY <2>1 DEF Environment, Publish, ReloadConfig, ReloadSessions, ChangeRights,
                Login, walk, TypeInv
  <2>2. CASE Ask /\ UNCHANGED environment
    BY <2>2 DEF Ask, environment, TypeInv
  <2>3. CASE Authorize /\ UNCHANGED environment
    BY <2>3 DEF Authorize, environment, TypeInv
  <2>4. CASE Read /\ UNCHANGED environment
    <3> DEFINE S == Selected(query, cfg, scope)
    <3>1. S \subseteq Records
      BY SelectedFromCatalog DEF TypeInv
    <3>2. NextLink(query) \in QueryType
      BY LinkGoesOn DEF TypeInv
    <3> QED BY <2>4, <3>1, <3>2 DEF Read, Page, environment, TypeInv
  <2>5. CASE Retry
    BY <2>5 DEF Retry, TypeInv
  <2>6. CASE UNCHANGED vars
    BY <2>6 DEF vars, environment, walk, TypeInv
  <2> QED BY <2>1, <2>2, <2>3, <2>4, <2>5, <2>6 DEF Next, Request
<1> QED BY <1>1, <1>2, PTL DEF Spec

-----------------------------------------------------------------------------
(* Hidden namespaces                                                       *)

Running == pc \in {"asked", "allowed"}

\* What the handler has found out so far was true while it ran: its copy of the
\* configuration, that reading was open to all, and the scope for its query.
ScopeInv ==
  /\ Running => last = {} /\ cfg.namespaces \subseteq opened.configured
  /\ pc = "asked" /\ ~cfg.auth => Namespaces \subseteq opened.readable
  /\ pc = "allowed" =>
       \A n \in scope \cap Namespaces : query.namespace \in {None, n} => n \in opened.readable

\* While a request runs, nothing that was open to it is forgotten.
LEMMA WatchGrows ==
  ASSUME Watch, pc # "ready"
  PROVE  /\ opened.configured \subseteq opened'.configured
         /\ opened.readable \subseteq opened'.readable
         /\ pc' \in {"asked", "allowed"} => Readable(query)' \subseteq opened'.readable
BY DEF Watch

\* A record is on a page only if its namespace was configured and readable
\* while that request ran: the handler's copy of the configuration and the scope
\* it found are at most as old as the request.
THEOREM NothingHiddenIsShown == Spec => []HiddenStaysHidden
<1> DEFINE Inv == ScopeInv /\ HiddenStaysHidden
<1>1. Init => Inv
  BY DEF Init, ScopeInv, HiddenStaysHidden, Running
<1>2. TypeInv /\ Inv /\ [Next]_vars => Inv'
  <2> SUFFICES ASSUME TypeInv, Inv, [Next]_vars PROVE Inv'
    OBVIOUS
  <2>1. CASE UNCHANGED walk /\ Watch
    <3>1. CASE Running
      <4>1. pc # "ready"
        BY <3>1 DEF Running
      <4> QED BY <2>1, <3>1, <4>1, WatchGrows
              DEF walk, ScopeInv, HiddenStaysHidden, Running
    <3>2. CASE ~Running
      BY <2>1, <3>2 DEF walk, Watch, ScopeInv, HiddenStaysHidden, Running
    <3> QED BY <3>1, <3>2
  <2>2. CASE Ask /\ UNCHANGED environment /\ Watch
    <3>1. /\ opened'.configured = config.namespaces
          /\ opened'.readable = Readable(query)'
      BY <2>2 DEF Ask, Watch, environment
    <3>2. ~cfg'.auth => Readable(query)' = Namespaces
      BY <2>2 DEF Ask, environment, Readable
    <3> QED BY <2>2, <3>1, <3>2 DEF Ask, ScopeInv, HiddenStaysHidden, Running
  <2>3. CASE Authorize /\ UNCHANGED environment /\ Watch
    <3>1. /\ pc = "asked" /\ pc' \in {"refused", "allowed"}
          /\ UNCHANGED <<query, cfg, last>>
          /\ pc' = "allowed" => scope' = Access(query) /\ Access(query) # None
      BY <2>3 DEF Authorize
    <3>2. last = {} /\ cfg.namespaces \subseteq opened.configured
      BY <3>1 DEF ScopeInv, Running
    <3>3. ASSUME pc' = "allowed", NEW n \in scope' \cap Namespaces, query.namespace \in {None, n}
          PROVE  n \in opened'.readable
      <4>1. /\ opened.readable \subseteq opened'.readable
            /\ Readable(query) \subseteq opened'.readable
        <5>1. Readable(query)' = Readable(query)
          BY <2>3, <3>1 DEF Readable, Granted, environment
        <5> QED BY <2>3, <3>1, <3>3, <5>1, WatchGrows
      <4>2. CASE ~cfg.auth
        BY <3>1, <3>3, <4>1, <4>2 DEF Access, ScopeInv
      <4>3. CASE cfg.auth /\ ~config.auth
        <5>1. Readable(query) = Namespaces
          BY <4>3 DEF Readable
        <5> QED BY <3>3, <4>1, <5>1
      <4>4. CASE cfg.auth /\ config.auth
        BY <3>1, <3>3, <4>1, <4>4 DEF Access, Readable
      <4> QED BY <4>2, <4>3, <4>4
    <3> QED BY <2>3, <3>1, <3>2, <3>3, WatchGrows
            DEF ScopeInv, HiddenStaysHidden, Running
  <2>4. CASE Read /\ UNCHANGED environment /\ Watch
    <3>1. /\ pc = "allowed" /\ pc' \in {"ready", "done"}
          /\ last' \subseteq Selected(query, cfg, scope)
      BY <2>4 DEF Read, Page
    <3>2. opened' = opened
      BY <2>4, <3>1 DEF Watch
    <3>3. \A r \in last' : NamespaceOf[r] \in opened.configured \cap opened.readable
      BY <3>1, ListingAssumption DEF Selected, ScopeInv, Running, TypeInv
    <3> QED BY <3>1, <3>2, <3>3 DEF ScopeInv, HiddenStaysHidden, Running
  <2>5. CASE Retry /\ Watch
    BY <2>5 DEF Retry, Watch, ScopeInv, HiddenStaysHidden, Running
  <2>6. CASE UNCHANGED vars
    BY <2>6 DEF vars, walk, ScopeInv, HiddenStaysHidden, Running
  <2> QED BY <2>1, <2>2, <2>3, <2>4, <2>5, <2>6 DEF Next, Request
<1>3. Inv => HiddenStaysHidden
  OBVIOUS
<1> QED BY <1>1, <1>2, <1>3, TypesHold, PTL DEF Spec

-----------------------------------------------------------------------------
(* Filters                                                                 *)

FilterInv ==
  query.matching = first.matching /\ query.namespace = first.namespace

\* However long a walk is, its pages show nothing that the first query did not
\* ask for: each next link repeats the filters of the query it was made for.
THEOREM FiltersAreKept == Spec => []LinksKeepFilters
<1> DEFINE Inv == FilterInv /\ LinksKeepFilters
<1>1. Init => Inv
  BY DEF Init, FilterInv, LinksKeepFilters
<1>2. TypeInv /\ Inv /\ [Next]_vars => Inv'
  <2> SUFFICES ASSUME TypeInv, Inv, [Next]_vars PROVE Inv'
    OBVIOUS
  <2>1. CASE UNCHANGED <<first, query, listed>>
    BY <2>1 DEF FilterInv, LinksKeepFilters
  <2>2. CASE Read
    <3>1. /\ NextLink(query).matching = query.matching
          /\ NextLink(query).namespace = query.namespace
      BY LinkGoesOn DEF TypeInv
    <3>2. /\ listed' \subseteq listed \cup Selected(query, cfg, scope)
          /\ query' \in {query, NextLink(query)}
          /\ first' = first
      BY <2>2 DEF Read, Page
    <3> QED BY <3>1, <3>2 DEF Selected, FilterInv, LinksKeepFilters
  <2> QED BY <2>1, <2>2 DEF Next, Request, Ask, Authorize, Retry, vars, walk
<1>3. Inv => LinksKeepFilters
  OBVIOUS
<1> QED BY <1>1, <1>2, <1>3, TypesHold, PTL DEF Spec

-----------------------------------------------------------------------------
(* Complete walks                                                          *)

\* A record's rank is below the number of records, and adding records to a
\* listing moves those in it only towards its end.
LEMMA RankBelow ==
  ASSUME NEW S \in SUBSET Records, NEW r \in S
  PROVE  Rank(r, S) \in Nat /\ Cardinality(S) \in Nat /\ Rank(r, S) < Cardinality(S)
<1> DEFINE T == {x \in S : x < r}
<1>1. IsFiniteSet(S)
  BY ListingAssumption, FS_Subset
<1>2. T \in SUBSET S /\ r \notin T
  BY ListingAssumption
<1> HIDE DEF T
<1>3. IsFiniteSet(T) /\ Cardinality(T) <= Cardinality(S) /\ Cardinality(T) # Cardinality(S)
  BY <1>1, <1>2, FS_Subset
<1>4. Cardinality(T) \in Nat /\ Cardinality(S) \in Nat
  BY <1>1, <1>3, FS_CardinalityType
<1> QED BY <1>3, <1>4 DEF Rank, T

\* Publishing only raises the rank of a record.
LEMMA RankGrows ==
  ASSUME NEW S \in SUBSET Records, NEW T \in SUBSET S, NEW r \in T
  PROVE  Rank(r, T) <= Rank(r, S)
<1> DEFINE A == {x \in T : x < r}
           B == {x \in S : x < r}
<1>1. A \in SUBSET B /\ B \in SUBSET Records
  OBVIOUS
<1> HIDE DEF A, B
<1>2. IsFiniteSet(B)
  BY <1>1, ListingAssumption, FS_Subset
<1>3. Cardinality(A) <= Cardinality(B)
  BY <1>1, <1>2, FS_Subset
<1> QED BY <1>3 DEF Rank, A, B

\* Records that the walk owes and has not listed are in the listing it saw last,
\* at or behind the place where its next page begins.
WalkInv ==
  /\ pc = "done" => selected # None
  /\ ~narrowed =>
       /\ pc = "done" => due \subseteq listed
       /\ selected # None /\ pc # "done" =>
            \A r \in due \ listed :
              r \in selected /\ Rank(r, selected) >= PageOffset(query)

\* When a walk ends that lost nothing from view, every record that was selected
\* when it began has been listed, although each page is cut from a catalog that
\* has grown since the last: list_collection_records sorts and cuts anew.
THEOREM WalksAreComplete == Spec => []WalkListsAll
<1>1. Init => WalkInv
  BY DEF Init, WalkInv
<1>2. TypeInv /\ WalkInv /\ [Next]_vars => WalkInv'
  <2> SUFFICES ASSUME TypeInv, WalkInv, [Next]_vars PROVE WalkInv'
    OBVIOUS
  <2>1. CASE /\ UNCHANGED <<query, listed, selected, due, narrowed>>
             /\ pc' = pc \/ (pc # "done" /\ pc' # "done")
    BY <2>1 DEF WalkInv
  <2>2. CASE Read
    <3> DEFINE S == Selected(query, cfg, scope)
               O == PageOffset(query)
               L == PageLimit(query)
    <3>1. S \in SUBSET Records /\ S # None
      BY SelectedFromCatalog, ListingAssumption DEF TypeInv
    <3>2. O \in Nat /\ L \in Nat \ {0} /\ query \in QueryType
      BY PageNumbers DEF TypeInv
    <3>3. ASSUME ~narrowed', NEW r \in due' \ listed'
          PROVE  ~query.whole /\ r \in S /\ Rank(r, S) >= O + L
      <4>1. r \in S /\ (query.whole \/ Rank(r, S) >= O)
        <5>1. CASE selected = None
          BY <2>2, <3>3, <5>1 DEF Read
        <5>2. CASE selected # None
          <6>1. /\ ~narrowed /\ selected \subseteq S /\ pc = "allowed"
                /\ r \in due \ listed
            BY <2>2, <3>3, <5>2 DEF Read
          <6>2. r \in selected /\ Rank(r, selected) >= O
            BY <5>2, <6>1 DEF WalkInv
          <6>3. Rank(r, selected) <= Rank(r, S)
            BY <3>1, <6>1, <6>2, RankGrows
          <6>4. Rank(r, S) \in Nat /\ Rank(r, selected) \in Nat
            BY <3>1, <6>1, <6>2, RankBelow
          <6> QED BY <3>2, <6>1, <6>2, <6>3, <6>4
        <5> QED BY <5>1, <5>2
      <4>2. r \notin (IF query.whole THEN S ELSE Page(query, S))
        BY <2>2, <3>3 DEF Read
      <4>3. ~query.whole /\ r \notin Page(query, S)
        BY <4>1, <4>2
      <4>4. Rank(r, S) \in Nat
        BY <3>1, <4>1, RankBelow
      <4>5. Rank(r, S) \notin O .. O + L - 1
        BY <4>1, <4>3 DEF Page
      <4> QED BY <3>2, <4>1, <4>3, <4>4, <4>5
    <3>4. CASE HasNext(query, S) /\ query' = NextLink(query) /\ pc' = "ready"
      <4>1. PageOffset(query)' = O + L
        BY <3>2, <3>4, LinkGoesOn DEF PageOffset, PageLimit
      <4>2. selected' = S
        BY <2>2 DEF Read
      <4> QED BY <3>1, <3>3, <3>4, <4>1, <4>2 DEF WalkInv
    <3>5. CASE ~HasNext(query, S) /\ pc' = "done"
      <4>1. ASSUME ~narrowed', NEW r \in due' \ listed' PROVE FALSE
        <5>1. ~query.whole /\ r \in S /\ Rank(r, S) >= O + L
          BY <3>3, <4>1
        <5>2. Rank(r, S) \in Nat /\ Cardinality(S) \in Nat /\ Rank(r, S) < Cardinality(S)
          BY <3>1, <5>1, RankBelow
        <5>3. ~(O + L < Cardinality(S))
          BY <3>5, <5>1 DEF HasNext
        <5> QED BY <3>2, <5>1, <5>2, <5>3
      <4>2. selected' # None
        BY <2>2, <3>1 DEF Read
      <4> QED BY <3>5, <4>1, <4>2 DEF WalkInv
    <3> QED BY <2>2, <3>4, <3>5 DEF Read
  <2> QED BY <2>1, <2>2 DEF Next, Request, Ask, Authorize, Retry, vars, walk
<1>3. WalkInv => WalkListsAll
  BY DEF WalkInv, WalkListsAll
<1> QED BY <1>1, <1>2, <1>3, TypesHold, PTL DEF Spec
=============================================================================
