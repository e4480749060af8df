------------------------------ MODULE MCListing ------------------------------
(* Instances of Listing.tla for TLC.                                       *)
EXTENDS Listing

CONSTANTS n1, n2

MCRecords == 1 .. 4
MCNamespaceOf == <<n1, n2, n1, n2>>

MCConfigs ==
  {[auth |-> FALSE, namespaces |-> {n1, n2}],
   [auth |-> TRUE, namespaces |-> {n1, n2}],
   [auth |-> TRUE, namespaces |-> {n2}]}
MCSessions ==
  {[admin |-> TRUE, namespaces |-> {}], [admin |-> FALSE, namespaces |-> {n2}]}

\* The default limit, a limit of zero, and the pages 0 and 2.
Listings ==
  {[namespace |-> n, matching |-> m, whole |-> FALSE,
    limit |-> p[1], page |-> p[2], offset |-> None] :
     n \in {None, n2}, m \in {MCRecords, {1, 2, 4}},
     p \in {<<None, None>>, <<0, None>>, <<None, 0>>, <<None, 2>>}}
Collections ==
  [namespace : {n1}, matching : {{1, 3}}, whole : {TRUE},
   limit : {None}, page : {None}, offset : {None}]
MCQueries == Listings \cup Collections
=============================================================================
