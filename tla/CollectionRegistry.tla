------------------------- MODULE CollectionRegistry -------------------------
(***************************************************************************)
(* What galaxyd promises the clients that publish collections, with no     *)
(* word about files, S3 objects, tasks, caches or restarts: a write-once   *)
(* map from collection versions to uploads, and answers that are true of   *)
(* that map.  Publication.tla is shown to implement it.                    *)
(***************************************************************************)
CONSTANTS Keys,    \* (namespace, name, version) triples
          Uploads, \* publication requests
          None     \* "no upload", not an element of Uploads

VARIABLES registry, \* Keys -> the upload whose archive is published, or None
          reply,    \* Uploads -> what the client was told
          key       \* Uploads -> Keys, what the upload publishes (never changes)

vars == <<registry, reply, key>>

Replies == {"202", "409", "503", "rejected", "dropped"}

TypeOK ==
  /\ registry \in [Keys -> Uploads \cup {None}]
  /\ reply \in [Uploads -> Replies \cup {"none"}]
  /\ key \in [Uploads -> Keys]

Init ==
  /\ registry \in [Keys -> Uploads \cup {None}]
  /\ reply \in [Uploads -> {"none"}]
  /\ key \in [Uploads -> Keys]

\* A version is published once.  An upload that was answered 503, or whose
\* connection was lost, may still be published; one that was refused may not.
Commit(u) ==
  /\ registry[key[u]] = None
  /\ reply[u] \in {"none", "dropped", "503"}
  /\ registry' = [registry EXCEPT ![key[u]] = u]
  /\ UNCHANGED <<reply, key>>

\* 202 is said of a published upload only, 409 of a version that another
\* upload holds, and a refused request has published nothing.
Answer(u, r) ==
  /\ reply[u] = "none"
  /\ r = "202" => registry[key[u]] = u
  /\ r = "409" => registry[key[u]] \notin {None, u}
  /\ r = "rejected" => registry[key[u]] # u
  /\ reply' = [reply EXCEPT ![u] = r]
  /\ UNCHANGED <<registry, key>>

\* Connections break, possibly all of them at once.
Disconnect(S) ==
  /\ \A u \in S : reply[u] = "none"
  /\ reply' = [u \in Uploads |-> IF u \in S THEN "dropped" ELSE reply[u]]
  /\ UNCHANGED <<registry, key>>

Next ==
  \/ \E u \in Uploads : Commit(u)
  \/ \E u \in Uploads, r \in Replies : Answer(u, r)
  \/ \E S \in SUBSET Uploads : Disconnect(S)

Spec == Init /\ [][Next]_vars
=============================================================================
