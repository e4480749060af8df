----------------------- MODULE MCUploadAuthorization -----------------------
(* Instances of UploadAuthorization.tla for TLC.                           *)
EXTENDS UploadAuthorization, SequencesExt

CONSTANT u1

MCMapped == [a \in {"::ffff:proxy"} |-> "proxy"]

Plain(name) == [name |-> name, push_networks |-> {}]
Only(name, ip1) == [name |-> name, push_networks |-> {ip1}]

MCFirst ==
  [wellFormed |-> TRUE, restart |-> "v1",
   namespaces |-> <<Only("n1", "client"), Plain("n2")>>,
   trusted |-> {"proxy"}, max_hops |-> 3,
   auth |-> TRUE, local |-> FALSE, oidc |-> TRUE, interval |-> 1, ttl |-> 2,
   mappings |-> {[admin |-> FALSE, namespaces |-> {"n1"}]}]

\* The proxy is no longer trusted, and the network list names it instead; the
\* namespace is gone; and files that a reload must not accept.
MCFiles ==
  {MCFirst,
   [MCFirst EXCEPT !.trusted = {}, !.namespaces = <<Plain("n2"), Only("n1", "proxy")>>],
   [MCFirst EXCEPT !.namespaces = <<Plain("n2")>>, !.mappings = {}],
   [MCFirst EXCEPT !.namespaces = <<Plain("n2")>>],
   [MCFirst EXCEPT !.namespaces = @ \o <<Plain("n1")>>],
   [MCFirst EXCEPT !.restart = "v2"],
   [MCFirst EXCEPT !.ttl = 1]}

MCPieces == {"client", "proxy", Malformed}
MCForgeries == BoundedSeq(MCPieces, 2)
MCLines == {<<>>} \cup {<<l>> : l \in BoundedSeq(MCPieces, 2) \ {<<>>}}
             \cup {<<<<"client">>, <<"client">>>>, <<Refused>>}

MCRequests ==
  [peer : {"client", "proxy"}, forwarded : MCLines, token : {"t1"}, namespace : {"n1"}]
  \cup [peer : {"::ffff:proxy"}, forwarded : {<<<<"client">>>>}, token : {"t1", NoToken},
        namespace : {"n1", "n2", "n3"}]

MCTokenFiles == {<<"n1", "write">>, <<"n1", "plain">>, <<"n1", "read">>, <<"n2", "plain">>}
MCContents == {{}, {"t1"}}
MCFirstTokens == [f \in MCTokenFiles |->
  IF f[2] = "plain" THEN {"t1"} ELSE Absent]
=============================================================================
