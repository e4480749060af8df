---------------------------- MODULE ClientAddress ----------------------------
(***************************************************************************)
(* The client address of a request (client_ip.rs): the peer, or what the   *)
(* X-Forwarded-For header says when the peer is a trusted proxy.           *)
(***************************************************************************)
EXTENDS Naturals, Sequences, FiniteSets

CONSTANTS
  Mapped,   \* IPv4-mapped IPv6 spellings -> the IPv4 address they mean
  Malformed,\* a piece of the header that is no address, or a header over 4096 bytes
  NoHeader,
  Refused   \* the address cannot be determined: the request is answered 400

normalize(a) == IF a \in DOMAIN Mapped THEN Mapped[a] ELSE a

\* The header lines of a request: none, the only one, or more than one, which
\* is refused whoever sent them.  So is a line that is not ASCII, which Refused
\* itself stands for.
single_forwarded_for(lines) ==
  CASE Len(lines) = 0 -> NoHeader
    [] Len(lines) = 1 -> lines[1]
    [] OTHER -> Refused

\* The peer and then the header's addresses from the right.
Hop(peer, line, i) ==
  normalize(IF i = 0 THEN peer ELSE line[Len(line) + 1 - i])

\* Where the walk from the right stops before it reaches the leftmost address:
\* at hops that are not trusted.
Stops(peer, line, trusted) ==
  {i \in 0 .. Len(line) - 1 : Hop(peer, line, i) \notin trusted}

\* Mutation: the leftmost address is taken, as if every hop were trusted.
LeftmostHop(peer, line, trusted) == Hop(peer, line, Len(line))

WalkBack(peer, line, trusted) ==
  LET stops == Stops(peer, line, trusted)
  IN  IF stops = {} THEN Hop(peer, line, Len(line))
      ELSE Hop(peer, line, CHOOSE i \in stops : \A j \in stops : i <= j)

\* The whole header is checked before the walk: no piece of it may be
\* malformed, and there are at most max_hops.
effective_ip(peer, line, trusted, max_hops) ==
  IF normalize(peer) \notin trusted THEN normalize(peer)
  ELSE IF \/ line = NoHeader
          \/ \E i \in DOMAIN line : line[i] = Malformed
          \/ Len(line) \notin 1 .. max_hops
  THEN Refused
  ELSE WalkBack(peer, line, trusted)

\* push_networks; an empty list allows everybody.
allowed(ip, networks) == networks = {} \/ ip \in networks
=============================================================================
