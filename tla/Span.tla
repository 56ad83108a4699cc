--------------------------------- MODULE Span ---------------------------------
(***************************************************************************)
(* The spanning tree of libdmsg (msg_lnk.c).  The services form a web of   *)
(* connections; a mounted volume opens a LNK_SPAN transaction with the     *)
(* service it is connected to, Home, and each service relays the best      *)
(* span of a node over each of its connections as a LNK_SPAN of its own,   *)
(* one further away.  Here: one node (h2span_node), its links              *)
(* (h2span_link) and relays (h2span_relay) in every service, the ordered   *)
(* streams between the services, the signal that makes a service's thread  *)
(* scan, and connections that break.                                       *)
(***************************************************************************)
EXTENDS Integers, Sequences, FiniteSets, SequencesExt

CONSTANTS
    Routers,      \* the services
    Home,         \* the one the volume is connected to
    Peers,        \* which services have a connection, a symmetric relation
    Port,         \* the address order of the states of a service's peers
    MaxDist,      \* DMSG_SPAN_MAXDIST
    MaxFlaps,     \* how often the volume opens its span
    MaxCuts       \* how many connections break

ASSUME SpanAssumption ==
    /\ Home \in Routers /\ Peers \subseteq Routers \X Routers
    /\ \A p \in Peers : <<p[2], p[1]>> \in Peers /\ p[1] # p[2]
    /\ Port \in [Routers -> Nat]
    /\ MaxDist \in Nat /\ MaxFlaps \in Nat /\ MaxCuts \in Nat

VARIABLES
    open,     \* the volume's span is open at Home
    live,       \* the connections that have not broken
    conns,    \* <<r, s>>: r holds an h2span_conn for s
    links,    \* of each service, the spans it has received
    relays,   \* of each service, the spans it sends on
    wire,     \* of <<r, s>>, the messages from r that s has not read
    swork,    \* DMSG_IOCOMF_SWORK: a scan is due
    flaps, cuts

spanVars == <<open, live, conns, links, relays, wire, swork, flaps, cuts>>

\* A link: the service it came from (r itself for the volume at Home r), its
\* transaction and its distance.  A relay: its connection, its own transaction
\* and the link it relays (source_rt).
Link == [from : Routers, id : Nat, dist : Nat]
Relay == [to : Routers, id : Nat, src : Link]
SpanMessage == [cmd : {"CREATE", "DELETE"}, id : Nat, dist : Nat]

SpanInit ==
    /\ open = FALSE /\ live = Peers /\ conns = Peers
    /\ links = [r \in Routers |-> {}] /\ relays = [r \in Routers |-> {}]
    /\ wire = [p \in Peers |-> <<>>]
    /\ swork = [r \in Routers |-> FALSE]
    /\ flaps = 0 /\ cuts = 0

-----------------------------------------------------------------------------
\* h2span_link_cmp.  All services of a web add their own DMsgRNSS, which orders
\* links of one distance as arbitrarily as the address of the state does.
Closer(k, l) ==
    \/ k.dist < l.dist
    \/ k.dist = l.dist /\ Port[k.from] < Port[l.from]
    \/ k.dist = l.dist /\ k.from = l.from /\ k.id < l.id

Received(p) == {l \in links[p[2]] : l.from = p[1]}
Relayed(p) == {x \in relays[p[1]] : x.to = p[2]}

\* The transactions of a connection that either end still knows, and the first
\* id that is none of theirs.
IdsInUse(p) ==
    {l.id : l \in Received(p)} \cup {x.id : x \in Relayed(p)}
        \cup {wire[p][i].id : i \in DOMAIN wire[p]}

Lowest(S) == CHOOSE x \in S : \A y \in S : x <= y
FreshId(p) == Lowest((0 .. Cardinality(IdsInUse(p))) \ IdsInUse(p))

RelayedDist(l) == l.dist + 1
CreateSpan(x) == [cmd |-> "CREATE", id |-> x.id, dist |-> RelayedDist(x.src)]
DeleteSpan(x) == [cmd |-> "DELETE", id |-> x.id, dist |-> 0]

\* What r writes to a connection for relays of its own it makes, and for those
\* it deletes (dmsg_relay_delete): lost when the connection has broken.
Over(p, r) == p \in live /\ p[1] = r
relay_create(w, r, made) ==
    [p \in Peers |-> IF Over(p, r)
       THEN w[p] \o SetToSeq({CreateSpan(x) : x \in {y \in made : y.to = p[2]}}) ELSE w[p]]
BugRelayDelete(w, r, gone) == w
relay_delete(w, r, gone) ==
    [p \in Peers |-> IF Over(p, r)
       THEN w[p] \o SetToSeq({DeleteSpan(x) : x \in {y \in gone : y.to = p[2]}}) ELSE w[p]]

-----------------------------------------------------------------------------
\* dmsg_relay_scan_specific: only the best link counts, since maxcount is 2 and
\* is compared after the increment; it is not relayed when too far, nor over
\* the connection it came in on.
Wanted(p, l) ==
    /\ l \in links[p[1]] /\ \A k \in links[p[1]] \ {l} : Closer(l, k)
    /\ l.dist <= MaxDist /\ l.from # p[2]

generate_relay(p, l) == [to |-> p[2], id |-> FreshId(p), src |-> l]

\* The relay of the wanted link stays or is made, then the others go.
Created(p) ==
    {generate_relay(p, l) : l \in
        {k \in links[p[1]] : Wanted(p, k) /\ \A x \in Relayed(p) : x.src # k}}
Extras(p) == {x \in Relayed(p) : ~Wanted(p, x.src)}

\* dmsg_msg_lnk_signal, called by dmsg_iocom_core for SWORK: every connection.
dmsg_relay_scan(r) ==
    LET mine == {p \in conns : p[1] = r}
        made == UNION {Created(p) : p \in mine}
        extras == UNION {Extras(p) : p \in mine}
    IN  /\ swork[r]
        /\ swork' = [swork EXCEPT ![r] = FALSE]
        /\ relays' = [relays EXCEPT ![r] = (@ \ extras) \cup made]
        /\ wire' = relay_delete(relay_create(wire, r, made), r, extras)
        /\ UNCHANGED <<open, live, conns, links, flaps, cuts>>

-----------------------------------------------------------------------------
\* dmsg_lnk_span: a span opens ...
SpanCreate(r, l) ==
    /\ links' = [links EXCEPT ![r] = @ \cup {l}]
    /\ swork' = [swork EXCEPT ![r] = TRUE]
    /\ UNCHANGED relays

\* ... and ends: its relays go, and the link; the signal only if the node has
\* other links.
BugSignals(r, l) == FALSE
Signals(r, l) == links[r] # {l}

SpanDelete(w, r, l) ==
    LET gone == {x \in relays[r] : x.src = l}
    IN  /\ links' = [links EXCEPT ![r] = @ \ {l}]
        /\ relays' = [relays EXCEPT ![r] = @ \ gone]
        /\ wire' = relay_delete(w, r, gone)
        /\ swork' = [swork EXCEPT ![r] = @ \/ Signals(r, l)]

\* The volume's own span, which the kernel opens and closes.
VolumeSpan == [from |-> Home, id |-> 0, dist |-> 0]
SpanOpen ==
    /\ ~open /\ flaps < MaxFlaps
    /\ open' = TRUE /\ flaps' = flaps + 1
    /\ SpanCreate(Home, VolumeSpan)
    /\ UNCHANGED <<live, conns, wire, cuts>>
SpanClose ==
    /\ open
    /\ open' = FALSE
    /\ SpanDelete(wire, Home, VolumeSpan)
    /\ UNCHANGED <<live, conns, flaps, cuts>>

\* A service reads the next message of a connection.
lnk_span(s, r) ==
    /\ <<r, s>> \in live /\ wire[<<r, s>>] # <<>>
    /\ LET m == Head(wire[<<r, s>>])
           rest == [wire EXCEPT ![<<r, s>>] = Tail(@)]
       IN  \/ /\ m.cmd = "CREATE"
              /\ SpanCreate(s, [from |-> r, id |-> m.id, dist |-> m.dist])
              /\ wire' = rest
           \/ /\ m.cmd = "DELETE"
              /\ \E l \in links[s] : l.from = r /\ l.id = m.id /\ SpanDelete(rest, s, l)
    /\ UNCHANGED <<open, live, conns, flaps, cuts>>

-----------------------------------------------------------------------------
(* A connection breaks: what is under way is lost, and each end simulates a  *)
(* failure of every transaction of it, one callback at a time with           *)
(* iocom->mtx let go, so that other threads scan in between.                 *)

Disconnect(r, s) ==
    /\ <<r, s>> \in live /\ cuts < MaxCuts
    /\ live' = live \ {<<r, s>>, <<s, r>>} /\ cuts' = cuts + 1
    /\ wire' = [wire EXCEPT ![<<r, s>>] = <<>>, ![<<s, r>>] = <<>>]
    /\ UNCHANGED <<open, conns, links, relays, swork, flaps>>

\* dmsg_lnk_conn: the relays of the connection end with it.
lnk_conn(r, s) ==
    /\ <<r, s>> \in conns \ live
    /\ conns' = conns \ {<<r, s>>}
    /\ relays' = [relays EXCEPT ![r] = {x \in @ : x.to # s}]
    /\ UNCHANGED <<open, live, links, wire, swork, flaps, cuts>>

\* dmsg_lnk_relay: the other end has closed the relayed span.
lnk_relay(r, s) ==
    /\ \E x \in relays[r] : x.to = s /\ relays' = [relays EXCEPT ![r] = @ \ {x}]
    /\ <<r, s>> \notin live
    /\ UNCHANGED <<open, live, conns, links, wire, swork, flaps, cuts>>

FailedSpan(s, r) ==
    /\ <<s, r>> \notin live
    /\ \E l \in links[s] : l.from = r /\ l.from # s /\ SpanDelete(wire, s, l)
    /\ UNCHANGED <<open, live, conns, flaps, cuts>>

-----------------------------------------------------------------------------
Progress(r, s) ==
    \/ lnk_span(r, s) \/ lnk_conn(r, s)
    \/ lnk_relay(r, s) \/ FailedSpan(r, s)

SpanNext ==
    \/ SpanOpen \/ SpanClose
    \/ \E r \in Routers : dmsg_relay_scan(r)
    \/ \E p \in Peers : Progress(p[1], p[2]) \/ Disconnect(p[1], p[2])

SpanFairness ==
    /\ \A r \in Routers : WF_spanVars(dmsg_relay_scan(r))
    /\ \A p \in Peers : WF_spanVars(Progress(p[1], p[2]))

SpanSpec == SpanInit /\ [][SpanNext]_spanVars /\ SpanFairness

-----------------------------------------------------------------------------
SpanTypeOK ==
    /\ live \subseteq Peers /\ conns \subseteq Peers
    /\ \A r \in Routers : links[r] \subseteq Link /\ relays[r] \subseteq Relay
    /\ \A p \in Peers : \A i \in DOMAIN wire[p] : wire[p][i] \in SpanMessage

\* A service with no scan due relays the best link it holds, and only that
\* one, over each working connection it did not come from: whatever ended a
\* link or brought a better one has either redone the relays itself or left a
\* scan due (dmsg_lnk_span, dmsg_relay_scan_specific).
RelaysFollowBest ==
    \A p \in conns \cap live : ~swork[p[1]] =>
        {x.src : x \in Relayed(p)} = {l \in links[p[1]] : Wanted(p, l)}

\* The two ends of a working connection agree on the spans relayed over it
\* once the stream between them is empty (dmsg_generate_relay and
\* dmsg_relay_delete against dmsg_lnk_span).
StreamsAgree ==
    \A p \in live : wire[p] = <<>> =>
        {<<x.id, RelayedDist(x.src)>> : x \in Relayed(p)}
            = {<<l.id, l.dist>> : l \in Received(p)}

\* What a service reads fits what it knows: a span that starts is one it does
\* not hold, one that ends is one it does, although ids are taken again
\* (dmsg_lnk_span finds a state for each message of a transaction).
MessagesFit ==
    \A p \in live : wire[p] # <<>> =>
        LET m == Head(wire[p])
        IN  m.cmd = "DELETE" <=> \E l \in Received(p) : l.id = m.id

\* Relays follow the best link, and streams carry them to the other end.
SpanSound == SpanTypeOK /\ RelaysFollowBest /\ StreamsAgree /\ MessagesFit

\* The hops from Home over the connections that work.
Hops[n \in 0..MaxDist] ==
    IF n = 0 THEN {Home}
    ELSE Hops[n - 1] \cup {p[2] : p \in {q \in live : q[1] \in Hops[n - 1]}}
Near(r, n) == r \in Hops[n] /\ \A k \in 0..(n - 1) : r \notin Hops[k]

\* Every service learns the volume at its true distance, and forgets it.
Converged ==
    \A r \in Routers :
        LET dists == {l.dist : l \in links[r]}
        IN  IF open /\ \E n \in 0..MaxDist : Near(r, n)
            THEN \E n \in 0..MaxDist :
                    Near(r, n) /\ n \in dists /\ \A d \in dists : n <= d
            ELSE links[r] = {}

\* Once the volume stays as it is and no connection breaks any more, every
\* service it can be reached from holds a span of it at the shortest distance,
\* and when it is closed or cut off no service keeps one: spans that chase
\* each other around a loop end at DMSG_SPAN_MAXDIST ("The spanning tree can
\* cause closed loops so we have to limit slink->dist", msg_lnk.c).
SpanConverges == <>[]Converged
=============================================================================
