------------------------------- MODULE MCLinks -------------------------------
(* The links of the cluster, in one run: the one between a mount and its     *)
(* service, or those between services.  part is chosen at the start: the     *)
(* parts share no state, so that each is checked with the other at rest.     *)
EXTENDS MCDmsg, MCSpan

VARIABLE part
linksVars == <<dmsgVars, spanVars, part>>

LinksInit == DmsgInit /\ SpanInit /\ part \in {"mount", "services"}

LinksNext ==
    /\ UNCHANGED part
    /\ \/ part = "mount" /\ DmsgNext /\ UNCHANGED spanVars
       \/ part = "services" /\ SpanNext /\ UNCHANGED dmsgVars

LinksSpec == /\ LinksInit /\ [][LinksNext]_linksVars
             /\ part = "mount" => ThreadsFair
             /\ part = "services" => SpanFairness
===============================================================================
