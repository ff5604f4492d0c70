-------------------------- MODULE MCDispatchStreams --------------------------
(* dispatch_streams: one cycle that uses two streams, or two cycles, which *)
(* nothing excludes, that overlap on a single place.                       *)
EXTENDS MCDispatch

CONSTANTS c1, c2

VARIABLE facet

StreamsInit == Init /\ facet \in {"streams", "race"}

\* What the two cycles meet: no reservation, and a host with one place, for
\* which a stream starts only when nothing else works or may still run.
Narrow(c) ==
  /\ view'[c].policy \in {Unhindered, None}
  /\ pc[c] = "planned" =>
       \A s \in Stream : rows'[s].state = "WORKING" /\ rows'[s] # rows[s] =>
         /\ \A r \in Stream \ {s} : rows'[r].state # "WORKING"
         /\ \A i \in Intent : status[i] \notin {"IN_FLIGHT", "UNKNOWN", "LAUNCHED"}

StreamsNext ==
  /\ Next /\ facet' = facet
  /\ facet = "streams" => pc'[c2] = "idle"
  /\ facet = "race" => \A c \in Cycle : Narrow(c)

StreamsSpec == StreamsInit /\ [][StreamsNext]_<<vars, facet>>
=============================================================================
