------------------------------ MODULE MCPlugin ------------------------------
(* Instances of Plugin for TLC.  Numbers are 8 bits wide. *)
EXTENDS Plugin

CONSTANTS c1, c10, c1x

MCContainers == {c1, c10, c1x}
MCPrefixed == {<<c10, c1>>, <<c1x, c1>>}
MCDashed == {<<c1x, c1>>}

MCVersions == {3, 5, 11, Junk}
MCRatio == [num |-> 1, den |-> 2]

Q(n, f) == [num |-> n, factor |-> f]
NoAnnotation == [form |-> "none", rate |-> Q(0, 1), burst |-> Unset, hh |-> 0]
Simple(q) == [NoAnnotation EXCEPT !.form = "simple", !.rate = q]
Json(q, b, hh) == [form |-> "json", rate |-> q, burst |-> b, hh |-> hh]
NoBandwidth == [rate |-> 0, burst |-> 0]

One(bw, a, num, hh, tc) ==
  [bandwidth  |-> [d \in Dirs |-> IF d = "ingress" THEN bw ELSE NoBandwidth],
   annotation |-> [d \in Dirs |-> IF d = "ingress" THEN a ELSE Simple(Q(2, 10))],
   ratio |-> [num |-> num, den |-> 4], hh |-> hh, timeConst |-> tc]

(* Quantities at the limits of a number and of a rate. *)
MCQuantities == {Q(0, 1), Q(1, 1), Q(20, 1), Q(63, 1), Q(64, 1), Q(200, 1),
                 Q(6, 10), Q(7, 10), Q(64, 12), Q(5, 0)}

(* Both channels, each way a burst and a threshold may be given, and the   *)
(* defaults of a cluster.                                                  *)
MCConfs ==
  {One([rate |-> r, burst |-> b], NoAnnotation, n, 0, 0) :
     r \in {1, 20, 90}, b \in {0, 3, 127}, n \in {0, 99}}
  \cup {One([rate |-> r, burst |-> -3], Simple(Q(6, 10)), 1, hh, tc) :
          r \in {-5, 127}, hh \in {-1, 2}, tc \in {0, 100}}
  \cup {One(NoBandwidth, Simple(q), 99, 0, 0) : q \in MCQuantities}
  \cup {One(NoBandwidth, Json(Q(20, 1), b, hh), n, 0, 0) :
          b \in {Unset, Q(1, 1), Q(10, 1), Q(9, 10)}, hh \in {-1, 16}, n \in {0, 99}}
  \cup {One(NoBandwidth, [NoAnnotation EXCEPT !.form = "malformed"], 0, 0, 3)}

=============================================================================
