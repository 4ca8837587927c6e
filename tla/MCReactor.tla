------------------------------ MODULE MCReactor ------------------------------
(* Two clients that wait for their callbacks, c1 with a tail key and h with a *)
(* head key alone; one whose callbacks may throw (c2); a client and a UDP     *)
(* socket whose keys are longer than a byte (l, u).  Which of them meet says  *)
(* MCCasts.  With a listener there are as many descriptors as three sockets.  *)
EXTENDS Reactor

MCEnds == [s \in Peers |->
             CASE s \in HeadOnly -> {1, 2, 3}
               [] s \in LongKeys -> {2}
               [] OTHER -> {1, 3}]

MCCasts == {{"c1", "c2"}, {"c1", "l"}, {"c1", "u"}, {"h", "c2"}}
=============================================================================
