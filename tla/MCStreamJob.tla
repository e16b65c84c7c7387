---------------------------- MODULE MCStreamJob ----------------------------
(* Values of the constants of StreamJob for model checking.  One tick is one *)
(* minute, so that WindowLen = 1 and Delay = 2 are the values of the code:   *)
(* an event of minute 0 is late as soon as one of minute 3 was seen, and     *)
(* still in time after one of minute 2.                                      *)
EXTENDS StreamRefinement

Ev(t)     == [kind |-> "event", ts |-> t]
BadRecord == [kind |-> "bad", ts |-> 0]
OddRecord == [kind |-> "odd", ts |-> 0]

EventsOnly  == {Ev(0), Ev(3)}
EventsOfThreeMinutes == {Ev(0), Ev(2), Ev(3)}
EventAndBad == {Ev(0), BadRecord}
EventAndOdd == {Ev(0), OddRecord}

=============================================================================
