--------------------------- MODULE TripLifecycle ---------------------------
(***************************************************************************)
(* What the ApexRide schema of task-3-api-data-modeling promises of trips, *)
(* without transactions: the state machine of HARD_QUESTIONS.md, section 3,*)
(* taken one step at a time, by riders and drivers who have one active     *)
(* trip each.  The driver who accepts a trip keeps it to its end.          *)
(***************************************************************************)
CONSTANTS Trips, Riders, Drivers, Null, RiderActive, DriverActive, Edges

VARIABLE trip

Init == trip = [t \in Trips |-> Null]

Request(t, r) ==
    /\ trip[t] = Null
    /\ \A u \in Trips : trip[u] # Null /\ trip[u].rider = r
                           => trip[u].status \notin RiderActive
    /\ trip' = [trip EXCEPT ![t] = [status |-> "requested", rider |-> r, driver |-> Null]]

Accept(t, d) ==
    /\ trip[t] # Null /\ trip[t].status = "requested"
    /\ \A u \in Trips : trip[u] # Null /\ trip[u].driver = d
                           => trip[u].status \notin DriverActive
    /\ trip' = [trip EXCEPT ![t].status = "driver_assigned", ![t].driver = d]

Advance(t) ==
    /\ trip[t] # Null
    /\ \E to \in {e[2] : e \in {f \in Edges : f[1] = trip[t].status}} :
         trip' = [trip EXCEPT ![t].status = to]

Next == \E t \in {u \in Trips : trip'[u] # trip[u]} :
    \/ \E r \in Riders : Request(t, r)
    \/ \E d \in Drivers : Accept(t, d)
    \/ Advance(t)

Spec == Init /\ [][Next]_trip
=============================================================================
