------------------------------ MODULE ApexRide ------------------------------
(***************************************************************************)
(* The ApexRide database of task-3-api-data-modeling: what the tables,     *)
(* foreign keys, partial unique indexes, CHECKs and the trigger of         *)
(* src/db/migrate.ts leave true when transactions run at the same time.    *)
(*                                                                         *)
(* A client's transaction is one statement and a commit or a rollback.     *)
(* Between the two its rows are uncommitted: nobody else sees them, and    *)
(* they lock.  PostgreSQL, at READ COMMITTED, makes a statement wait that  *)
(*   - writes a row with an uncommitted version,                           *)
(*   - would collide in a unique index with an uncommitted version, or     *)
(*     with a row whose uncommitted version no longer collides,            *)
(*   - refers to a row being deleted, or deletes one being referred to,    *)
(* and then evaluates it on what was committed.  A statement that waits is *)
(* one that is not enabled; one that is refused changes nothing.           *)
(*                                                                         *)
(* The statements of the trip service are those of its test and of its     *)
(* contracts: the service itself is not in the repository.  Names, places, *)
(* times and soft deletes, which keep the row, are left out, and so are    *)
(* fare receipts, whose constraints speak of one receipt.                  *)
(***************************************************************************)
EXTENDS Integers, FiniteSets

CONSTANTS
    Riders, Drivers, Vehicles, Trips,
    Clients,
    Owner,      \* the driver a vehicle is registered for: no id is used again
    MaxEarly,   \* a bound: reviews the missing trigger lets through
    Null        \* SQL's NULL, and no row

RiderActive == {"requested", "driver_assigned", "driver_arriving", "in_progress"}
DriverActive == {"driver_assigned", "driver_arriving", "in_progress"}
Matched == DriverActive \cup {"completed"}
TripStatus == RiderActive \cup {"completed", "cancelled_by_rider", "cancelled_by_driver"}

\* The transitions of the service, but for the driver's acceptance.
Edges == {<<"driver_assigned", "driver_arriving">>, <<"driver_arriving", "in_progress">>,
          <<"in_progress", "completed">>}
         \cup {"requested", "driver_assigned", "driver_arriving"} \X {"cancelled_by_rider"}
         \cup {"driver_assigned", "driver_arriving"} \X {"cancelled_by_driver"}

TripRow == [status : TripStatus, rider : Riders, driver : Drivers \cup {Null},
            vehicle : Vehicles \cup {Null}]
VehicleRow == [driver : Drivers, isActive : BOOLEAN]
ReviewRow == [driver : Drivers]

\* The rows by table and id; those of Review by their tripId, which is
\* unique.
Trip(t) == <<"Trip", t>>
Vehicle(v) == <<"Vehicle", v>>
Driver(d) == <<"Driver", d>>
Review(t) == <<"Review", t>>
Keys == {Trip(t) : t \in Trips} \cup {Vehicle(v) : v \in Vehicles}
        \cup {Driver(d) : d \in Drivers} \cup {Review(t) : t \in Trips}

ASSUME ApexAssumption ==
    /\ Owner \in [Vehicles -> Drivers] /\ MaxEarly \in Nat
    /\ Null \notin TripRow \cup VehicleRow \cup ReviewRow \cup Drivers \cup Vehicles \cup {"row"}
    /\ Null \notin [status : TripStatus, rider : Riders, driver : Drivers \cup {Null}]

VARIABLES
    db,         \* db[k]: the committed row, or Null
    dirty,      \* dirty[c]: the rows c has written and not committed
    trigger,    \* trg_review_completed_trip_only exists
    unguarded   \* ghost: trips reviewed too early, while it did not

apexVars == <<db, dirty, trigger, unguarded>>

NoRows == [k \in {} |-> Null]

-----------------------------------------------------------------------------
(* Constraints.                                                            *)

\* Mutant: the index of the riders forgets the trip under way.
RiderIndexMissesRides(a, b) ==
    a.rider = b.rider /\ {a.status, b.status} \subseteq RiderActive \ {"in_progress"}

\* idx_rider_single_active_trip, idx_driver_single_active_trip and
\* idx_driver_single_active_vehicle: two rows that cannot both be in the index.
CollideInRiderIndex(a, b) ==
    a.rider = b.rider /\ {a.status, b.status} \subseteq RiderActive
CollideInDriverIndex(a, b) ==
    /\ a.driver = b.driver /\ a.driver # Null
    /\ {a.status, b.status} \subseteq DriverActive
CollideInVehicleIndex(a, b) == a.driver = b.driver /\ a.isActive /\ b.isActive

Collide(table, a, b) ==
    /\ Null \notin {a, b}
    /\ CASE table = "Trip" -> CollideInRiderIndex(a, b) \/ CollideInDriverIndex(a, b)
         [] table = "Vehicle" -> CollideInVehicleIndex(a, b)
         [] OTHER -> FALSE

\* check_trip_driver_required_when_assigned
CheckDriver(k, row) ==
    k[1] = "Trip" /\ row # Null /\ row.status \in Matched => row.driver # Null

\* The foreign keys of a row, riders left out: their rows are never deleted.
References(k, row) ==
    IF row = Null THEN {}
    ELSE CASE k[1] = "Trip" -> {Driver(row.driver), Vehicle(row.vehicle)} \cap Keys
           [] k[1] = "Vehicle" -> {Driver(row.driver)} \cap Keys
           [] k[1] = "Review" -> {Trip(k[2]), Driver(row.driver)}
           [] k[1] = "Driver" -> {}

\* fn_review_completed_trip_only, on the committed row; no row is left to the
\* foreign key.
TriggerRefusesNewTrips(t) == db[Trip(t)] # Null => db[Trip(t)].status # "requested"
TriggerAllows(t) == db[Trip(t)] # Null => db[Trip(t)].status = "completed"

-----------------------------------------------------------------------------
(* Locks.                                                                  *)

\* Mutant: WHERE is evaluated once, on the row as it was before the wait.
NeverWaits(k) == TRUE
Unlocked(k) == \A c \in Clients : k \notin DOMAIN dirty[c]

Versions(k) == {db[k]} \cup {dirty[c][k] : c \in {o \in Clients : k \in DOMAIN dirty[o]}}

UniqueAllows(k, row) ==
    \A j \in {i \in Keys \ {k} : i[1] = k[1]} :
        \A version \in Versions(j) : ~Collide(k[1], row, version)

\* A foreign key finds the row, and nobody is deleting it.
Exists(k) == Null \notin Versions(k)

\* Mutant: whoever deletes a row sees the references that are committed.
SeesNoUncommitted(k) == FALSE
ReferredToUncommitted(k) ==
    \E c \in Clients : \E j \in DOMAIN dirty[c] : k \in References(j, dirty[c][j])
Referring(k) == {j \in Keys : k \in References(j, db[j])}

-----------------------------------------------------------------------------
(* Transactions.                                                           *)

Writes(c, rows) ==
    /\ dirty[c] = NoRows
    /\ \A k \in DOMAIN rows :
         /\ Unlocked(k) /\ UniqueAllows(k, rows[k]) /\ CheckDriver(k, rows[k])
         /\ \A ref \in References(k, rows[k]) : Exists(ref)
    /\ dirty' = [dirty EXCEPT ![c] = rows]
    /\ UNCHANGED <<db, trigger>>

WritesRow(c, k, row) == Writes(c, [j \in {k} |-> row]) /\ UNCHANGED unguarded
Inserts(c, k, row) == db[k] = Null /\ WritesRow(c, k, row)

Commit(c) ==
    /\ dirty[c] # NoRows
    /\ db' = [k \in Keys |-> IF k \in DOMAIN dirty[c] THEN dirty[c][k] ELSE db[k]]
    /\ dirty' = [dirty EXCEPT ![c] = NoRows]
    /\ UNCHANGED <<trigger, unguarded>>

\* An error, or the connection is lost.
Rollback(c) ==
    /\ dirty[c] # NoRows
    /\ dirty' = [dirty EXCEPT ![c] = NoRows]
    /\ UNCHANGED <<db, trigger, unguarded>>

-----------------------------------------------------------------------------
(* Statements.                                                             *)

RequestTrip(c, t, r) ==
    Inserts(c, Trip(t), [status |-> "requested", rider |-> r, driver |-> Null, vehicle |-> Null])

\* UPDATE "Trip" SET status = ... WHERE id = t AND status = from
UpdatesTrip(c, t, from, row) ==
    /\ db[Trip(t)] # Null /\ db[Trip(t)].status = from
    /\ WritesRow(c, Trip(t), row)

\* The driver comes with their active vehicle, if they have one.
VehiclesInService(d) == {v \in Vehicles : db[Vehicle(v)] = [driver |-> d, isActive |-> TRUE]}
AcceptTrip(c, t, d) ==
    \E v \in IF VehiclesInService(d) = {} THEN {Null} ELSE VehiclesInService(d) :
        UpdatesTrip(c, t, "requested",
           [db[Trip(t)] EXCEPT !.status = "driver_assigned", !.driver = d, !.vehicle = v])

AdvanceTrip(c, t, from, to) ==
    UpdatesTrip(c, t, from, [db[Trip(t)] EXCEPT !.status = to])

\* The rider and the driver of a review are those of the trip.
InsertReview(c, t) ==
    /\ trigger => TriggerAllows(t)
    /\ db[Review(t)] = Null /\ db[Trip(t)] # Null /\ db[Trip(t)].driver # Null
    /\ Writes(c, [j \in {Review(t)} |-> [driver |-> db[Trip(t)].driver]])
    /\ unguarded' = unguarded \cup ({t} \ {u \in Trips : TriggerAllows(u)})
    /\ Cardinality(unguarded') <= MaxEarly

InsertVehicle(c, v) == Inserts(c, Vehicle(v), [driver |-> Owner[v], isActive |-> TRUE])
SetVehicleActive(c, v, active) ==
    /\ db[Vehicle(v)] # Null /\ db[Vehicle(v)].isActive # active
    /\ WritesRow(c, Vehicle(v), [db[Vehicle(v)] EXCEPT !.isActive = active])

\* A row and what ON DELETE CASCADE and SET NULL do: the vehicles go with their
\* driver, the trips lose their vehicle.
DeletesRows(c, gone) ==
    LET orphaned == (UNION {Referring(k) : k \in gone}) \ gone
    IN  /\ \A k \in gone : db[k] # Null /\ ~ReferredToUncommitted(k)
        /\ Writes(c, [k \in gone \cup orphaned |->
                        IF k \in gone THEN Null ELSE [db[k] EXCEPT !.vehicle = Null]])
        /\ UNCHANGED unguarded

DeleteVehicle(c, v) == DeletesRows(c, {Vehicle(v)})

\* Mutant: Vehicle.driverId is ON DELETE SET NULL, as the test's comment has it.
DeleteDriverSetsNull(c, d) ==
    /\ \A k \in Referring(Driver(d)) : k[1] = "Vehicle"
    /\ db[Driver(d)] # Null /\ ~ReferredToUncommitted(Driver(d))
    /\ Writes(c, [k \in {Driver(d)} \cup Referring(Driver(d)) |->
                    IF k = Driver(d) THEN Null ELSE [db[k] EXCEPT !.driver = Null]])
    /\ UNCHANGED unguarded

\* ON DELETE RESTRICT: not while a trip or a review names the driver.
DeleteDriver(c, d) ==
    /\ \A k \in Referring(Driver(d)) : k[1] = "Vehicle"
    /\ DeletesRows(c, {Driver(d)} \cup Referring(Driver(d)))

-----------------------------------------------------------------------------
(* migrate() run again on a live database: the trigger is dropped and made *)
(* again, in two transactions.  Either waits for those who write reviews.  *)

NoReviewUncommitted == \A c \in Clients : \A k \in DOMAIN dirty[c] : k[1] # "Review"

DropTrigger ==
    /\ trigger /\ NoReviewUncommitted
    /\ trigger' = FALSE /\ UNCHANGED <<db, dirty, unguarded>>
CreateTrigger ==
    /\ ~trigger /\ NoReviewUncommitted
    /\ trigger' = TRUE /\ UNCHANGED <<db, dirty, unguarded>>

-----------------------------------------------------------------------------
\* After migrate(), and the riders and the drivers have registered.
ApexInit ==
    /\ db = [k \in Keys |-> IF k[1] = "Driver" THEN "row" ELSE Null]
    /\ dirty = [c \in Clients |-> NoRows]
    /\ trigger = TRUE /\ unguarded = {}

ApexNext ==
    \/ DropTrigger \/ CreateTrigger
    \/ \E c \in Clients :
        \/ Commit(c) \/ Rollback(c)
        \/ \E t \in Trips :
            \/ \E r \in Riders : RequestTrip(c, t, r)
            \/ \E d \in Drivers : AcceptTrip(c, t, d)
            \/ \E e \in Edges : AdvanceTrip(c, t, e[1], e[2])
            \/ InsertReview(c, t)
        \/ \E d \in Drivers : DeleteDriver(c, d)
        \/ \E v \in Vehicles :
            \/ InsertVehicle(c, v) \/ DeleteVehicle(c, v)
            \/ \E active \in BOOLEAN : SetVehicleActive(c, v, active)

ApexSpec == ApexInit /\ [][ApexNext]_apexVars

-----------------------------------------------------------------------------
RowsOfTable(k) ==
    CASE k[1] = "Trip" -> TripRow [] k[1] = "Vehicle" -> VehicleRow
      [] k[1] = "Review" -> ReviewRow [] k[1] = "Driver" -> {"row"}

ApexTypeOK ==
    /\ DOMAIN db = Keys /\ \A k \in Keys : db[k] \in RowsOfTable(k) \cup {Null}
    /\ DOMAIN dirty = Clients
    /\ \A c \in Clients : /\ DOMAIN dirty[c] \subseteq Keys
                          /\ \A k \in DOMAIN dirty[c] : dirty[c][k] \in RowsOfTable(k) \cup {Null}
    /\ trigger \in BOOLEAN /\ unguarded \subseteq Trips

Status(t) == IF db[Trip(t)] = Null THEN "none" ELSE db[Trip(t)].status

\* No rider and no driver has two active trips, and no driver two active
\* vehicles, however requests, acceptances, returns to service and rollbacks
\* are interleaved (migrate.ts:139-141, 190-197).
SingleActive ==
    /\ \A t, u \in Trips : {Status(t), Status(u)} \subseteq RiderActive
                               /\ db[Trip(t)].rider = db[Trip(u)].rider => t = u
    /\ \A t, u \in Trips : {Status(t), Status(u)} \subseteq DriverActive
                               /\ db[Trip(t)].driver = db[Trip(u)].driver => t = u
    /\ \A v, w \in Vehicles :
         /\ Null \notin {db[Vehicle(v)], db[Vehicle(w)]}
         /\ db[Vehicle(v)].isActive /\ db[Vehicle(w)].isActive
         /\ db[Vehicle(v)].driver = db[Vehicle(w)].driver
         => v = w

\* What a row refers to exists, though drivers and vehicles are deleted beside
\* it, and a matched trip names its driver (migrate.ts:124, 160-162, 204-211).
ReferencesExist ==
    /\ \A k \in Keys : \A ref \in References(k, db[k]) : db[ref] # Null
    /\ \A t \in Trips : Status(t) \in Matched => db[Trip(t)].driver # Null

\* A review is of a completed trip: the trigger looked at the trip in a statement
\* of its own, before the review was committed, and that is enough, because no
\* statement of the service takes a trip out of "completed" (migrate.ts:294-300).
\* The exception is a review that was inserted while migrate() had dropped the
\* trigger.
ReviewsAreOfCompletedTrips ==
    \A t \in Trips \ unguarded : db[Review(t)] # Null => Status(t) = "completed"

\* Each trip is taken through the state machine of HARD_QUESTIONS.md one step at
\* a time, whoever races: a commit is one step of the abstract specification, or
\* leaves the trips alone.  In particular one driver wins a trip and keeps it.
ShownTrips ==
    [t \in Trips |->
        IF db[Trip(t)] = Null THEN Null
        ELSE [status |-> db[Trip(t)].status, rider |-> db[Trip(t)].rider,
              driver |-> db[Trip(t)].driver]]
Lifecycle == INSTANCE TripLifecycle WITH trip <- ShownTrips
ImplementsTripLifecycle == Lifecycle!Spec
=============================================================================
