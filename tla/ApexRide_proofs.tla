--------------------------- MODULE ApexRide_proofs ---------------------------
(***************************************************************************)
(* What the ApexRide database of ApexRide.tla guarantees for any riders,   *)
(* drivers, vehicles, trips and clients.  The argument: an invariant about *)
(* every version of a row, the uncommitted ones included, cannot be broken *)
(* by a commit, and a statement that would break it waits or is refused.   *)
(***************************************************************************)
EXTENDS ApexRide, TLAPS

\* How a row of a trip may follow the one before it.
SameTrip(old, new) ==
    /\ old # Null /\ new # Null
    /\ new.status = old.status /\ new.rider = old.rider /\ new.driver = old.driver
TripStep(old, new) ==
    /\ new # Null
    /\ old = Null => new.status = "requested" /\ new.driver = Null
    /\ old # Null =>
         /\ new.rider = old.rider
         /\ \/ SameTrip(old, new)
            \/ /\ old.status = "requested" /\ new.status = "driver_assigned"
               /\ new.driver \in Drivers
            \/ <<old.status, new.status>> \in Edges /\ new.driver = old.driver

-----------------------------------------------------------------------------
(* The inductive invariant.                                                *)

OneWriter ==
    \A c, e \in Clients : c # e => DOMAIN dirty[c] \cap DOMAIN dirty[e] = {}

\* No two rows collide, whichever of their versions is committed.
NeverCollide ==
    \A j, k \in Keys : j # k /\ j[1] = k[1] =>
        \A a \in Versions(j), b \in Versions(k) : ~Collide(k[1], a, b)

MatchedHaveDrivers == \A k \in Keys : \A a \in Versions(k) : CheckDriver(k, a)

CommittedReferences == \A k \in Keys : \A ref \in References(k, db[k]) : db[ref] # Null
PendingReferences ==
    \A c \in Clients : \A k \in DOMAIN dirty[c] :
        \A ref \in References(k, dirty[c][k]) : Exists(ref)
\* Who deletes a row holds every row that refers to it.
DeletersHoldReferring ==
    \A c \in Clients : \A ref \in DOMAIN dirty[c] :
        dirty[c][ref] = Null => Referring(ref) \subseteq DOMAIN dirty[c]

TripsStep ==
    \A c \in Clients : \A t \in Trips :
        Trip(t) \in DOMAIN dirty[c] => TripStep(db[Trip(t)], dirty[c][Trip(t)])
OneTripAtATime ==
    \A c \in Clients : \A t, u \in Trips :
        t # u /\ {Trip(t), Trip(u)} \subseteq DOMAIN dirty[c]
            => SameTrip(db[Trip(t)], dirty[c][Trip(t)])

PendingReviews ==
    \A c \in Clients : \A t \in Trips \ unguarded :
        Review(t) \in DOMAIN dirty[c] => Status(t) = "completed"

ApexInv ==
    /\ ApexTypeOK
    /\ OneWriter /\ NeverCollide /\ MatchedHaveDrivers
    /\ CommittedReferences /\ PendingReferences /\ DeletersHoldReferring
    /\ TripsStep /\ OneTripAtATime
    /\ PendingReviews /\ ReviewsAreOfCompletedTrips

-----------------------------------------------------------------------------
(* Keys and rows.                                                          *)

LEMMA KeyTables ==
    /\ \A t \in Trips : Trip(t) \in Keys /\ Trip(t)[1] = "Trip" /\ Trip(t)[2] = t
    /\ \A v \in Vehicles : Vehicle(v) \in Keys /\ Vehicle(v)[1] = "Vehicle"
    /\ \A d \in Drivers : Driver(d) \in Keys /\ Driver(d)[1] = "Driver"
    /\ \A t \in Trips : Review(t) \in Keys /\ Review(t)[1] = "Review" /\ Review(t)[2] = t
    /\ \A k \in Keys : k[1] \in {"Trip", "Vehicle", "Driver", "Review"}
    /\ \A k \in Keys : k[1] = "Trip" => \E t \in Trips : k = Trip(t)
    /\ \A k \in Keys : k[1] = "Vehicle" => \E v \in Vehicles : k = Vehicle(v)
    /\ \A k \in Keys : k[1] = "Driver" => \E d \in Drivers : k = Driver(d)
    /\ \A k \in Keys : k[1] = "Review" => \E t \in Trips : k = Review(t)
    /\ \A t, u \in Trips : Trip(t) = Trip(u) => t = u
    /\ \A t, u \in Vehicles : Vehicle(t) = Vehicle(u) => t = u
  BY DEF Keys, Trip, Vehicle, Driver, Review

LEMMA VersionIs ==
    ASSUME NEW k, NEW a
    PROVE  a \in Versions(k) <=> \/ a = db[k]
                                 \/ \E c \in Clients : k \in DOMAIN dirty[c] /\ a = dirty[c][k]
  BY DEF Versions

LEMMA CollideSymmetric ==
    ASSUME NEW table, NEW a, NEW b
    PROVE  Collide(table, a, b) <=> Collide(table, b, a)
  BY DEF Collide, CollideInRiderIndex, CollideInDriverIndex, CollideInVehicleIndex

LEMMA RowTables ==
    /\ \A t \in Trips : RowsOfTable(Trip(t)) = TripRow
    /\ \A v \in Vehicles : RowsOfTable(Vehicle(v)) = VehicleRow
    /\ \A d \in Drivers : RowsOfTable(Driver(d)) = {"row"}
    /\ \A t \in Trips : RowsOfTable(Review(t)) = ReviewRow
    /\ \A k \in Keys : Null \notin RowsOfTable(k)
  <1>1. \A t \in Trips : RowsOfTable(Trip(t)) = TripRow  BY KeyTables DEF RowsOfTable
  <1>2. \A v \in Vehicles : RowsOfTable(Vehicle(v)) = VehicleRow  BY KeyTables DEF RowsOfTable
  <1>3. \A d \in Drivers : RowsOfTable(Driver(d)) = {"row"}  BY KeyTables DEF RowsOfTable
  <1>4. \A t \in Trips : RowsOfTable(Review(t)) = ReviewRow  BY KeyTables DEF RowsOfTable
  <1>5. ASSUME NEW k \in Keys PROVE Null \notin RowsOfTable(k)
    <2>1. Null \notin TripRow /\ Null \notin VehicleRow /\ Null \notin {"row"} /\ Null \notin ReviewRow
      BY ApexAssumption
    <2> QED  BY <2>1, <1>1, <1>2, <1>3, <1>4, KeyTables
  <1> QED  BY <1>1, <1>2, <1>3, <1>4, <1>5

LEMMA ReferencesOf ==
    /\ \A k : References(k, Null) = {}
    /\ \A t \in Trips : \A row \in TripRow :
         References(Trip(t), row) = {Driver(row.driver), Vehicle(row.vehicle)} \cap Keys
    /\ \A v \in Vehicles : \A row \in VehicleRow :
         References(Vehicle(v), row) = {Driver(row.driver)} \cap Keys
    /\ \A d \in Drivers : \A row : References(Driver(d), row) = {}
    /\ \A t \in Trips : \A row \in ReviewRow :
         References(Review(t), row) = {Trip(t), Driver(row.driver)}
  <1>1. Null \notin TripRow /\ Null \notin VehicleRow /\ Null \notin ReviewRow
    BY ApexAssumption
  <1> QED  BY <1>1, KeyTables DEF References

LEMMA ReferencesAreKeys ==
    ASSUME NEW k \in Keys, NEW row \in RowsOfTable(k) \cup {Null}
    PROVE  References(k, row) \subseteq Keys
  <1>1. CASE row = Null  BY <1>1, ReferencesOf
  <1>2. CASE row # Null
    <2>1. \A r \in ReviewRow : r.driver \in Drivers  BY DEF ReviewRow
    <2> QED  BY <1>2, <2>1, KeyTables, RowTables, ReferencesOf
  <1> QED  BY <1>1, <1>2

-----------------------------------------------------------------------------
(* What all statements have in common: the rows they write.                *)

Statement(c, rows) ==
    /\ Writes(c, rows) /\ DOMAIN rows \subseteq Keys
    /\ \A k \in DOMAIN rows : rows[k] \in RowsOfTable(k) \cup {Null}
    /\ \A j, k \in DOMAIN rows : j # k /\ j[1] = k[1] => ~Collide(k[1], rows[j], rows[k])
    /\ \A k \in DOMAIN rows : \A ref \in References(k, rows[k]) :
         ref \in DOMAIN rows => rows[ref] # Null
    /\ \A ref \in DOMAIN rows : rows[ref] = Null =>
         ~ReferredToUncommitted(ref) /\ Referring(ref) \subseteq DOMAIN rows
    /\ \A t \in Trips : Trip(t) \in DOMAIN rows => TripStep(db[Trip(t)], rows[Trip(t)])
    /\ \A t, u \in Trips : t # u /\ {Trip(t), Trip(u)} \subseteq DOMAIN rows
                              => SameTrip(db[Trip(t)], rows[Trip(t)])
    /\ \A t \in Trips \ unguarded' : Review(t) \in DOMAIN rows => Status(t) = "completed"
    /\ unguarded \subseteq unguarded' /\ unguarded' \subseteq Trips

\* A statement about one row that is not deleted.
LEMMA OneRowStatement ==
    ASSUME ApexInv, NEW c \in Clients, NEW k \in Keys, NEW row \in RowsOfTable(k),
           Writes(c, [j \in {k} |-> row]),
           \A t \in Trips : k = Trip(t) => TripStep(db[k], row),
           \A t \in Trips \ unguarded' : k = Review(t) => Status(t) = "completed",
           unguarded \subseteq unguarded', unguarded' \subseteq Trips
    PROVE  \E rows : Statement(c, rows)
  <1> DEFINE rows == [j \in {k} |-> row]
  <1>1. DOMAIN rows = {k} /\ rows[k] = row /\ row # Null  BY RowTables
  <1>2. \A t, u \in Trips : {Trip(t), Trip(u)} \subseteq DOMAIN rows => t = u
    BY <1>1, KeyTables
  <1>3. Writes(c, rows)  OBVIOUS
  <1> HIDE DEF rows
  <1>4. Statement(c, rows)  BY <1>1, <1>2, <1>3 DEF Statement
  <1> QED  BY <1>4

LEMMA RequestIsStatement ==
    ASSUME ApexInv, NEW c \in Clients, NEW t \in Trips, NEW r \in Riders, RequestTrip(c, t, r)
    PROVE  \E rows : Statement(c, rows)
  <1> DEFINE row == [status |-> "requested", rider |-> r, driver |-> Null, vehicle |-> Null]
  <1>1. row \in RowsOfTable(Trip(t))
    BY RowTables DEF TripRow, TripStatus, RiderActive
  <1>2. TripStep(db[Trip(t)], row)
    BY <1>1, RowTables, KeyTables DEF TripStep, RequestTrip, Inserts
  <1>3. Writes(c, [j \in {Trip(t)} |-> row]) /\ unguarded' = unguarded
    BY DEF RequestTrip, Inserts, WritesRow
  <1>4. unguarded' \subseteq Trips  BY <1>3 DEF ApexInv, ApexTypeOK
  <1>5. \A u \in Trips : Trip(t) # Review(u)  BY KeyTables
  <1> HIDE DEF row
  <1> QED  BY <1>1, <1>2, <1>3, <1>4, <1>5, KeyTables, OneRowStatement

LEMMA UpdateIsStatement ==
    ASSUME ApexInv, NEW c \in Clients, NEW t \in Trips, NEW from, NEW row \in TripRow,
           UpdatesTrip(c, t, from, row), TripStep(db[Trip(t)], row)
    PROVE  \E rows : Statement(c, rows)
  <1>1. row \in RowsOfTable(Trip(t))  BY RowTables
  <1>2. Writes(c, [j \in {Trip(t)} |-> row]) /\ unguarded' = unguarded
    BY DEF UpdatesTrip, WritesRow
  <1>3. unguarded' \subseteq Trips  BY <1>2 DEF ApexInv, ApexTypeOK
  <1>4. \A u \in Trips : Trip(t) # Review(u)  BY KeyTables
  <1> QED  BY <1>1, <1>2, <1>3, <1>4, KeyTables, OneRowStatement

LEMMA TripTyped ==
    ASSUME ApexInv, NEW t \in Trips, db[Trip(t)] # Null PROVE db[Trip(t)] \in TripRow
  BY RowTables, KeyTables DEF ApexInv, ApexTypeOK

LEMMA AcceptIsStatement ==
    ASSUME ApexInv, NEW c \in Clients, NEW t \in Trips, NEW d \in Drivers, AcceptTrip(c, t, d)
    PROVE  \E rows : Statement(c, rows)
  <1> DEFINE row(v) ==
        [db[Trip(t)] EXCEPT !.status = "driver_assigned", !.driver = d, !.vehicle = v]
  <1>1. PICK v \in Vehicles \cup {Null} : UpdatesTrip(c, t, "requested", row(v))
    BY DEF AcceptTrip, VehiclesInService
  <1>2. db[Trip(t)] \in TripRow /\ db[Trip(t)] # Null /\ db[Trip(t)].status = "requested"
    BY <1>1, TripTyped DEF UpdatesTrip
  <1>3. row(v) \in TripRow /\ row(v).status = "driver_assigned" /\ row(v).driver = d
           /\ row(v).rider = db[Trip(t)].rider
    BY <1>2 DEF TripRow, TripStatus, RiderActive
  <1>4. row(v) # Null  BY <1>3, ApexAssumption
  <1> HIDE DEF row
  <1>5. TripStep(db[Trip(t)], row(v))  BY <1>2, <1>3, <1>4 DEF TripStep
  <1> QED  BY <1>1, <1>3, <1>5, UpdateIsStatement

LEMMA AdvanceIsStatement ==
    ASSUME ApexInv, NEW c \in Clients, NEW t \in Trips, NEW e \in Edges,
           AdvanceTrip(c, t, e[1], e[2])
    PROVE  \E rows : Statement(c, rows)
  <1> DEFINE row == [db[Trip(t)] EXCEPT !.status = e[2]]
  <1>1. UpdatesTrip(c, t, e[1], row)  BY DEF AdvanceTrip
  <1>2. db[Trip(t)] \in TripRow /\ db[Trip(t)] # Null /\ db[Trip(t)].status = e[1]
    BY <1>1, TripTyped DEF UpdatesTrip
  <1>3. e[2] \in TripStatus /\ e = <<e[1], e[2]>>
    BY DEF Edges, TripStatus, RiderActive
  <1>4. row \in TripRow /\ row.status = e[2] /\ row.driver = db[Trip(t)].driver
           /\ row.rider = db[Trip(t)].rider
    BY <1>2, <1>3 DEF TripRow
  <1>5. row # Null  BY <1>4, ApexAssumption
  <1> HIDE DEF row
  <1>6. <<db[Trip(t)].status, row.status>> \in Edges  BY <1>2, <1>3, <1>4
  <1>7. TripStep(db[Trip(t)], row)  BY <1>2, <1>4, <1>5, <1>6 DEF TripStep
  <1> QED  BY <1>1, <1>4, <1>7, UpdateIsStatement

LEMMA ReviewIsStatement ==
    ASSUME ApexInv, NEW c \in Clients, NEW t \in Trips, InsertReview(c, t)
    PROVE  \E rows : Statement(c, rows)
  <1> DEFINE row == [driver |-> db[Trip(t)].driver]
  <1>1. db[Trip(t)] \in TripRow /\ db[Trip(t)].driver # Null
    BY TripTyped DEF InsertReview
  <1>2. row \in RowsOfTable(Review(t))  BY <1>1, RowTables DEF TripRow, ReviewRow
  <1>3. Writes(c, [j \in {Review(t)} |-> row])  BY DEF InsertReview
  <1>4. unguarded \subseteq unguarded' /\ unguarded' \subseteq Trips
    BY DEF InsertReview, ApexInv, ApexTypeOK
  <1>5. t \notin unguarded' => Status(t) = "completed"
    BY DEF InsertReview, TriggerAllows, Status
  <1>6. Review(t) \in Keys /\ \A u \in Trips : Review(t) # Trip(u)  BY KeyTables
  <1>7. \A u \in Trips \ unguarded' : Review(t) = Review(u) => Status(u) = "completed"
    BY <1>5, KeyTables
  <1> HIDE DEF row
  <1> QED  BY <1>2, <1>3, <1>4, <1>6, <1>7, OneRowStatement

LEMMA VehicleIsStatement ==
    ASSUME ApexInv, NEW c \in Clients, NEW v \in Vehicles,
           InsertVehicle(c, v) \/ \E active \in BOOLEAN : SetVehicleActive(c, v, active)
    PROVE  \E rows : Statement(c, rows)
  <1>1. \E row \in VehicleRow : WritesRow(c, Vehicle(v), row)
    <2>1. CASE InsertVehicle(c, v)
      <3>1. [driver |-> Owner[v], isActive |-> TRUE] \in VehicleRow
        BY ApexAssumption DEF VehicleRow
      <3> QED  BY <2>1, <3>1 DEF InsertVehicle, Inserts
    <2>2. ASSUME NEW active \in BOOLEAN, SetVehicleActive(c, v, active)
          PROVE  \E row \in VehicleRow : WritesRow(c, Vehicle(v), row)
      <3>1. db[Vehicle(v)] \in VehicleRow
        BY <2>2, KeyTables, RowTables DEF SetVehicleActive, ApexInv, ApexTypeOK
      <3>2. [db[Vehicle(v)] EXCEPT !.isActive = active] \in VehicleRow
        BY <3>1 DEF VehicleRow
      <3> QED  BY <2>2, <3>2 DEF SetVehicleActive
    <2> QED  BY <2>1, <2>2
  <1>2. PICK row \in VehicleRow : WritesRow(c, Vehicle(v), row)  BY <1>1
  <1>3. row \in RowsOfTable(Vehicle(v))  BY RowTables
  <1>4. Writes(c, [j \in {Vehicle(v)} |-> row]) /\ unguarded' = unguarded
    BY <1>2 DEF WritesRow
  <1>5. unguarded' \subseteq Trips  BY <1>4 DEF ApexInv, ApexTypeOK
  <1>6. Vehicle(v) \in Keys /\ \A u \in Trips : Vehicle(v) # Trip(u) /\ Vehicle(v) # Review(u)
    BY KeyTables
  <1>7. unguarded \subseteq unguarded'  BY <1>4
  <1>8. Writes(c, [j \in {Vehicle(v)} |-> row])  BY <1>4
  <1> QED  BY <1>3, <1>5, <1>6, <1>7, <1>8, OneRowStatement

\* What a delete writes besides: trips without their vehicle, else unchanged.
LEMMA OrphansAreTrips ==
    ASSUME ApexInv, NEW k \in Keys, NEW v \in Vehicles, Vehicle(v) \in References(k, db[k])
    PROVE  /\ k[1] = "Trip" /\ db[k] \in TripRow
           /\ [db[k] EXCEPT !.vehicle = Null] \in TripRow
           /\ SameTrip(db[k], [db[k] EXCEPT !.vehicle = Null])
           /\ References(k, [db[k] EXCEPT !.vehicle = Null]) = {Driver(db[k].driver)} \cap Keys
           /\ {Driver(db[k].driver)} \cap Keys \subseteq References(k, db[k])
  <1> DEFINE new == [db[k] EXCEPT !.vehicle = Null]
  <1>1. db[k] # Null /\ db[k] \in RowsOfTable(k)
    BY ReferencesOf DEF ApexInv, ApexTypeOK
  <1>2. \A x : Vehicle(v) # Driver(x) /\ Vehicle(v) # Trip(x)  BY DEF Vehicle, Driver, Trip
  <1>3. PICK t \in Trips : k = Trip(t)
    <2>1. k[1] # "Vehicle"  BY <1>1, <1>2, KeyTables, RowTables, ReferencesOf
    <2>2. k[1] # "Driver"  BY <1>1, <1>2, KeyTables, RowTables, ReferencesOf
    <2>3. k[1] # "Review"  BY <1>1, <1>2, KeyTables, RowTables, ReferencesOf
    <2> QED  BY <2>1, <2>2, <2>3, KeyTables
  <1>4. db[k] \in TripRow  BY <1>1, <1>3, RowTables
  <1>5. new \in TripRow /\ new.status = db[k].status /\ new.rider = db[k].rider
           /\ new.driver = db[k].driver /\ new.vehicle = Null
    BY <1>4 DEF TripRow
  <1>6. new # Null  BY <1>5, ApexAssumption
  <1> HIDE DEF new
  <1>7. SameTrip(db[k], new)  BY <1>1, <1>5, <1>6 DEF SameTrip
  <1>8. Vehicle(Null) \notin Keys
    BY ApexAssumption DEF Keys, Trip, Vehicle, Driver, Review
  <1>9. /\ References(k, new) = {Driver(db[k].driver)} \cap Keys
        /\ {Driver(db[k].driver)} \cap Keys \subseteq References(k, db[k])
    BY <1>3, <1>4, <1>5, <1>8, ReferencesOf
  <1> QED  BY <1>3, <1>4, <1>5, <1>7, <1>9, KeyTables DEF new

LEMMA SameTripCollides ==
    ASSUME NEW table, NEW a, NEW b, NEW e, SameTrip(a, b), table = "Trip"
    PROVE  Collide(table, b, e) <=> Collide(table, a, e)
  BY DEF SameTrip, Collide, CollideInRiderIndex, CollideInDriverIndex

LEMMA DeleteIsStatement ==
    ASSUME ApexInv, NEW c \in Clients, NEW gone \in SUBSET Keys, DeletesRows(c, gone),
           \A k \in gone : k[1] \in {"Vehicle", "Driver"},
           \A d \in Drivers : Driver(d) \in gone => Referring(Driver(d)) \subseteq gone
    PROVE  \E rows : Statement(c, rows)
  <1> DEFINE orphaned == (UNION {Referring(k) : k \in gone}) \ gone
             rows == [k \in gone \cup orphaned |->
                        IF k \in gone THEN Null ELSE [db[k] EXCEPT !.vehicle = Null]]
  <1>1. ASSUME NEW k \in orphaned
        PROVE  k \in Keys /\ \E v \in Vehicles : Vehicle(v) \in gone /\ Vehicle(v) \in References(k, db[k])
    <2>1. PICK g \in gone : k \in Referring(g)  OBVIOUS
    <2>2. k \in Keys /\ g \in References(k, db[k])  BY <2>1 DEF Referring
    <2>3. CASE g[1] = "Driver"  BY <2>1, <2>3, KeyTables
    <2>4. CASE g[1] = "Vehicle"  BY <2>2, <2>4, KeyTables
    <2> QED  BY <2>3, <2>4
  <1>2. \A k \in orphaned :
          /\ k \in Keys /\ k \notin gone /\ k[1] = "Trip"
          /\ rows[k] = [db[k] EXCEPT !.vehicle = Null]
          /\ rows[k] \in TripRow /\ rows[k] # Null /\ SameTrip(db[k], rows[k])
          /\ References(k, rows[k]) = {Driver(db[k].driver)} \cap Keys
          /\ {Driver(db[k].driver)} \cap Keys \subseteq References(k, db[k])
    <2> SUFFICES ASSUME NEW k \in orphaned
                 PROVE  /\ k \in Keys /\ k \notin gone /\ k[1] = "Trip"
                        /\ rows[k] = [db[k] EXCEPT !.vehicle = Null]
                        /\ rows[k] \in TripRow /\ rows[k] # Null /\ SameTrip(db[k], rows[k])
                        /\ References(k, rows[k]) = {Driver(db[k].driver)} \cap Keys
                        /\ {Driver(db[k].driver)} \cap Keys \subseteq References(k, db[k])
      OBVIOUS
    <2>1. rows[k] = [db[k] EXCEPT !.vehicle = Null] /\ k \notin gone  OBVIOUS
    <2>2. PICK v \in Vehicles : Vehicle(v) \in References(k, db[k])  BY <1>1
    <2>3. k \in Keys  BY <1>1
    <2> HIDE DEF rows, orphaned
    <2>4. rows[k] \in TripRow  BY <2>1, <2>2, <2>3, OrphansAreTrips
    <2> QED  BY <2>1, <2>2, <2>3, <2>4, OrphansAreTrips, ApexAssumption
  <1>3. \A k \in gone : rows[k] = Null  OBVIOUS
  <1>4. DOMAIN rows = gone \cup orphaned  OBVIOUS
  <1>5. Writes(c, rows) /\ unguarded' = unguarded  BY DEF DeletesRows
  <1>6. \A k \in gone : ~ReferredToUncommitted(k)  BY DEF DeletesRows
  <1>7. \A k \in gone : Referring(k) \subseteq gone \cup orphaned  OBVIOUS
  <1> HIDE DEF rows, orphaned
  <1>8. DOMAIN rows \subseteq Keys  BY <1>2, <1>4
  <1>9. ASSUME NEW k \in DOMAIN rows PROVE rows[k] \in RowsOfTable(k) \cup {Null}
    BY <1>2, <1>3, <1>4, KeyTables, RowTables
  <1>10. ASSUME NEW j \in DOMAIN rows, NEW k \in DOMAIN rows, j # k, j[1] = k[1]
         PROVE  ~Collide(k[1], rows[j], rows[k])
    <2>1. CASE j \in gone \/ k \in gone  BY <2>1, <1>3 DEF Collide
    <2>2. CASE j \in orphaned /\ k \in orphaned
      <3>1. ~Collide(k[1], db[j], db[k])
        BY <2>2, <1>2, <1>10, VersionIs DEF ApexInv, NeverCollide
      <3>2. ~Collide(k[1], rows[j], db[k])  BY <2>2, <3>1, <1>2, SameTripCollides
      <3>3. ~Collide(k[1], db[k], rows[j])  BY <3>2, CollideSymmetric
      <3>4. ~Collide(k[1], rows[k], rows[j])  BY <2>2, <3>3, <1>2, SameTripCollides
      <3> QED  BY <3>4, CollideSymmetric
    <2> QED  BY <2>1, <2>2, <1>4
  <1>11. ASSUME NEW k \in DOMAIN rows, NEW ref \in References(k, rows[k]), ref \in DOMAIN rows
         PROVE  rows[ref] # Null
    <2>1. k \in orphaned  BY <1>3, <1>4, <1>11, ReferencesOf
    <2> DEFINE kept == {Driver(db[k].driver)} \cap Keys
    <2>2. References(k, rows[k]) = kept /\ kept \subseteq References(k, db[k])
      BY <2>1, <1>2
    <2>3. ref \in kept  BY <2>2, <1>11
    <2>4. ref = Driver(db[k].driver) /\ ref \in Keys /\ ref \in References(k, db[k])
      BY <2>2, <2>3
    <2>5. ref \notin gone
      <3>1. PICK d \in Drivers : ref = Driver(d)
        BY <2>4, KeyTables DEF Keys, Trip, Vehicle, Driver, Review
      <3>2. k \in Referring(ref)  BY <2>1, <2>4, <1>2 DEF Referring
      <3> QED  BY <3>1, <3>2, <2>1, <1>2
    <2> QED  BY <2>5, <1>2, <1>4, <1>11
  <1>12. ASSUME NEW ref \in DOMAIN rows, rows[ref] = Null
         PROVE  ~ReferredToUncommitted(ref) /\ Referring(ref) \subseteq DOMAIN rows
    BY <1>2, <1>4, <1>6, <1>7, <1>12
  <1>13. ASSUME NEW k \in DOMAIN rows, k[1] = "Trip" PROVE SameTrip(db[k], rows[k])
    BY <1>2, <1>4, <1>13
  <1>14. \A t \in Trips : Trip(t) \in DOMAIN rows => SameTrip(db[Trip(t)], rows[Trip(t)])
    BY <1>13, KeyTables
  <1>15. \A t \in Trips : Review(t) \notin DOMAIN rows
    BY <1>2, <1>4, KeyTables
  <1>16. unguarded \subseteq unguarded' /\ unguarded' \subseteq Trips
    BY <1>5 DEF ApexInv, ApexTypeOK
  <1>17. \A t \in Trips : Trip(t) \in DOMAIN rows => TripStep(db[Trip(t)], rows[Trip(t)])
    BY <1>14 DEF TripStep, SameTrip
  <1>18. Statement(c, rows)
    BY <1>5, <1>8, <1>9, <1>10, <1>11, <1>12, <1>14, <1>15, <1>16, <1>17 DEF Statement
  <1> QED  BY <1>18

\* Every step is a statement, the end of a transaction, or one of migrate().
LEMMA StepsOfNext ==
    ASSUME ApexInv, ApexNext
    PROVE  \/ \E c \in Clients : \E rows : Statement(c, rows)
           \/ \E c \in Clients : Commit(c) \/ Rollback(c)
           \/ UNCHANGED <<db, dirty, unguarded>> /\ trigger' \in BOOLEAN
  <1>1. CASE DropTrigger \/ CreateTrigger  BY <1>1 DEF DropTrigger, CreateTrigger
  <1>2. ASSUME NEW c \in Clients, NEW v \in Vehicles, DeleteVehicle(c, v)
        PROVE  \E rows : Statement(c, rows)
    <2>1. \A d \in Drivers : Driver(d) # Vehicle(v)  BY KeyTables
    <2> QED  BY <1>2, <2>1, KeyTables, DeleteIsStatement DEF DeleteVehicle
  <1>3. ASSUME NEW c \in Clients, NEW d \in Drivers, DeleteDriver(c, d)
        PROVE  \E rows : Statement(c, rows)
    <2> DEFINE gone == {Driver(d)} \cup Referring(Driver(d))
    <2>1. gone \in SUBSET Keys  BY KeyTables DEF Referring
    <2>2. \A k \in gone : k[1] \in {"Vehicle", "Driver"}  BY <1>3, KeyTables DEF DeleteDriver
    <2>3. ASSUME NEW e \in Drivers, Driver(e) \in gone PROVE Referring(Driver(e)) \subseteq gone
      BY <2>3, <1>3, KeyTables DEF DeleteDriver
    <2>4. DeletesRows(c, gone)  BY <1>3 DEF DeleteDriver
    <2> HIDE DEF gone
    <2> QED  BY <2>1, <2>2, <2>3, <2>4, DeleteIsStatement
  <1>4. ASSUME NEW c \in Clients, NEW t \in Trips,
               \/ \E r \in Riders : RequestTrip(c, t, r)
               \/ \E d \in Drivers : AcceptTrip(c, t, d)
               \/ \E e \in Edges : AdvanceTrip(c, t, e[1], e[2])
               \/ InsertReview(c, t)
        PROVE  \E rows : Statement(c, rows)
    BY <1>4, RequestIsStatement, AcceptIsStatement, AdvanceIsStatement, ReviewIsStatement
  <1>5. ASSUME NEW c \in Clients, NEW v \in Vehicles,
               InsertVehicle(c, v) \/ \E active \in BOOLEAN : SetVehicleActive(c, v, active)
        PROVE  \E rows : Statement(c, rows)
    BY <1>5, VehicleIsStatement
  <1> QED  BY <1>1, <1>2, <1>3, <1>4, <1>5 DEF ApexNext

-----------------------------------------------------------------------------
(* Preservation.                                                           *)

LEMMA StatementVersions ==
    ASSUME ApexTypeOK, NEW c \in Clients, NEW rows, Statement(c, rows)
    PROVE  /\ db' = db /\ DOMAIN dirty[c] = {} /\ DOMAIN dirty' = Clients /\ dirty'[c] = rows
           /\ \A e \in Clients \ {c} : dirty'[e] = dirty[e]
           /\ \A k : \A a : a \in Versions(k)' <=>
                \/ a \in Versions(k)
                \/ k \in DOMAIN rows /\ a = rows[k]
           /\ \A k \in DOMAIN rows : Versions(k) = {db[k]}
  <1>1. /\ db' = db /\ DOMAIN dirty[c] = {} /\ DOMAIN dirty' = Clients /\ dirty'[c] = rows
        /\ \A e \in Clients \ {c} : dirty'[e] = dirty[e]
    BY DEF Statement, Writes, NoRows, ApexTypeOK
  <1>2. ASSUME NEW k, NEW a
        PROVE  a \in Versions(k)' <=> \/ a \in Versions(k)
                                      \/ k \in DOMAIN rows /\ a = rows[k]
    <2>1. a \in Versions(k)' <=> \/ a = db'[k]
                                 \/ \E e \in Clients : k \in DOMAIN dirty'[e] /\ a = dirty'[e][k]
      BY DEF Versions
    <2> QED  BY <2>1, <1>1, VersionIs
  <1>3. ASSUME NEW k \in DOMAIN rows PROVE Versions(k) = {db[k]}
    BY DEF Versions, Statement, Writes, Unlocked
  <1> QED  BY <1>1, <1>2, <1>3

LEMMA StatementKeepsTypes ==
    ASSUME ApexInv, NEW c \in Clients, NEW rows, Statement(c, rows)
    PROVE  /\ ApexTypeOK' /\ OneWriter'
  <1>0. ApexTypeOK  BY DEF ApexInv
  <1>1. ApexTypeOK'
    <2>1. \A e \in Clients : /\ DOMAIN dirty'[e] \subseteq Keys
                             /\ \A k \in DOMAIN dirty'[e] : dirty'[e][k] \in RowsOfTable(k) \cup {Null}
      BY <1>0, StatementVersions DEF ApexTypeOK, Statement
    <2>2. trigger' \in BOOLEAN /\ unguarded' \subseteq Trips
      BY <1>0 DEF ApexTypeOK, Statement, Writes
    <2>3. db' = db /\ DOMAIN dirty' = Clients  BY <1>0, StatementVersions
    <2> QED  BY <1>0, <2>1, <2>2, <2>3 DEF ApexTypeOK
  <1>2. OneWriter'
    <2>1. \A k \in DOMAIN rows : \A e \in Clients : k \notin DOMAIN dirty[e]
      BY DEF Statement, Writes, Unlocked
    <2> QED  BY <1>0, <2>1, StatementVersions DEF ApexInv, OneWriter
  <1> QED  BY <1>1, <1>2

LEMMA StatementKeepsIndexes ==
    ASSUME ApexInv, NEW c \in Clients, NEW rows, Statement(c, rows)
    PROVE  NeverCollide' /\ MatchedHaveDrivers'
  <1>0. ApexTypeOK /\ NeverCollide /\ MatchedHaveDrivers  BY DEF ApexInv
  <1>1. ASSUME NEW j \in Keys, NEW k \in Keys, j # k, j[1] = k[1],
               NEW a \in Versions(j)', NEW b \in Versions(k)'
        PROVE  ~Collide(k[1], a, b)
    <2>1. CASE a \in Versions(j) /\ b \in Versions(k)  BY <2>1, <1>0, <1>1 DEF NeverCollide
    <2>2. CASE a \in Versions(j) /\ k \in DOMAIN rows /\ b = rows[k]
      <3>1. ~Collide(k[1], b, a)  BY <2>2, <1>1 DEF Statement, Writes, UniqueAllows
      <3> QED  BY <3>1, CollideSymmetric
    <2>3. CASE j \in DOMAIN rows /\ a = rows[j] /\ b \in Versions(k)
      BY <2>3, <1>1 DEF Statement, Writes, UniqueAllows
    <2>4. CASE j \in DOMAIN rows /\ a = rows[j] /\ k \in DOMAIN rows /\ b = rows[k]
      BY <2>4, <1>1 DEF Statement
    <2> QED  BY <2>1, <2>2, <2>3, <2>4, <1>0, StatementVersions
  <1>2. ASSUME NEW k \in Keys, NEW a \in Versions(k)' PROVE CheckDriver(k, a)
    <2>1. CASE a \in Versions(k)  BY <2>1, <1>0 DEF MatchedHaveDrivers
    <2>2. CASE k \in DOMAIN rows /\ a = rows[k]  BY <2>2 DEF Statement, Writes
    <2> QED  BY <2>1, <2>2, <1>0, StatementVersions
  <1> QED  BY <1>1, <1>2 DEF NeverCollide, MatchedHaveDrivers

LEMMA StatementKeepsReferences ==
    ASSUME ApexInv, NEW c \in Clients, NEW rows, Statement(c, rows)
    PROVE  CommittedReferences' /\ PendingReferences' /\ DeletersHoldReferring'
  <1>0. /\ ApexTypeOK /\ OneWriter /\ CommittedReferences /\ PendingReferences
        /\ DeletersHoldReferring
    BY DEF ApexInv
  <1>1. CommittedReferences'
    BY <1>0, StatementVersions DEF CommittedReferences, References
  <1>2. ASSUME NEW e \in Clients, NEW k \in DOMAIN dirty'[e],
               NEW ref \in References(k, dirty'[e][k])
        PROVE  Null \notin Versions(ref)'
    <2>1. Null \notin Versions(ref)
      <3>1. CASE e = c
        BY <3>1, <1>2, <1>0, StatementVersions DEF Statement, Writes, Exists
      <3>2. CASE e # c  BY <3>2, <1>2, <1>0, StatementVersions DEF PendingReferences, Exists
      <3> QED  BY <3>1, <3>2
    <2>2. ref \in DOMAIN rows => rows[ref] # Null
      <3>1. CASE e = c  BY <3>1, <1>2, <1>0, StatementVersions DEF Statement
      <3>2. CASE e # c
        BY <3>2, <1>2, <1>0, StatementVersions DEF Statement, ReferredToUncommitted
      <3> QED  BY <3>1, <3>2
    <2> QED  BY <2>1, <2>2, <1>0, StatementVersions
  <1>3. PendingReferences'  BY <1>2 DEF PendingReferences, Exists
  <1>4. ASSUME NEW e \in Clients, NEW ref \in DOMAIN dirty'[e], dirty'[e][ref] = Null
        PROVE  Referring(ref) \subseteq DOMAIN dirty'[e]
    <2>1. CASE e = c  BY <2>1, <1>4, <1>0, StatementVersions DEF Statement
    <2>2. CASE e # c  BY <2>2, <1>4, <1>0, StatementVersions DEF DeletersHoldReferring
    <2> QED  BY <2>1, <2>2
  <1>5. \A ref : Referring(ref)' = Referring(ref)
    BY <1>0, StatementVersions DEF Referring
  <1>6. DeletersHoldReferring'  BY <1>4, <1>5 DEF DeletersHoldReferring
  <1> QED  BY <1>1, <1>3, <1>6

LEMMA StatementKeepsTrips ==
    ASSUME ApexInv, NEW c \in Clients, NEW rows, Statement(c, rows)
    PROVE  TripsStep' /\ OneTripAtATime' /\ PendingReviews' /\ ReviewsAreOfCompletedTrips'
  <1>0. /\ ApexTypeOK /\ TripsStep /\ OneTripAtATime /\ PendingReviews
        /\ ReviewsAreOfCompletedTrips
    BY DEF ApexInv
  <1>1. TripsStep'  BY <1>0, StatementVersions DEF TripsStep, Statement
  <1>2. OneTripAtATime'  BY <1>0, StatementVersions DEF OneTripAtATime, Statement
  <1>3. \A t : Status(t)' = Status(t)  BY <1>0, StatementVersions DEF Status
  <1>4. Trips \ unguarded' \subseteq Trips \ unguarded  BY DEF Statement
  <1>5. PendingReviews'
    BY <1>0, <1>3, <1>4, StatementVersions DEF PendingReviews, Statement
  <1>6. ReviewsAreOfCompletedTrips'
    BY <1>0, <1>3, <1>4, StatementVersions DEF ReviewsAreOfCompletedTrips
  <1> QED  BY <1>1, <1>2, <1>5, <1>6

\* The end of a transaction makes no version and lets no lock slip.
LEMMA EndVersions ==
    ASSUME ApexTypeOK, NEW c \in Clients, Commit(c) \/ Rollback(c)
    PROVE  /\ DOMAIN db' = Keys /\ DOMAIN dirty' = Clients /\ DOMAIN dirty'[c] = {}
           /\ \A e \in Clients \ {c} : dirty'[e] = dirty[e]
           /\ unguarded' = unguarded /\ trigger' = trigger
           /\ \A k \in Keys : \/ db'[k] = db[k]
                              \/ k \in DOMAIN dirty[c] /\ db'[k] = dirty[c][k]
           /\ \A k \in Keys : Versions(k)' \subseteq Versions(k)
  <1>1. /\ DOMAIN db' = Keys /\ DOMAIN dirty' = Clients /\ DOMAIN dirty'[c] = {}
        /\ \A e \in Clients \ {c} : dirty'[e] = dirty[e]
        /\ unguarded' = unguarded /\ trigger' = trigger
        /\ \A k \in Keys : \/ db'[k] = db[k]
                           \/ k \in DOMAIN dirty[c] /\ db'[k] = dirty[c][k]
    <2>1. CASE Commit(c)  BY <2>1 DEF Commit, NoRows, ApexTypeOK
    <2>2. CASE Rollback(c)  BY <2>2 DEF Rollback, NoRows, ApexTypeOK
    <2> QED  BY <2>1, <2>2
  <1>2. ASSUME NEW k \in Keys, NEW a \in Versions(k)' PROVE a \in Versions(k)
    <2>1. \/ a = db'[k]
          \/ \E e \in Clients : k \in DOMAIN dirty'[e] /\ a = dirty'[e][k]
      BY <1>2 DEF Versions
    <2> QED  BY <2>1, <1>1, VersionIs
  <1> QED  BY <1>1, <1>2

\* A transaction that ends leaves what others hold as it is.
LEMMA EndLeavesLocked ==
    ASSUME ApexInv, NEW c \in Clients, Commit(c) \/ Rollback(c),
           NEW e \in Clients, NEW k \in DOMAIN dirty'[e]
    PROVE  e # c /\ dirty'[e] = dirty[e] /\ k \in Keys /\ k \in DOMAIN dirty[e] /\ db'[k] = db[k]
  <1>0. ApexTypeOK /\ OneWriter  BY DEF ApexInv
  <1>1. e # c /\ dirty'[e] = dirty[e]  BY <1>0, EndVersions
  <1>2. k \in Keys /\ k \notin DOMAIN dirty[c]  BY <1>0, <1>1 DEF ApexTypeOK, OneWriter
  <1> QED  BY <1>0, <1>1, <1>2, EndVersions

LEMMA CompletedStays ==
    ASSUME ApexInv, NEW c \in Clients, Commit(c) \/ Rollback(c), NEW t \in Trips,
           Status(t) = "completed"
    PROVE  Status(t)' = "completed"
  <1>0. ApexTypeOK /\ TripsStep  BY DEF ApexInv
  <1>1. Trip(t) \in Keys /\ db[Trip(t)] # Null /\ db[Trip(t)].status = "completed"
    BY KeyTables DEF Status
  <1>2. CASE db'[Trip(t)] = db[Trip(t)]  BY <1>1, <1>2 DEF Status
  <1>3. CASE Trip(t) \in DOMAIN dirty[c] /\ db'[Trip(t)] = dirty[c][Trip(t)]
    <2>1. TripStep(db[Trip(t)], db'[Trip(t)])  BY <1>0, <1>3 DEF TripsStep
    <2>2. \A e \in Edges : e[1] # "completed"  BY DEF Edges
    <2>3. db'[Trip(t)] # Null /\ db'[Trip(t)].status = "completed"
      BY <1>1, <2>1, <2>2 DEF TripStep, SameTrip
    <2> QED  BY <2>3 DEF Status
  <1> QED  BY <1>0, <1>1, <1>2, <1>3, EndVersions

LEMMA EndKeepsRows ==
    ASSUME ApexInv, NEW c \in Clients, Commit(c) \/ Rollback(c)
    PROVE  ApexTypeOK' /\ OneWriter' /\ NeverCollide' /\ MatchedHaveDrivers'
  <1>0. ApexTypeOK /\ OneWriter /\ NeverCollide /\ MatchedHaveDrivers  BY DEF ApexInv
  <1>1. ApexTypeOK'
    <2>1. \A k \in Keys : db'[k] \in RowsOfTable(k) \cup {Null}
      BY <1>0, EndVersions DEF ApexTypeOK
    <2>2. \A e \in Clients : /\ DOMAIN dirty'[e] \subseteq Keys
                             /\ \A k \in DOMAIN dirty'[e] : dirty'[e][k] \in RowsOfTable(k) \cup {Null}
      BY <1>0, EndVersions DEF ApexTypeOK
    <2>3. DOMAIN db' = Keys /\ DOMAIN dirty' = Clients /\ trigger' \in BOOLEAN
             /\ unguarded' \subseteq Trips
      BY <1>0, EndVersions DEF ApexTypeOK
    <2> QED  BY <2>1, <2>2, <2>3 DEF ApexTypeOK
  <1>2. OneWriter'  BY <1>0, EndVersions DEF OneWriter
  <1>3. NeverCollide'  BY <1>0, EndVersions DEF NeverCollide
  <1>4. MatchedHaveDrivers'  BY <1>0, EndVersions DEF MatchedHaveDrivers
  <1> QED  BY <1>1, <1>2, <1>3, <1>4

LEMMA EndKeepsReferences ==
    ASSUME ApexInv, NEW c \in Clients, Commit(c) \/ Rollback(c)
    PROVE  CommittedReferences' /\ PendingReferences' /\ DeletersHoldReferring'
  <1>0. /\ ApexTypeOK /\ OneWriter /\ CommittedReferences /\ PendingReferences
        /\ DeletersHoldReferring
    BY DEF ApexInv
  <1>1. ASSUME NEW k \in Keys, NEW ref \in References(k, db'[k]) PROVE db'[ref] # Null
    <2>1. CASE Rollback(c)  BY <2>1, <1>0, <1>1 DEF Rollback, CommittedReferences
    <2>2. CASE Commit(c)
      <3>1. CASE k \in DOMAIN dirty[c]
        <4>1. ref \in References(k, dirty[c][k])  BY <2>2, <3>1, <1>1 DEF Commit
        <4>2. Null \notin Versions(ref)  BY <4>1, <3>1, <1>0 DEF PendingReferences, Exists
        <4>3. ref \in Keys  BY <4>1, <3>1, <1>0, ReferencesAreKeys DEF ApexTypeOK
        <4> QED  BY <4>2, <4>3, <1>0, EndVersions, VersionIs
      <3>2. CASE k \notin DOMAIN dirty[c]
        <4>1. ref \in References(k, db[k])  BY <2>2, <3>2, <1>1 DEF Commit
        <4>2. ref \in Keys /\ db[ref] # Null
          BY <4>1, <1>0, ReferencesAreKeys DEF ApexTypeOK, CommittedReferences
        <4>3. k \in Referring(ref)  BY <4>1 DEF Referring
        <4>4. ref \in DOMAIN dirty[c] => dirty[c][ref] # Null
          BY <4>3, <3>2, <1>0 DEF DeletersHoldReferring
        <4> QED  BY <4>2, <4>4, <1>0, EndVersions
      <3> QED  BY <3>1, <3>2
    <2> QED  BY <2>1, <2>2
  <1>2. ASSUME NEW e \in Clients, NEW k \in DOMAIN dirty'[e],
               NEW ref \in References(k, dirty'[e][k])
        PROVE  Null \notin Versions(ref)'
    <2>1. dirty'[e] = dirty[e] /\ k \in Keys /\ k \in DOMAIN dirty[e]  BY EndLeavesLocked
    <2>2. ref \in References(k, dirty[e][k])  BY <2>1, <1>2
    <2>3. ref \in Keys  BY <2>1, <2>2, <1>0, ReferencesAreKeys DEF ApexTypeOK
    <2>4. Null \notin Versions(ref)  BY <2>1, <2>2, <1>0 DEF PendingReferences, Exists
    <2> QED  BY <2>3, <2>4, <1>0, EndVersions
  <1>3. ASSUME NEW e \in Clients, NEW ref \in DOMAIN dirty'[e], dirty'[e][ref] = Null,
               NEW k \in Keys, ref \in References(k, db'[k])
        PROVE  k \in DOMAIN dirty'[e]
    <2>1. /\ e # c /\ dirty'[e] = dirty[e] /\ ref \in Keys
          /\ ref \in DOMAIN dirty[e] /\ dirty[e][ref] = Null
      BY <1>3, EndLeavesLocked
    <2>2. CASE db'[k] = db[k]
      BY <2>1, <2>2, <1>0, <1>3 DEF DeletersHoldReferring, Referring
    <2>3. CASE k \in DOMAIN dirty[c] /\ db'[k] = dirty[c][k]
      <3>1. Null \notin Versions(ref)  BY <2>3, <1>0, <1>3 DEF PendingReferences, Exists
      <3> QED  BY <3>1, <2>1, VersionIs
    <2> QED  BY <2>2, <2>3, <1>0, EndVersions
  <1>4. CommittedReferences'  BY <1>1 DEF CommittedReferences
  <1>5. PendingReferences'  BY <1>2 DEF PendingReferences, Exists
  <1>6. DeletersHoldReferring'  BY <1>3 DEF DeletersHoldReferring, Referring
  <1> QED  BY <1>4, <1>5, <1>6

LEMMA EndKeepsTrips ==
    ASSUME ApexInv, NEW c \in Clients, Commit(c) \/ Rollback(c)
    PROVE  TripsStep' /\ OneTripAtATime' /\ PendingReviews' /\ ReviewsAreOfCompletedTrips'
  <1>0. /\ ApexTypeOK /\ TripsStep /\ OneTripAtATime /\ PendingReviews
        /\ ReviewsAreOfCompletedTrips
    BY DEF ApexInv
  <1>1. TripsStep'  BY <1>0, EndLeavesLocked DEF TripsStep
  <1>2. OneTripAtATime'
    <2> SUFFICES ASSUME NEW e \in Clients, NEW t \in Trips, NEW u \in Trips, t # u,
                        {Trip(t), Trip(u)} \subseteq DOMAIN dirty'[e]
                 PROVE  SameTrip(db'[Trip(t)], dirty'[e][Trip(t)])
      BY DEF OneTripAtATime
    <2>1. dirty'[e] = dirty[e] /\ db'[Trip(t)] = db[Trip(t)]  BY EndLeavesLocked
    <2> QED  BY <2>1, <1>0 DEF OneTripAtATime
  <1>3. PendingReviews'
    <2> SUFFICES ASSUME NEW e \in Clients, NEW t \in Trips \ unguarded',
                        Review(t) \in DOMAIN dirty'[e]
                 PROVE  Status(t)' = "completed"
      BY DEF PendingReviews
    <2>1. dirty'[e] = dirty[e] /\ unguarded' = unguarded
      BY <1>0, EndLeavesLocked, EndVersions
    <2> QED  BY <2>1, <1>0, CompletedStays DEF PendingReviews
  <1>4. ReviewsAreOfCompletedTrips'
    <2> SUFFICES ASSUME NEW t \in Trips \ unguarded', db'[Review(t)] # Null
                 PROVE  Status(t)' = "completed"
      BY DEF ReviewsAreOfCompletedTrips
    <2>1. t \in Trips \ unguarded /\ Review(t) \in Keys  BY <1>0, EndVersions, KeyTables
    <2>2. Status(t) = "completed"
      <3>1. CASE db'[Review(t)] = db[Review(t)]
        BY <3>1, <2>1, <1>0 DEF ReviewsAreOfCompletedTrips
      <3>2. CASE Review(t) \in DOMAIN dirty[c]  BY <3>2, <2>1, <1>0 DEF PendingReviews
      <3> QED  BY <3>1, <3>2, <2>1, <1>0, EndVersions
    <2> QED  BY <2>2, CompletedStays
  <1> QED  BY <1>1, <1>2, <1>3, <1>4

-----------------------------------------------------------------------------
(* Theorems.                                                               *)

LEMMA InitiallyCorrect == ASSUME ApexInit PROVE ApexInv
  <1>1. \A k \in Keys : db[k] = Null \/ (k[1] = "Driver" /\ db[k] = "row")
    BY DEF ApexInit
  <1>2. \A c \in Clients : DOMAIN dirty[c] = {}  BY DEF ApexInit, NoRows
  <1>3. \A k \in Keys : Versions(k) = {db[k]}  BY <1>2 DEF Versions
  <1>4. ApexTypeOK
    <2>1. \A k \in Keys : db[k] \in RowsOfTable(k) \cup {Null}
      BY <1>1, KeyTables, RowTables
    <2> QED  BY <2>1, <1>2 DEF ApexTypeOK, ApexInit
  <1>5. OneWriter /\ PendingReferences /\ DeletersHoldReferring /\ TripsStep
           /\ OneTripAtATime /\ PendingReviews
    BY <1>2 DEF OneWriter, PendingReferences, DeletersHoldReferring, TripsStep,
                OneTripAtATime, PendingReviews
  <1>6. NeverCollide
    <2> SUFFICES ASSUME NEW j \in Keys, NEW k \in Keys, j[1] = k[1]
                 PROVE  ~Collide(k[1], db[j], db[k])
      BY <1>3 DEF NeverCollide
    <2> QED  BY <1>1 DEF Collide
  <1>7. MatchedHaveDrivers  BY <1>1, <1>3 DEF MatchedHaveDrivers, CheckDriver
  <1>8. CommittedReferences
    <2>1. \A k \in Keys : References(k, db[k]) = {}  BY <1>1, KeyTables, ReferencesOf
    <2> QED  BY <2>1 DEF CommittedReferences
  <1>9. ReviewsAreOfCompletedTrips
    BY <1>1, KeyTables DEF ReviewsAreOfCompletedTrips
  <1> QED  BY <1>4, <1>5, <1>6, <1>7, <1>8, <1>9 DEF ApexInv

LEMMA UnchangedCorrect ==
    ASSUME ApexInv, UNCHANGED <<db, dirty, unguarded>>, trigger' \in BOOLEAN
    PROVE  ApexInv'
  BY DEF ApexInv, ApexTypeOK, OneWriter, NeverCollide, MatchedHaveDrivers, CommittedReferences,
         PendingReferences, DeletersHoldReferring, TripsStep, OneTripAtATime, PendingReviews,
         ReviewsAreOfCompletedTrips, Versions, Exists, Referring, Status

\* What every version of every row satisfies at any moment.
THEOREM ApexCorrect == ApexSpec => []ApexInv
  <1>1. ApexInit => ApexInv  BY InitiallyCorrect
  <1>2. ApexInv /\ [ApexNext]_apexVars => ApexInv'
    <2> SUFFICES ASSUME ApexInv, [ApexNext]_apexVars PROVE ApexInv'  OBVIOUS
    <2>1. ASSUME NEW c \in Clients, NEW rows, Statement(c, rows) PROVE ApexInv'
      BY <2>1, StatementKeepsTypes, StatementKeepsIndexes, StatementKeepsReferences,
         StatementKeepsTrips DEF ApexInv
    <2>2. ASSUME NEW c \in Clients, Commit(c) \/ Rollback(c) PROVE ApexInv'
      BY <2>2, EndKeepsRows, EndKeepsReferences, EndKeepsTrips DEF ApexInv
    <2>3. CASE UNCHANGED <<db, dirty, unguarded>> /\ trigger' \in BOOLEAN
      BY <2>3, UnchangedCorrect
    <2>4. CASE UNCHANGED apexVars
      BY <2>4, UnchangedCorrect DEF apexVars, ApexInv, ApexTypeOK
    <2> QED  BY <2>1, <2>2, <2>3, <2>4, StepsOfNext
  <1> QED  BY <1>1, <1>2, PTL DEF ApexSpec

\* Rows, committed or not, have the columns of their table.
THEOREM ApexTyped == ApexSpec => []ApexTypeOK
  BY ApexCorrect, PTL DEF ApexInv

\* No rider and no driver has two active trips, and no driver two active
\* vehicles: the partial unique indexes hold of the uncommitted versions too.
THEOREM OneActiveEach == ApexSpec => []SingleActive
  <1>1. ASSUME ApexInv PROVE SingleActive
    <2>0. ApexTypeOK /\ NeverCollide  BY <1>1 DEF ApexInv
    <2>1. ASSUME NEW t \in Trips, NEW u \in Trips, t # u
          PROVE  ~Collide("Trip", db[Trip(t)], db[Trip(u)])
      <3>1. Trip(t) # Trip(u)  BY <2>1, KeyTables
      <3>2. db[Trip(t)] \in Versions(Trip(t)) /\ db[Trip(u)] \in Versions(Trip(u))
        BY VersionIs
      <3> QED  BY <2>0, <3>1, <3>2, KeyTables DEF NeverCollide
    <2>2. ASSUME NEW v \in Vehicles, NEW w \in Vehicles, v # w
          PROVE  ~Collide("Vehicle", db[Vehicle(v)], db[Vehicle(w)])
      <3>1. Vehicle(v) # Vehicle(w)  BY <2>2, KeyTables
      <3>2. db[Vehicle(v)] \in Versions(Vehicle(v)) /\ db[Vehicle(w)] \in Versions(Vehicle(w))
        BY VersionIs
      <3> QED  BY <2>0, <3>1, <3>2, KeyTables DEF NeverCollide
    <2>3. "none" \notin RiderActive /\ "none" \notin DriverActive
      BY DEF RiderActive, DriverActive
    <2>4. ASSUME NEW t \in Trips, Status(t) # "none"
          PROVE  db[Trip(t)] # Null /\ Status(t) = db[Trip(t)].status
      BY <2>4 DEF Status
    <2>5. ASSUME NEW t \in Trips, NEW u \in Trips, {Status(t), Status(u)} \subseteq RiderActive,
                 db[Trip(t)].rider = db[Trip(u)].rider
          PROVE  t = u
      <3>1. db[Trip(t)] # Null /\ Status(t) = db[Trip(t)].status
               /\ db[Trip(u)] # Null /\ Status(u) = db[Trip(u)].status
        BY <2>3, <2>4, <2>5
      <3> QED  BY <2>1, <2>5, <3>1 DEF Collide, CollideInRiderIndex
    <2>6. ASSUME NEW t \in Trips, NEW u \in Trips, {Status(t), Status(u)} \subseteq DriverActive,
                 db[Trip(t)].driver = db[Trip(u)].driver
          PROVE  t = u
      <3>1. db[Trip(t)] # Null /\ Status(t) = db[Trip(t)].status
               /\ db[Trip(u)] # Null /\ Status(u) = db[Trip(u)].status
        BY <2>3, <2>4, <2>6
      <3>2. db[Trip(t)].driver # Null
        <4>1. CheckDriver(Trip(t), db[Trip(t)])
          BY <1>1, KeyTables, VersionIs DEF ApexInv, MatchedHaveDrivers
        <4> QED  BY <4>1, <3>1, <2>6, KeyTables DEF CheckDriver, Matched
      <3> QED  BY <2>1, <2>6, <3>1, <3>2 DEF Collide, CollideInDriverIndex
    <2>7. ASSUME NEW v \in Vehicles, NEW w \in Vehicles,
                 Null \notin {db[Vehicle(v)], db[Vehicle(w)]},
                 db[Vehicle(v)].isActive, db[Vehicle(w)].isActive,
                 db[Vehicle(v)].driver = db[Vehicle(w)].driver
          PROVE  v = w
      BY <2>2, <2>7 DEF Collide, CollideInVehicleIndex
    <2> QED  BY <2>5, <2>6, <2>7 DEF SingleActive
  <1> QED  BY <1>1, ApexCorrect, PTL

\* No foreign key dangles, though drivers and vehicles are deleted beside the
\* rows that refer to them, and a matched trip has its driver.
THEOREM NothingDangles == ApexSpec => []ReferencesExist
  <1>1. ASSUME ApexInv PROVE ReferencesExist
    <2>1. ASSUME NEW t \in Trips, Status(t) \in Matched PROVE db[Trip(t)].driver # Null
      <3>1. db[Trip(t)] # Null /\ Status(t) = db[Trip(t)].status
        BY <2>1 DEF Status, Matched, DriverActive
      <3>2. CheckDriver(Trip(t), db[Trip(t)])
        BY <1>1, KeyTables, VersionIs DEF ApexInv, MatchedHaveDrivers
      <3> QED  BY <2>1, <3>1, <3>2, KeyTables DEF CheckDriver
    <2> QED  BY <1>1, <2>1 DEF ApexInv, CommittedReferences, ReferencesExist
  <1> QED  BY <1>1, ApexCorrect, PTL

\* A review is of a completed trip, unless it was inserted while migrate() had
\* dropped the trigger, though the trigger reads the trip before the commit.
THEOREM ReviewsAfterCompletion == ApexSpec => []ReviewsAreOfCompletedTrips
  BY ApexCorrect, PTL DEF ApexInv

-----------------------------------------------------------------------------
(* Refinement.                                                             *)

Shown(row) ==
    IF row = Null THEN Null
    ELSE [status |-> row.status, rider |-> row.rider, driver |-> row.driver]

LEMMA ShownRow ==
    /\ \A row \in TripRow :
         /\ Shown(row) # Null /\ Shown(row).status = row.status
         /\ Shown(row).rider = row.rider /\ Shown(row).driver = row.driver
         /\ Shown(row) = [status |-> row.status, rider |-> row.rider, driver |-> row.driver]
    /\ Shown(Null) = Null
    /\ \A old, new : SameTrip(old, new) => Shown(old) = Shown(new)
    /\ ShownTrips = [t \in Trips |-> Shown(db[Trip(t)])]
  <1>1. ASSUME NEW row \in TripRow
        PROVE  /\ Shown(row) # Null /\ Shown(row).status = row.status
               /\ Shown(row).rider = row.rider /\ Shown(row).driver = row.driver
               /\ Shown(row) = [status |-> row.status, rider |-> row.rider, driver |-> row.driver]
    <2>1. row # Null  BY ApexAssumption
    <2>2. [status |-> row.status, rider |-> row.rider, driver |-> row.driver]
             \in [status : TripStatus, rider : Riders, driver : Drivers \cup {Null}]
      BY DEF TripRow
    <2> QED  BY <2>1, <2>2, ApexAssumption DEF Shown
  <1>2. \A old, new : SameTrip(old, new) => Shown(old) = Shown(new)  BY DEF SameTrip, Shown
  <1> QED  BY <1>1, <1>2 DEF Shown, ShownTrips

LEMMA CommitTakesOneStep ==
    ASSUME ApexInv, NEW c \in Clients, Commit(c)
    PROVE  Lifecycle!Next \/ UNCHANGED ShownTrips
  <1>0. ApexTypeOK /\ NeverCollide /\ TripsStep /\ OneTripAtATime  BY DEF ApexInv
  <1>1. CASE \A t \in Trips : Shown(db'[Trip(t)]) = Shown(db[Trip(t)])
    <2>1. ShownTrips' = [t \in Trips |-> Shown(db'[Trip(t)])]  BY DEF ShownTrips, Shown
    <2> QED  BY <1>1, <2>1, ShownRow
  <1>2. ASSUME NEW t \in Trips, Shown(db'[Trip(t)]) # Shown(db[Trip(t)])
        PROVE  Lifecycle!Next
    <2> DEFINE old == db[Trip(t)]
               new == dirty[c][Trip(t)]
    <2>1. Trip(t) \in DOMAIN dirty[c] /\ db'[Trip(t)] = new
      BY <1>0, <1>2, KeyTables, EndVersions
    <2>2. TripStep(old, new) /\ new \in TripRow /\ (old # Null => old \in TripRow)
      BY <1>0, <2>1, KeyTables, RowTables DEF TripsStep, TripStep, ApexTypeOK
    <2>3. ASSUME NEW u \in Trips, u # t PROVE Shown(db'[Trip(u)]) = Shown(db[Trip(u)])
      <3>1. CASE Trip(u) \in DOMAIN dirty[c]
        BY <3>1, <2>1, <2>3, <1>0, KeyTables, EndVersions, ShownRow DEF OneTripAtATime
      <3>2. CASE Trip(u) \notin DOMAIN dirty[c]  BY <3>2, <1>0, KeyTables, EndVersions
      <3> QED  BY <3>1, <3>2
    <2>4. ShownTrips' = [ShownTrips EXCEPT ![t] = Shown(new)]
      <3>1. ShownTrips' = [u \in Trips |-> Shown(db'[Trip(u)])]  BY DEF ShownTrips, Shown
      <3> QED  BY <3>1, <2>1, <2>3, ShownRow
    <2>5. t \in {u \in Trips : ShownTrips'[u] # ShownTrips[u]}
      BY <1>2, <2>1, <2>4, ShownRow
    <2>6. ASSUME NEW u \in Trips, u # t, db[Trip(u)] # Null
          PROVE  /\ ~CollideInRiderIndex(new, db[Trip(u)])
                 /\ ~CollideInDriverIndex(new, db[Trip(u)])
      <3>1. Trip(t) # Trip(u)  BY <2>6, KeyTables
      <3>2. new \in Versions(Trip(t)) /\ db[Trip(u)] \in Versions(Trip(u))
        BY <2>1, VersionIs
      <3>3. ~Collide("Trip", new, db[Trip(u)])
        BY <3>1, <3>2, <1>0, KeyTables DEF NeverCollide
      <3>4. new # Null  BY <2>2, ApexAssumption
      <3> QED  BY <3>3, <3>4, <2>6 DEF Collide
    <2>7. \A u \in Trips : ShownTrips[u] # Null =>
             /\ db[Trip(u)] \in TripRow /\ db[Trip(u)] # Null
             /\ ShownTrips[u].rider = db[Trip(u)].rider
             /\ ShownTrips[u].driver = db[Trip(u)].driver
             /\ ShownTrips[u].status = db[Trip(u)].status
      BY <1>0, KeyTables, RowTables, ShownRow DEF ApexTypeOK
    <2>8. ShownTrips[t] = Shown(old)  BY ShownRow
    <2> HIDE DEF old, new
    <2>9. CASE old = Null
      <3>1. new.status = "requested" /\ new.driver = Null /\ new.rider \in Riders
        BY <2>2, <2>9 DEF TripStep, TripRow
      <3>2. Shown(new) = [status |-> "requested", rider |-> new.rider, driver |-> Null]
        BY <3>1, <2>2, ShownRow
      <3>3. ShownTrips[t] = Null  BY <2>8, <2>9, ShownRow
      <3>4. ASSUME NEW u \in Trips, ShownTrips[u] # Null, ShownTrips[u].rider = new.rider
            PROVE  ShownTrips[u].status \notin RiderActive
        BY <3>1, <3>3, <3>4, <2>6, <2>7 DEF CollideInRiderIndex, RiderActive
      <3>5. Lifecycle!Request(t, new.rider)
        BY <3>2, <3>3, <3>4, <2>4 DEF Lifecycle!Request
      <3> QED  BY <3>1, <3>5, <2>5 DEF Lifecycle!Next
    <2>10. CASE old # Null /\ old.status = "requested" /\ new.status = "driver_assigned"
                  /\ new.driver \in Drivers /\ new.rider = old.rider
      <3>1. ShownTrips[t] = [status |-> "requested", rider |-> old.rider, driver |-> old.driver]
               /\ ShownTrips[t] # Null
        BY <2>2, <2>8, <2>10, ShownRow
      <3>2. Shown(new) = [status |-> "driver_assigned", rider |-> old.rider, driver |-> new.driver]
        BY <2>2, <2>10, ShownRow
      <3>3. ASSUME NEW u \in Trips, ShownTrips[u] # Null, ShownTrips[u].driver = new.driver
            PROVE  ShownTrips[u].status \notin DriverActive
        <4>1. CASE u = t  BY <4>1, <3>1 DEF DriverActive
        <4>2. CASE u # t
          <5>1. new.driver # Null  BY <2>10, ApexAssumption
          <5> QED  BY <5>1, <4>2, <3>3, <2>6, <2>7, <2>10
                   DEF CollideInDriverIndex, DriverActive
        <4> QED  BY <4>1, <4>2
      <3>4. ShownTrips' = [ShownTrips EXCEPT ![t].status = "driver_assigned",
                                             ![t].driver = new.driver]
        <4>1. DOMAIN ShownTrips = Trips  BY ShownRow
        <4> DEFINE assigned == [ShownTrips EXCEPT ![t].status = "driver_assigned"]
        <4>2. /\ DOMAIN assigned = Trips
              /\ assigned[t] = [ShownTrips[t] EXCEPT !.status = "driver_assigned"]
              /\ \A u \in Trips \ {t} : assigned[u] = ShownTrips[u]
          BY <4>1
        <4> HIDE DEF assigned
        <4>3. assigned[t] = [status |-> "driver_assigned", rider |-> old.rider,
                             driver |-> old.driver]
          BY <4>2, <3>1
        <4>4. [assigned[t] EXCEPT !.driver = new.driver] = Shown(new)  BY <4>3, <3>2
        <4>5. [assigned EXCEPT ![t].driver = new.driver] = [ShownTrips EXCEPT ![t] = Shown(new)]
          BY <4>1, <4>2, <4>4
        <4> QED  BY <4>5, <2>4 DEF assigned
      <3>5. Lifecycle!Accept(t, new.driver)
        BY <3>1, <3>3, <3>4 DEF Lifecycle!Accept
      <3> QED  BY <3>5, <2>5, <2>10 DEF Lifecycle!Next
    <2>11. CASE old # Null /\ <<old.status, new.status>> \in Edges
                  /\ new.driver = old.driver /\ new.rider = old.rider
      <3>1. ShownTrips[t] = [status |-> old.status, rider |-> old.rider, driver |-> old.driver]
               /\ ShownTrips[t] # Null /\ ShownTrips[t].status = old.status
        BY <2>2, <2>8, <2>11, ShownRow
      <3>2. Shown(new) = [status |-> new.status, rider |-> old.rider, driver |-> old.driver]
        BY <2>2, <2>11, ShownRow
      <3>3. ShownTrips' = [ShownTrips EXCEPT ![t].status = new.status]
        <4>1. Shown(new) = [ShownTrips[t] EXCEPT !.status = new.status]  BY <3>1, <3>2
        <4> QED  BY <4>1, <2>4
      <3>4. <<old.status, new.status>> \in {f \in Edges : f[1] = ShownTrips[t].status}
        BY <3>1, <2>11
      <3>5. new.status \in {e[2] : e \in {f \in Edges : f[1] = ShownTrips[t].status}}
        BY <3>4
      <3>6. Lifecycle!Advance(t)  BY <3>1, <3>3, <3>5 DEF Lifecycle!Advance
      <3> QED  BY <3>6, <2>5 DEF Lifecycle!Next
    <2>12. ~SameTrip(old, new)  BY <1>2, <2>1, ShownRow DEF old
    <2> QED  BY <2>2, <2>9, <2>10, <2>11, <2>12 DEF TripStep
  <1> QED  BY <1>1, <1>2

\* The database takes every trip through the documented state machine, one step
\* at a time, with one active trip for each rider and driver.
THEOREM ImplementsTheTripLife == ApexSpec => ImplementsTripLifecycle
  <1>1. ApexInit => Lifecycle!Init
    <2> SUFFICES ASSUME ApexInit PROVE ShownTrips = [t \in Trips |-> Null]
      BY DEF Lifecycle!Init
    <2>1. \A t \in Trips : db[Trip(t)] = Null  BY KeyTables DEF ApexInit
    <2> QED  BY <2>1, ShownRow
  <1>2. ApexInv /\ [ApexNext]_apexVars => [Lifecycle!Next]_ShownTrips
    <2> SUFFICES ASSUME ApexInv, [ApexNext]_apexVars
                 PROVE  Lifecycle!Next \/ UNCHANGED ShownTrips
      OBVIOUS
    <2>1. CASE UNCHANGED db  BY <2>1 DEF ShownTrips
    <2>2. ASSUME NEW c \in Clients, NEW rows, Statement(c, rows) PROVE UNCHANGED db
      BY <2>2 DEF Statement, Writes
    <2>3. ASSUME NEW c \in Clients, Rollback(c) PROVE UNCHANGED db
      BY <2>3 DEF Rollback
    <2>4. UNCHANGED apexVars => UNCHANGED db  BY DEF apexVars
    <2> QED  BY <2>1, <2>2, <2>3, <2>4, StepsOfNext, CommitTakesOneStep
  <1> QED  BY <1>1, <1>2, ApexCorrect, PTL DEF ApexSpec, ImplementsTripLifecycle, Lifecycle!Spec
=============================================================================
