--------------------------- MODULE DriverProfiles ---------------------------
(***************************************************************************)
(* What a driver keeps about himself (internal/drivers): the vehicle       *)
(* profile with its document dates, and the position he reports and the    *)
(* worker deletes when it is old.  Every call is one statement.            *)
(*                                                                         *)
(* Abstracted: make, model, year and colour, coordinates.  The inspection, *)
(* an optional date like the registration's, goes with it.                 *)
(***************************************************************************)
EXTENDS Naturals

CONSTANTS
  Chauffeurs,   \* drivers
  Plates,       \* well-formed licence plates
  NoProfile, NoDate,
  LastDay       \* bound on the days of the instance

ASSUME DaysAssumption == LastDay \in Nat /\ NoDate \notin 0..LastDay

VARIABLES
  profile,    \* driver_vehicle_profiles
  day,        \* today, by UTC
  ping        \* the row of driver_locations, "stale" after an hour

profileVars == <<profile, day, ping>>

Days == 0..LastDay
Profile == [plate : Plates, license : Days, insurance : Days, registration : Days \cup {NoDate}]

\* driver_id and license_plate are UNIQUE.
ProfileTypeOK ==
  /\ profile \in [Chauffeurs -> Profile \cup {NoProfile}]
  /\ day \in Days
  /\ ping \in [Chauffeurs -> {"none", "fresh", "stale"}]
  /\ \A d, e \in Chauffeurs :
       d # e /\ NoProfile \notin {profile[d], profile[e]} => profile[d].plate # profile[e].plate

InitProfiles ==
  /\ profile = [d \in Chauffeurs |-> NoProfile]
  /\ day = 0
  /\ ping = [d \in Chauffeurs |-> "none"]

-----------------------------------------------------------------------------
ParseExpiryDate(date) == date >= day

\* Dates are not in the past; the last two may be missing.
ParseVehicleProfileRequest ==
  {p \in Profile : ParseExpiryDate(p.license) /\ ParseExpiryDate(p.insurance)
                   /\ (p.registration = NoDate \/ ParseExpiryDate(p.registration))}

PlateInUse(d, plate) == \E e \in Chauffeurs \ {d} : profile[e] # NoProfile /\ profile[e].plate = plate

\* A duplicate of either key is refused.
CreateDriverVehicleProfile(d, p) ==
  profile[d] = NoProfile /\ ~PlateInUse(d, p.plate) /\ profile' = [profile EXCEPT ![d] = p]

\* Replaces every column: a date that is not given again is gone.
UpdateDriverVehicleProfile(d, p) ==
  profile[d] # NoProfile /\ ~PlateInUse(d, p.plate) /\ profile' = [profile EXCEPT ![d] = p]

UpsertDriverLocation(d) == ping' = [ping EXCEPT ![d] = "fresh"]

CreateVehicleProfile(d) ==
  /\ \E p \in ParseVehicleProfileRequest : CreateDriverVehicleProfile(d, p)
  /\ UNCHANGED <<day, ping>>

UpdateVehicleProfile(d) ==
  /\ \E p \in ParseVehicleProfileRequest : UpdateDriverVehicleProfile(d, p)
  /\ UNCHANGED <<day, ping>>

UpdateLocation(d) ==
  /\ UpsertDriverLocation(d)
  /\ UNCHANGED <<profile, day>>

PingAges(d) ==
  /\ ping[d] = "fresh"
  /\ ping' = [ping EXCEPT ![d] = "stale"]
  /\ UNCHANGED <<profile, day>>

DeleteStaleDriverLocations ==
  /\ \E d \in Chauffeurs : ping[d] = "stale"
  /\ ping' = [d \in Chauffeurs |-> IF ping[d] = "stale" THEN "none" ELSE ping[d]]
  /\ UNCHANGED <<profile, day>>

Tomorrow ==
  /\ day < LastDay
  /\ day' = day + 1
  /\ UNCHANGED <<profile, ping>>

NextProfiles ==
  \/ \E d \in Chauffeurs :
       \/ CreateVehicleProfile(d) \/ UpdateVehicleProfile(d) \/ UpdateLocation(d)
       \/ PingAges(d)
  \/ DeleteStaleDriverLocations \/ Tomorrow

SpecProfiles == InitProfiles /\ [][NextProfiles]_profileVars
=============================================================================
