----------------------------- MODULE ServiceZones -----------------------------
(***************************************************************************)
(* A service zone, which admins edit and whose price a quote takes when    *)
(* the trip starts in it (internal/zones, pricing.Service.Suggest).  An    *)
(* edit reads the row, lays the given fields over it and writes all of it  *)
(* back in a second statement.                                             *)
(*                                                                         *)
(* Abstracted: one zone, its bounds, names and the three prices, of which  *)
(* one is kept; the rest of a quote.                                       *)
(***************************************************************************)
EXTENDS Naturals

CONSTANTS
  Prices,      \* prices of a zone
  ZoneCalls,   \* edits that may be past their read at once
  ZoneQuotes   \* requests for a fare

ASSUME ZoneAssumption == Prices # {} /\ ZoneCalls \cap ZoneQuotes = {}

VARIABLES
  zone,     \* the row of service_zones, before, during and after its existence
  editing,  \* edits past their read
  zoned,    \* quotes that have looked for a zone: its price, or none
  closed,   \* an admin has switched the zone off, and nobody on again (history)
  begun     \* edits and quotes past their read of the zone when that was (history)

zoneVars == <<zone, editing, zoned, closed, begun>>

Column   == {"active", "price"}
Zone     == [row : {"none", "here", "deleted"}, active : BOOLEAN, price : Prices]
ZoneEdit == [row : Zone, named : SUBSET Column]
NoEdit   == [row |-> "none"]

ZoneTypeOK ==
  /\ zone \in Zone
  /\ editing \in [ZoneCalls -> ZoneEdit \cup {NoEdit}]
  /\ zoned \in [ZoneQuotes -> {"none", "config", "zone"}]
  /\ closed \in BOOLEAN
  /\ begun \subseteq ZoneCalls \cup ZoneQuotes

InitZones ==
  /\ zone = [row |-> "none", active |-> FALSE, price |-> CHOOSE p \in Prices : TRUE]
  /\ editing = [c \in ZoneCalls |-> NoEdit]
  /\ zoned = [q \in ZoneQuotes |-> "none"]
  /\ closed = FALSE /\ begun = {}

-----------------------------------------------------------------------------
CreateServiceZone(price, active) ==
  zone.row = "none" /\ zone' = [row |-> "here", active |-> active, price |-> price]

DeleteServiceZone == zone.row = "here" /\ zone' = [zone EXCEPT !.row = "deleted"]

CreateZone(price, active) ==
  /\ CreateServiceZone(price, active)
  /\ UNCHANGED <<editing, zoned, closed, begun>>

DeleteZone ==
  /\ DeleteServiceZone /\ closed' = FALSE
  /\ UNCHANGED <<editing, zoned, begun>>

\* A zone that is edited is active unless the request says otherwise.
MutOverlayZone(named, active, price) ==
  [zone EXCEPT !.active = "active" \notin named \/ active,
               !.price = IF "price" \in named THEN price ELSE @]

OverlayZone(named, active, price) ==
  [zone EXCEPT !.active = IF "active" \in named THEN active ELSE @,
               !.price = IF "price" \in named THEN price ELSE @]

GetServiceZone(c, named, active, price) ==
  /\ editing[c] = NoEdit /\ zone.row = "here"
  /\ editing' = [editing EXCEPT ![c] =
       [row |-> OverlayZone(named, active, price), named |-> named]]
  /\ UNCHANGED <<zone, zoned, closed, begun>>

InFlight == {d \in ZoneCalls : editing[d] # NoEdit} \cup {q \in ZoneQuotes : zoned[q] # "none"}

\* An edit of another column that read before the zone was switched off
\* switches it on again.
UpdateServiceZone(c) ==
  /\ editing[c] # NoEdit /\ zone.row = "here"
  /\ LET row     == editing[c].row
         named   == "active" \in editing[c].named
         reopens == row.active /\ (named \/ c \in begun)
         closes  == named /\ ~row.active
     IN /\ zone' = row
        /\ closed' = (closes \/ (closed /\ ~reopens))
        /\ begun' = (IF closes /\ ~closed THEN InFlight ELSE begun) \ {c}
  /\ editing' = [editing EXCEPT ![c] = NoEdit]
  /\ UNCHANGED zoned

\* The zone is gone, the row is refused, or the process stops.
DropEdit(c) ==
  /\ editing[c] # NoEdit
  /\ editing' = [editing EXCEPT ![c] = NoEdit]
  /\ begun' = begun \ {c}
  /\ UNCHANGED <<zone, zoned, closed>>

\* WHERE is_active = true
FindServiceZoneForPoint(q) ==
  /\ zoned[q] = "none"
  /\ zoned' = [zoned EXCEPT ![q] = IF zone.row = "here" /\ zone.active THEN "zone" ELSE "config"]
  /\ UNCHANGED <<zone, editing, closed, begun>>

AnswerQuote(q) ==
  /\ zoned[q] # "none"
  /\ zoned' = [zoned EXCEPT ![q] = "none"]
  /\ begun' = begun \ {q}
  /\ UNCHANGED <<zone, editing, closed>>

NextZones ==
  \/ DeleteZone
  \/ \E price \in Prices, active \in BOOLEAN : CreateZone(price, active)
  \/ \E q \in ZoneQuotes : FindServiceZoneForPoint(q) \/ AnswerQuote(q)
  \/ \E c \in ZoneCalls :
       \/ UpdateServiceZone(c) \/ DropEdit(c)
       \/ \E named \in SUBSET Column, active \in BOOLEAN, price \in Prices :
            GetServiceZone(c, named, active, price)

SpecZones == InitZones /\ [][NextZones]_zoneVars

-----------------------------------------------------------------------------
(* Once an admin has switched the zone off, edits of its other columns     *)
(* leave it off, and no quote that looks for a zone then is priced by it;  *)
(* an edit that had read the row before may switch it on again             *)
(* (zones/handler.go:121-166).                                             *)
ClosedZoneStaysOff ==
  closed => /\ zone.row = "here" /\ ~zone.active
            /\ \A q \in ZoneQuotes : zoned[q] = "zone" => q \in begun
=============================================================================
