------------------------ MODULE AnsweredChoicesProofs ------------------------
(***************************************************************************)
(* Four choices that the API answers and that read-then-write calls may    *)
(* undo: a zone an admin closes (ServiceZones), a kind of notification its *)
(* user switches off (Notifications), an account an admin deactivates      *)
(* (Deactivation), an airport transfer that is completed or cancelled      *)
(* (AirportTransfers).  The theorems say for any calls that only those     *)
(* already past their read when the choice was answered can undo it.  Each *)
(* needs to know what the calls hold that came later.                      *)
(***************************************************************************)
EXTENDS ServiceZones, Notifications, Deactivation, AirportTransfers, TLAPS

(* Zones.                                                                  *)

\* An edit of other columns that read a closed zone writes it back closed.
LateEditsKeepClosed ==
  \A c \in ZoneCalls :
    /\ editing[c] # NoEdit => editing[c].row.row = "here"
    /\ closed /\ editing[c] # NoEdit /\ c \notin begun /\ "active" \notin editing[c].named
         => ~editing[c].row.active

ZoneInv == ZoneTypeOK /\ LateEditsKeepClosed /\ ClosedZoneStaysOff

LEMMA InitZoneInv == InitZones => ZoneInv
<1>1. (CHOOSE p \in Prices : TRUE) \in Prices
  BY ZoneAssumption
<1> SUFFICES ASSUME InitZones
             PROVE  ZoneInv
  OBVIOUS
<1>2. zone \in Zone
  BY <1>1 DEF InitZones, Zone
<1>3. closed = FALSE /\ ZoneTypeOK
  BY <1>2 DEF InitZones, ZoneTypeOK
<1> QED
  BY <1>3 DEF InitZones, ZoneInv, LateEditsKeepClosed, ClosedZoneStaysOff

LEMMA EditTyped ==
  ASSUME ZoneTypeOK, NEW c \in ZoneCalls, editing[c] # NoEdit
  PROVE  editing[c].row \in Zone /\ editing[c].named \subseteq Column
  BY DEF ZoneTypeOK, ZoneEdit

LEMMA UpdateKeepsZone ==
  ASSUME ZoneInv, NEW c \in ZoneCalls, UpdateServiceZone(c)
  PROVE  ZoneInv'
<1> USE DEF ZoneInv
<1> DEFINE row     == editing[c].row
           named   == "active" \in editing[c].named
           reopens == row.active /\ (named \/ c \in begun)
           closes  == named /\ ~row.active
<1>1. /\ editing[c] # NoEdit /\ zone' = row
      /\ closed' = (closes \/ (closed /\ ~reopens))
      /\ begun' = (IF closes /\ ~closed THEN InFlight ELSE begun) \ {c}
      /\ editing' = [editing EXCEPT ![c] = NoEdit]
      /\ zoned' = zoned
  BY DEF UpdateServiceZone
<1>2. row \in Zone /\ row.row = "here" /\ row.active \in BOOLEAN
  BY <1>1, EditTyped DEF LateEditsKeepClosed, Zone
<1>3. closed' \in BOOLEAN
  BY <1>1
<1>4. begun' \subseteq ZoneCalls \cup ZoneQuotes
  BY <1>1 DEF InFlight, ZoneTypeOK
<1>5. ZoneTypeOK'
  BY <1>1, <1>2, <1>3, <1>4 DEF ZoneTypeOK
<1>6. closed' => ~row.active
  BY <1>1 DEF LateEditsKeepClosed
<1>7. ASSUME closed', NEW q \in ZoneQuotes, zoned[q] = "zone"
      PROVE  q \in begun'
  <2>1. q # c
    BY ZoneAssumption
  <2>2. q \in begun \/ (closes /\ ~closed)
    BY <1>1, <1>7 DEF ClosedZoneStaysOff
  <2> QED
    BY <1>1, <1>7, <2>1, <2>2 DEF InFlight, ClosedZoneStaysOff
<1>8. ClosedZoneStaysOff'
  BY <1>1, <1>2, <1>6, <1>7 DEF ClosedZoneStaysOff
<1>9. ASSUME NEW d \in ZoneCalls, editing'[d] # NoEdit
      PROVE  /\ editing'[d].row.row = "here"
             /\ closed' /\ d \notin begun' /\ "active" \notin editing'[d].named
                  => ~editing'[d].row.active
  <2>1. d # c /\ editing'[d] = editing[d]
    BY <1>1, <1>9 DEF ZoneTypeOK
  <2>2. closed' /\ d \notin begun' => closed /\ d \notin begun
    BY <1>1, <1>9, <2>1 DEF InFlight
  <2> QED
    BY <1>9, <2>1, <2>2 DEF LateEditsKeepClosed
<1>10. LateEditsKeepClosed'
  BY <1>9 DEF LateEditsKeepClosed
<1> QED
  BY <1>5, <1>8, <1>10

LEMMA ReadKeepsZone ==
  ASSUME ZoneInv, NEW c \in ZoneCalls, NEW named \in SUBSET Column, NEW active_ \in BOOLEAN,
         NEW price \in Prices, GetServiceZone(c, named, active_, price)
  PROVE  ZoneInv'
<1> USE DEF ZoneInv
<1> DEFINE row == OverlayZone(named, active_, price)
<1>1. /\ zone.row = "here"
      /\ editing' = [editing EXCEPT ![c] = [row |-> row, named |-> named]]
      /\ UNCHANGED <<zone, zoned, closed, begun>>
  BY DEF GetServiceZone
<1>2. row \in Zone /\ row.row = "here" /\ ("active" \notin named => row.active = zone.active)
  BY <1>1 DEF OverlayZone, Zone, ZoneTypeOK
<1>3. [row |-> row, named |-> named] \in ZoneEdit
  BY <1>2 DEF ZoneEdit
<1>4. ZoneTypeOK'
  BY <1>1, <1>3 DEF ZoneTypeOK
<1>5. LateEditsKeepClosed'
  BY <1>1, <1>2 DEF LateEditsKeepClosed, ClosedZoneStaysOff, ZoneTypeOK
<1>6. ClosedZoneStaysOff'
  BY <1>1 DEF ClosedZoneStaysOff
<1> QED
  BY <1>4, <1>5, <1>6

LEMMA ZoneInvKept == ZoneInv /\ [NextZones]_zoneVars => ZoneInv'
<1> SUFFICES ASSUME ZoneInv, [NextZones]_zoneVars
             PROVE  ZoneInv'
  OBVIOUS
<1> USE DEF ZoneInv
<1>1. CASE DeleteZone
  BY <1>1 DEF DeleteZone, DeleteServiceZone, ZoneTypeOK, Zone, LateEditsKeepClosed, ClosedZoneStaysOff
<1>2. ASSUME NEW price \in Prices, NEW on \in BOOLEAN, CreateZone(price, on)
      PROVE  ZoneInv'
  BY <1>2 DEF CreateZone, CreateServiceZone, ZoneTypeOK, Zone, LateEditsKeepClosed, ClosedZoneStaysOff
<1>3. ASSUME NEW q \in ZoneQuotes, FindServiceZoneForPoint(q)
      PROVE  ZoneInv'
  BY <1>3 DEF FindServiceZoneForPoint, ZoneTypeOK, LateEditsKeepClosed, ClosedZoneStaysOff
<1>4. ASSUME NEW q \in ZoneQuotes, AnswerQuote(q)
      PROVE  ZoneInv'
  <2>1. q \notin ZoneCalls
    BY ZoneAssumption
  <2> QED
    BY <1>4, <2>1 DEF AnswerQuote, ZoneTypeOK, LateEditsKeepClosed, ClosedZoneStaysOff
<1>5. ASSUME NEW c \in ZoneCalls, DropEdit(c)
      PROVE  ZoneInv'
  <2>1. c \notin ZoneQuotes
    BY ZoneAssumption
  <2>2. ZoneTypeOK' /\ ClosedZoneStaysOff'
    BY <1>5, <2>1 DEF DropEdit, ZoneTypeOK, ClosedZoneStaysOff
  <2>3. LateEditsKeepClosed'
    BY <1>5 DEF DropEdit, ZoneTypeOK, LateEditsKeepClosed
  <2> QED
    BY <2>2, <2>3
<1>6. CASE UNCHANGED zoneVars
  BY <1>6 DEF zoneVars, ZoneTypeOK, LateEditsKeepClosed, ClosedZoneStaysOff
<1> QED
  BY <1>1, <1>2, <1>3, <1>4, <1>5, <1>6, UpdateKeepsZone, ReadKeepsZone DEF NextZones

(* Once an admin has switched a zone off, only an edit that had read it    *)
(* before switches it on without saying so (zones/handler.go:121-178).     *)
THEOREM ClosedZones == SpecZones => []ClosedZoneStaysOff
<1>1. ZoneInv => ClosedZoneStaysOff
  BY DEF ZoneInv
<1> QED
  BY InitZoneInv, ZoneInvKept, <1>1, PTL DEF SpecZones

-----------------------------------------------------------------------------
(* Notifications.                                                          *)

\* A save of other fields that read a muted kind writes it back muted.
LateSavesKeepMuted ==
  \A c \in NoticeCalls, k \in muted :
    notifier[c].op = "save" /\ k \notin notifier[c].given /\ c \notin early[k]
      => ~notifier[c].row[k]

NoticeInv == NoticeTypeOK /\ LateSavesKeepMuted /\ QuietAfterOptOut

LEMMA InitNoticeInv == InitNotices => NoticeInv
  BY DEF InitNotices, NoticeInv, NoticeTypeOK, LateSavesKeepMuted, QuietAfterOptOut, Inbox

LEMMA SaveTyped ==
  ASSUME NoticeTypeOK, NEW c \in NoticeCalls, notifier[c] # Silent
  PROVE  /\ notifier[c].op \in {"save", "notify"}
         /\ notifier[c].op = "save" => notifier[c].row \in Prefs /\ notifier[c].given \subseteq Kinds
         /\ notifier[c].op = "notify" => notifier[c].kind \in Kinds
  BY DEF NoticeTypeOK, Telling

LEMMA PreferencesTyped ==
  ASSUME NoticeTypeOK
  PROVE  Preferences \in Prefs
  BY DEF NoticeTypeOK, Preferences, DefaultPreferences, Prefs

\* The end of a call, for the calls and kinds that go on.
LEMMA EndsKeeps ==
  ASSUME NoticeTypeOK, NEW c \in NoticeCalls, NEW kinds \in SUBSET Kinds, Ends(c, kinds)
  PROVE  /\ notifier' \in [NoticeCalls -> Telling \cup {Silent}]
         /\ early' \in [Kinds -> SUBSET NoticeCalls]
         /\ notifier'[c] = Silent
         /\ \A d \in NoticeCalls : d # c => notifier'[d] = notifier[d]
         /\ \A k \in Kinds, d \in NoticeCalls :
              d # c => d \in early'[k] <=> IF k \in kinds THEN notifier[d] # Silent ELSE d \in early[k]
<1>1. notifier' = [notifier EXCEPT ![c] = Silent]
  BY DEF Ends
<1>2. early' = [k \in Kinds |->
        (IF k \in kinds THEN {d \in NoticeCalls : notifier[d] # Silent} ELSE early[k]) \ {c}]
  BY DEF Ends
<1>3. ASSUME NEW k \in Kinds
      PROVE  early'[k] \in SUBSET NoticeCalls
  BY <1>2 DEF NoticeTypeOK
<1>4. early' \in [Kinds -> SUBSET NoticeCalls]
  BY <1>2, <1>3
<1> QED
  BY <1>1, <1>2, <1>4 DEF NoticeTypeOK

LEMMA UpsertKeeps ==
  ASSUME NoticeInv, NEW c \in NoticeCalls, UpsertPreferences(c)
  PROVE  NoticeInv'
<1> USE DEF NoticeInv
<1> DEFINE call == notifier[c]
           on   == {k \in muted : call.row[k] /\ (k \in call.given \/ c \in early[k])}
           off  == {k \in call.given : ~call.row[k]}
<1>1. /\ call.op = "save" /\ prefs' = call.row /\ muted' = (muted \ on) \cup off
      /\ Ends(c, off \ muted)
      /\ inbox' = inbox
  BY DEF UpsertPreferences
<1>2. call.row \in Prefs /\ call.given \subseteq Kinds
  BY <1>1, SaveTyped DEF Silent
<1>3. off \ muted \in SUBSET Kinds /\ muted \subseteq Kinds
  BY <1>2 DEF NoticeTypeOK
<1>4. /\ notifier' \in [NoticeCalls -> Telling \cup {Silent}]
      /\ early' \in [Kinds -> SUBSET NoticeCalls]
      /\ notifier'[c] = Silent
      /\ \A d \in NoticeCalls : d # c => notifier'[d] = notifier[d]
      /\ \A k \in Kinds, d \in NoticeCalls :
           d # c => d \in early'[k] <=> IF k \in off \ muted THEN notifier[d] # Silent ELSE d \in early[k]
  BY <1>1, <1>3, EndsKeeps
<1>5. NoticeTypeOK'
  BY <1>1, <1>2, <1>3, <1>4 DEF NoticeTypeOK
<1>6. ASSUME NEW k \in muted'
      PROVE  ~call.row[k] /\ (k \in muted \/ k \in off \ muted)
  BY <1>1, <1>6 DEF LateSavesKeepMuted
<1>7. Preferences' = call.row
  BY <1>1, <1>2, KindsAssumption DEF Preferences, Prefs
<1>8. QuietAfterOptOut'
  <2>1. ASSUME NEW k \in muted'
        PROVE  ~PreferenceEnabled(k)'
    BY <1>6, <1>7, <2>1 DEF PreferenceEnabled
  <2>2. ASSUME NEW k \in muted', NEW d \in NoticeCalls,
               notifier'[d].op = "notify", notifier'[d].kind = k
        PROVE  d \in early'[k]
    <3>1. d # c /\ notifier'[d] = notifier[d] /\ notifier[d] # Silent
      BY <1>4, <2>2 DEF Silent
    <3>2. k \in Kinds
      BY <1>5, <2>2 DEF NoticeTypeOK
    <3> QED
      BY <1>4, <1>6, <2>2, <3>1, <3>2 DEF QuietAfterOptOut
  <2> QED
    BY <2>1, <2>2 DEF QuietAfterOptOut
<1>9. LateSavesKeepMuted'
  <2>1. ASSUME NEW d \in NoticeCalls, NEW k \in muted',
               notifier'[d].op = "save", k \notin notifier'[d].given, d \notin early'[k]
        PROVE  ~notifier'[d].row[k]
    <3>1. d # c /\ notifier'[d] = notifier[d] /\ notifier[d] # Silent
      BY <1>4, <2>1 DEF Silent
    <3>2. k \in Kinds
      BY <1>5, <2>1 DEF NoticeTypeOK
    <3>3. k \in muted /\ d \notin early[k]
      BY <1>4, <1>6, <2>1, <3>1, <3>2
    <3> QED
      BY <2>1, <3>1, <3>3 DEF LateSavesKeepMuted
  <2> QED
    BY <2>1 DEF LateSavesKeepMuted
<1> QED
  BY <1>5, <1>8, <1>9

\* A call that ends without a save.
LEMMA EndKeepsMuted ==
  ASSUME NoticeInv, NEW c \in NoticeCalls, Ends(c, {}), UNCHANGED <<prefs, muted>>,
         inbox' \in [Kinds -> Inbox]
  PROVE  NoticeInv'
<1> USE DEF NoticeInv
<1>1. /\ notifier' \in [NoticeCalls -> Telling \cup {Silent}]
      /\ early' \in [Kinds -> SUBSET NoticeCalls]
      /\ notifier'[c] = Silent
      /\ \A d \in NoticeCalls : d # c => notifier'[d] = notifier[d]
      /\ \A k \in Kinds, d \in NoticeCalls : d # c => d \in early'[k] <=> d \in early[k]
  BY EndsKeeps
<1>2. NoticeTypeOK'
  BY <1>1 DEF NoticeTypeOK
<1>3. LateSavesKeepMuted'
  BY <1>1 DEF LateSavesKeepMuted, NoticeTypeOK, Silent
<1>4. QuietAfterOptOut'
  BY <1>1 DEF QuietAfterOptOut, PreferenceEnabled, Preferences, NoticeTypeOK, Silent
<1> QED
  BY <1>2, <1>3, <1>4

LEMMA NoticeInvKept == NoticeInv /\ [NextNotices]_noticeVars => NoticeInv'
<1> SUFFICES ASSUME NoticeInv, [NextNotices]_noticeVars
             PROVE  NoticeInv'
  OBVIOUS
<1> USE DEF NoticeInv
<1>1. CASE DeletePreferences
  BY <1>1 DEF DeletePreferences, DeleteNotificationPreferences, NoticeTypeOK, LateSavesKeepMuted,
              QuietAfterOptOut
<1>2. ASSUME NEW k \in Kinds, MarkRead(k)
      PROVE  NoticeInv'
  <2>1. NoticeTypeOK'
    BY <1>2 DEF MarkRead, MarkNotificationRead, NoticeTypeOK, Inbox
  <2>2. LateSavesKeepMuted' /\ QuietAfterOptOut'
    BY <1>2 DEF MarkRead, LateSavesKeepMuted, QuietAfterOptOut, PreferenceEnabled, Preferences
  <2> QED
    BY <2>1, <2>2
<1>3. ASSUME NEW c \in NoticeCalls, NEW given \in Given, SavePreferences(c, given)
      PROVE  NoticeInv'
  <2> DEFINE save == [op |-> "save", row |-> Overlay(given), given |-> DOMAIN given]
  <2>1. /\ notifier' = [notifier EXCEPT ![c] = save]
        /\ UNCHANGED <<prefs, inbox, muted, early>>
    BY <1>3 DEF SavePreferences, Starts
  <2>2. DOMAIN given \subseteq Kinds /\ \A k \in DOMAIN given : given[k] \in BOOLEAN
    BY <1>3 DEF Given
  <2>3. Overlay(given) \in Prefs
    <3>1. ASSUME NEW k \in Kinds
          PROVE  (IF k \in DOMAIN given THEN given[k] ELSE Preferences[k]) \in BOOLEAN
      BY <2>2, PreferencesTyped DEF Prefs
    <3> QED
      BY <3>1 DEF Overlay, Prefs
  <2>4. save \in Telling
    BY <2>2, <2>3 DEF Telling
  <2>5. NoticeTypeOK'
    BY <2>1, <2>4 DEF NoticeTypeOK
  <2>6. \A k \in muted : k \notin DOMAIN given => ~Overlay(given)[k]
    BY DEF QuietAfterOptOut, PreferenceEnabled, Overlay, NoticeTypeOK
  <2>7. LateSavesKeepMuted'
    BY <2>1, <2>6 DEF LateSavesKeepMuted, NoticeTypeOK
  <2>8. QuietAfterOptOut'
    BY <2>1 DEF QuietAfterOptOut, PreferenceEnabled, Preferences, NoticeTypeOK
  <2> QED
    BY <2>5, <2>7, <2>8
<1>4. ASSUME NEW c \in NoticeCalls, NEW k \in Kinds, Notify(c, k)
      PROVE  NoticeInv'
  <2>1. /\ notifier' = [notifier EXCEPT ![c] = [op |-> "notify", kind |-> k]]
        /\ UNCHANGED <<prefs, inbox, muted, early>>
    BY <1>4 DEF Notify, Starts
  <2>2. k \notin muted
    BY <1>4 DEF Notify, QuietAfterOptOut
  <2>3. NoticeTypeOK'
    BY <2>1 DEF NoticeTypeOK, Telling
  <2>4. LateSavesKeepMuted'
    BY <2>1 DEF LateSavesKeepMuted, NoticeTypeOK
  <2>5. QuietAfterOptOut'
    BY <2>1, <2>2 DEF QuietAfterOptOut, PreferenceEnabled, Preferences, NoticeTypeOK
  <2> QED
    BY <2>3, <2>4, <2>5
<1>5. ASSUME NEW c \in NoticeCalls, CreateNotification(c)
      PROVE  NoticeInv'
  <2>1. inbox' \in [Kinds -> Inbox]
    BY <1>5 DEF CreateNotification, NoticeTypeOK, Inbox
  <2> QED
    BY <1>5, <2>1, EndKeepsMuted DEF CreateNotification
<1>6. ASSUME NEW c \in NoticeCalls, DropNotice(c)
      PROVE  NoticeInv'
  BY <1>6, EndKeepsMuted DEF DropNotice, NoticeTypeOK
<1>7. CASE UNCHANGED noticeVars
  BY <1>7 DEF noticeVars, NoticeTypeOK, LateSavesKeepMuted, QuietAfterOptOut, PreferenceEnabled,
              Preferences
<1> QED
  BY <1>1, <1>2, <1>3, <1>4, <1>5, <1>6, <1>7, UpsertKeeps DEF NextNotices

(* Once the user was answered that a kind is off, it stays off, and only   *)
(* calls past their read then can still insert one of it, or undo the      *)
(* choice (notifications/handler.go:185-206, service.go:97-112).           *)
THEOREM OptOutHolds == SpecNotices => []QuietAfterOptOut
<1>1. NoticeInv => QuietAfterOptOut
  BY DEF NoticeInv
<1> QED
  BY InitNoticeInv, NoticeInvKept, <1>1, PTL DEF SpecNotices

-----------------------------------------------------------------------------
(* Accounts.                                                               *)

\* A deactivation no activation has overruled has done the statements before `step`.
Standing(step) ==
  \E c \in StatusCalls : switching[c].at \in step /\ ~switching[c].overruled

Off == shut \/ Standing({"sessions", "availability"})

\* What each statement of a standing deactivation leaves behind.
StatementsHold ==
  /\ Off => ~active /\ (offered => "offer" \in leftover)
  /\ shut \/ Standing({"availability"}) => (live => "session" \in leftover)
  /\ shut => (online => "online" \in leftover)
  /\ shut => \A v \in Visits : visit[v] \in {"session", "offer"} => v \in outran

StatusInv == StatusTypeOK /\ StatementsHold

LEMMA StatementsSuffice == StatusInv => DeactivationHolds
  BY DEF StatusInv, StatementsHold, Off, DeactivationHolds

LEMMA InitStatusInv == InitStatus => StatusInv
<1> SUFFICES ASSUME InitStatus
             PROVE  StatusInv
  OBVIOUS
<1>1. StatusTypeOK
  BY DEF InitStatus, StatusTypeOK
<1>2. ~Off /\ ~shut /\ ~Standing({"availability"})
  BY DEF InitStatus, Off, Standing, NoSwitch
<1> QED
  BY <1>1, <1>2 DEF StatusInv, StatementsHold

\* A step of the driver, the matcher or a login, which leaves the admins' calls
\* alone and starts nothing for an account that is off.
Outside ==
  /\ UNCHANGED <<active, switching, shut>>
  /\ ~active => /\ leftover \subseteq leftover'
                /\ live' => live \/ "session" \in leftover'
                /\ online' => online \/ "online" \in leftover'
                /\ offered' => offered \/ "offer" \in leftover'
                /\ \A v \in Visits : visit'[v] \in {"session", "offer"}
                     => visit[v] = visit'[v] /\ (v \in outran => v \in outran')

LEMMA OutsideKeeps ==
  ASSUME StatementsHold, Outside
  PROVE  StatementsHold'
<1>1. /\ Standing({"availability"})' <=> Standing({"availability"})
      /\ Off' <=> Off
  BY DEF Outside, Off, Standing
<1>2. shut' \/ Standing({"availability"})' => Off
  BY <1>1 DEF Outside, Off, Standing
<1> QED
  BY <1>1, <1>2 DEF StatementsHold, Outside

\* The calls, their next writes.
Steps == {Free, "check", "session", "offer"}

LEMMA StatusTypeMoves ==
  ASSUME StatusTypeOK,
         active' \in BOOLEAN, live' \in BOOLEAN, bearer' \in BOOLEAN, online' \in BOOLEAN,
         offered' \in BOOLEAN, shut' \in BOOLEAN,
         visit' \in [Visits -> Steps],
         switching' \in [StatusCalls ->
           [at : {"sessions", "availability"}, overruled : BOOLEAN] \cup {NoSwitch}],
         outran' \subseteq Visits,
         leftover' \subseteq {"session", "online", "offer"}
  PROVE  StatusTypeOK'
<1>1. {active', live', bearer', online', offered', shut'} \subseteq BOOLEAN
  OBVIOUS
<1> QED
  BY <1>1 DEF StatusTypeOK, Steps

LEMMA StatusTypes ==
  ASSUME StatusTypeOK
  PROVE  /\ active \in BOOLEAN /\ live \in BOOLEAN /\ bearer \in BOOLEAN /\ online \in BOOLEAN
         /\ offered \in BOOLEAN /\ shut \in BOOLEAN
         /\ visit \in [Visits -> Steps]
         /\ switching \in [StatusCalls ->
              [at : {"sessions", "availability"}, overruled : BOOLEAN] \cup {NoSwitch}]
         /\ outran \subseteq Visits
         /\ leftover \subseteq {"session", "online", "offer"}
<1>1. {active, live, bearer, online, offered, shut} \subseteq BOOLEAN
  BY DEF StatusTypeOK
<1>2. /\ active \in BOOLEAN /\ live \in BOOLEAN /\ bearer \in BOOLEAN /\ online \in BOOLEAN
      /\ offered \in BOOLEAN /\ shut \in BOOLEAN
  BY <1>1
<1> QED
  BY <1>2 DEF StatusTypeOK, Steps

\* One call moves on: to nothing, to its check, or, while the account is on, to a write.
LEMMA VisitMoves ==
  ASSUME StatusTypeOK, NEW v \in Visits, NEW step \in Steps, Becomes(v, step)
  PROVE  /\ visit' \in [Visits -> Steps]
         /\ visit'[v] = step
         /\ \A w \in Visits : w # v => visit'[w] = visit[w]
BY StatusTypes DEF Becomes

\* What is noted, if the account is off.
LEMMA LeftNotes ==
  ASSUME StatusTypeOK, NEW what \in {"session", "online", "offer"}, Left(what)
  PROVE  /\ leftover' \subseteq {"session", "online", "offer"}
         /\ ~active => leftover' = leftover \cup {what}
<1>1. CASE active
  BY <1>1, StatusTypes DEF Left
<1>2. CASE ~active
  BY <1>2, StatusTypes DEF Left
<1> QED
  BY <1>1, <1>2

LEMMA DriverOutside ==
  ASSUME StatusTypeOK,
         \/ \E v \in Visits :
              \/ Login(v) \/ Refresh(v) \/ GetUserByID(v) \/ IssueAndTrack(v) \/ StopVisit(v)
              \/ ChooseDriver(v) \/ CommitOffer(v)
         \/ TokenExpires \/ SetAvailability \/ EndOffer \/ AcceptOffer
  PROVE  Outside /\ StatusTypeOK'
<1>1. ASSUME NEW v \in Visits, Login(v) \/ GetUserByID(v) \/ ChooseDriver(v)
      PROVE  Outside /\ StatusTypeOK'
  <2>1. /\ active
        /\ UNCHANGED <<active, live, bearer, online, offered, switching, shut, outran, leftover>>
        /\ \E step \in Steps : Becomes(v, step)
    BY <1>1 DEF Login, GetUserByPhone, GetUserByID, ChooseDriver, Steps
  <2>2. visit' \in [Visits -> Steps]
    BY <2>1, VisitMoves
  <2>3. StatusTypeOK'
    BY <2>1, <2>2, StatusTypes, StatusTypeMoves
  <2> QED
    BY <2>1, <2>3 DEF Outside
<1>2. ASSUME NEW v \in Visits, Refresh(v) \/ StopVisit(v)
      PROVE  Outside /\ StatusTypeOK'
  <2>1. /\ UNCHANGED <<active, bearer, online, offered, switching, shut, leftover>>
        /\ live' \in BOOLEAN /\ (live' => live)
        /\ outran' \subseteq outran /\ outran \subseteq outran' \cup {v}
        /\ \E step \in {Free, "check"} : Becomes(v, step)
    <3>1. CASE Refresh(v)
      <4>1. live' = FALSE /\ outran' = outran /\ Becomes(v, "check")
        BY <3>1 DEF Refresh
      <4>2. UNCHANGED <<active, bearer, online, offered, switching, shut, leftover>>
        BY <3>1 DEF Refresh
      <4> QED
        BY <4>1, <4>2
    <3>2. CASE StopVisit(v)
      <4>1. live' = live /\ outran' = outran \ {v} /\ Becomes(v, Free)
        BY <3>2 DEF StopVisit
      <4>2. UNCHANGED <<active, bearer, online, offered, switching, shut, leftover>>
        BY <3>2 DEF StopVisit
      <4> QED
        BY <4>1, <4>2, StatusTypes
    <3> QED
      BY <1>2, <3>1, <3>2
  <2>2. PICK step \in {Free, "check"} : Becomes(v, step)
    BY <2>1
  <2>3. /\ visit' \in [Visits -> Steps] /\ visit'[v] = step
        /\ \A w \in Visits : w # v => visit'[w] = visit[w]
    BY <2>2, VisitMoves DEF Steps
  <2>4. StatusTypeOK'
    BY <2>1, <2>3, StatusTypes, StatusTypeMoves
  <2>5. step \notin {"session", "offer"}
    BY DEF Free
  <2> QED
    BY <2>1, <2>3, <2>4, <2>5 DEF Outside
<1>3. ASSUME NEW v \in Visits, IssueAndTrack(v) \/ CommitOffer(v)
      PROVE  Outside /\ StatusTypeOK'
  <2>1. /\ UNCHANGED <<active, switching, shut>>
        /\ Becomes(v, Free) /\ outran' = outran \ {v}
    BY <1>3 DEF IssueAndTrack, CommitOffer
  <2>2. /\ visit' \in [Visits -> Steps] /\ visit'[v] = Free
        /\ \A w \in Visits : w # v => visit'[w] = visit[w]
    BY <2>1, VisitMoves DEF Steps
  <2>3. \A w \in Visits : visit'[w] \in {"session", "offer"}
          => visit[w] = visit'[w] /\ (w \in outran => w \in outran')
    BY <2>1, <2>2 DEF Free
  <2>4. CASE IssueAndTrack(v)
    <3>1. live' = TRUE /\ bearer' = TRUE /\ UNCHANGED <<online, offered>> /\ Left("session")
      BY <2>4 DEF IssueAndTrack
    <3>2. /\ leftover' \subseteq {"session", "online", "offer"}
          /\ ~active => leftover' = leftover \cup {"session"}
      BY <3>1, LeftNotes
    <3>3. StatusTypeOK'
      BY <2>1, <2>2, <3>1, <3>2, StatusTypes, StatusTypeMoves
    <3> QED
      BY <2>1, <2>3, <3>1, <3>2, <3>3 DEF Outside
  <2>5. CASE CommitOffer(v)
    <3>1. offered' = TRUE /\ online' = FALSE /\ UNCHANGED <<live, bearer>> /\ Left("offer")
      BY <2>5 DEF CommitOffer
    <3>2. /\ leftover' \subseteq {"session", "online", "offer"}
          /\ ~active => leftover' = leftover \cup {"offer"}
      BY <3>1, LeftNotes
    <3>3. StatusTypeOK'
      BY <2>1, <2>2, <3>1, <3>2, StatusTypes, StatusTypeMoves
    <3> QED
      BY <2>1, <2>3, <3>1, <3>2, <3>3 DEF Outside
  <2> QED
    BY <1>3, <2>4, <2>5
<1>4. CASE TokenExpires \/ AcceptOffer
  <2>1. /\ UNCHANGED <<active, live, online, visit, switching, shut, outran, leftover>>
        /\ bearer' \in BOOLEAN /\ offered' \in BOOLEAN /\ (offered' => offered)
    <3>1. CASE TokenExpires
      BY <3>1, StatusTypes DEF TokenExpires
    <3>2. CASE AcceptOffer
      BY <3>2, StatusTypes DEF AcceptOffer
    <3> QED
      BY <1>4, <3>1, <3>2
  <2>2. StatusTypeOK'
    BY <2>1, StatusTypes, StatusTypeMoves
  <2> QED
    BY <2>1, <2>2 DEF Outside
<1>5. CASE SetAvailability \/ EndOffer
  <2>1. /\ UNCHANGED <<active, live, bearer, visit, switching, shut, outran>>
        /\ online' \in BOOLEAN /\ offered' \in BOOLEAN /\ (offered' => offered)
        /\ Left("online")
    <3>1. CASE SetAvailability
      <4>1. UNCHANGED <<active, live, bearer, offered, visit, switching, shut, outran>>
        BY <3>1 DEF SetAvailability
      <4>2. online' \in BOOLEAN /\ Left("online")
        BY <3>1 DEF SetAvailability
      <4> QED
        BY <4>1, <4>2, StatusTypes
    <3>2. CASE EndOffer
      <4>1. UNCHANGED <<active, live, bearer, visit, switching, shut, outran>>
        BY <3>2 DEF EndOffer
      <4>2. offered /\ offered' \in BOOLEAN /\ online' = TRUE /\ Left("online")
        BY <3>2 DEF EndOffer
      <4> QED
        BY <4>1, <4>2
    <3> QED
      BY <1>5, <3>1, <3>2
  <2>2. /\ leftover' \subseteq {"session", "online", "offer"}
        /\ ~active => leftover' = leftover \cup {"online"}
    BY <2>1, LeftNotes
  <2>3. StatusTypeOK'
    BY <2>1, <2>2, StatusTypes, StatusTypeMoves
  <2> QED
    BY <2>1, <2>2, <2>3 DEF Outside
<1> QED
  BY <1>1, <1>2, <1>3, <1>4, <1>5

\* Only the call itself changes its place.
LEMMA SwitchMoves ==
  ASSUME StatusTypeOK, NEW c \in StatusCalls,
         NEW to \in [at : {"sessions", "availability"}, overruled : BOOLEAN] \cup {NoSwitch},
         switching' = [switching EXCEPT ![c] = to]
  PROVE  /\ switching' \in [StatusCalls ->
              [at : {"sessions", "availability"}, overruled : BOOLEAN] \cup {NoSwitch}]
         /\ switching'[c] = to
         /\ \A d \in StatusCalls : d # c => switching'[d] = switching[d]
BY StatusTypes

LEMMA StatusInvKept == StatusInv /\ [NextStatus]_statusVars => StatusInv'
<1> SUFFICES ASSUME StatusInv, [NextStatus]_statusVars
             PROVE  StatusInv'
  OBVIOUS
<1>0. StatusTypeOK /\ StatementsHold
  BY DEF StatusInv
<1>1. CASE \/ \E v \in Visits :
                \/ Login(v) \/ Refresh(v) \/ GetUserByID(v) \/ IssueAndTrack(v) \/ StopVisit(v)
                \/ ChooseDriver(v) \/ CommitOffer(v)
           \/ TokenExpires \/ SetAvailability \/ EndOffer \/ AcceptOffer
  BY <1>0, <1>1, DriverOutside, OutsideKeeps DEF StatusInv
<1>2. CASE Activate
  <2>1. /\ active' = TRUE /\ shut' = FALSE /\ leftover' = {}
        /\ UNCHANGED <<live, bearer, online, offered, visit, outran>>
    BY <1>2 DEF Activate, SetUserActive
  <2>2. /\ switching' \in [StatusCalls ->
             [at : {"sessions", "availability"}, overruled : BOOLEAN] \cup {NoSwitch}]
        /\ \A c \in StatusCalls : switching'[c] = NoSwitch \/ switching'[c].overruled
    BY <1>0, <1>2, StatusTypes DEF Activate, NoSwitch
  <2>3. StatusTypeOK'
    BY <1>0, <2>1, <2>2, StatusTypes, StatusTypeMoves
  <2>4. ~shut' /\ ~Standing({"availability"})' /\ ~Off'
    BY <2>1, <2>2 DEF Off, Standing, NoSwitch
  <2> QED
    BY <2>3, <2>4 DEF StatusInv, StatementsHold
<1>3. ASSUME NEW c \in StatusCalls, Deactivate(c)
      PROVE  StatusInv'
  <2> DEFINE to == [at |-> "sessions", overruled |-> FALSE]
  <2>1. /\ active' = FALSE
        /\ UNCHANGED <<live, bearer, online, offered, visit, shut, outran>>
        /\ leftover \subseteq leftover' /\ leftover' \subseteq {"session", "online", "offer"}
        /\ offered => "offer" \in leftover'
        /\ switching' = [switching EXCEPT ![c] = to]
    BY <1>0, <1>3, StatusTypes DEF Deactivate, SetUserActive
  <2>2. /\ switching' \in [StatusCalls ->
             [at : {"sessions", "availability"}, overruled : BOOLEAN] \cup {NoSwitch}]
        /\ switching'[c] = to
        /\ \A d \in StatusCalls : d # c => switching'[d] = switching[d]
    BY <1>0, <2>1, SwitchMoves
  <2>3. StatusTypeOK'
    BY <1>0, <2>1, <2>2, StatusTypes, StatusTypeMoves
  <2>4. Standing({"availability"})' => Standing({"availability"})
    BY <2>2 DEF Standing
  <2>5. StatementsHold'
    BY <1>0, <2>1, <2>4 DEF StatementsHold, Off
  <2> QED
    BY <2>3, <2>5 DEF StatusInv
<1>4. ASSUME NEW c \in StatusCalls, DeleteSessionsForUser(c)
      PROVE  StatusInv'
  <2> DEFINE to == [switching[c] EXCEPT !.at = "availability"]
  <2>1. /\ live' = FALSE
        /\ UNCHANGED <<active, bearer, online, offered, visit, shut, outran, leftover>>
        /\ switching[c].at = "sessions" /\ switching' = [switching EXCEPT ![c].at = "availability"]
    BY <1>4 DEF DeleteSessionsForUser
  <2>2. switching[c] \in [at : {"sessions", "availability"}, overruled : BOOLEAN]
    BY <1>0, <2>1, StatusTypes DEF NoSwitch
  <2>3. /\ switching' = [switching EXCEPT ![c] = to]
        /\ to \in [at : {"sessions", "availability"}, overruled : BOOLEAN]
        /\ to.overruled = switching[c].overruled
    BY <2>1, <2>2
  <2>4. /\ switching' \in [StatusCalls ->
             [at : {"sessions", "availability"}, overruled : BOOLEAN] \cup {NoSwitch}]
        /\ switching'[c] = to
        /\ \A d \in StatusCalls : d # c => switching'[d] = switching[d]
    BY <1>0, <2>3, SwitchMoves
  <2>5. StatusTypeOK'
    BY <1>0, <2>1, <2>4, StatusTypes, StatusTypeMoves
  <2>6. Standing({"sessions", "availability"})' => Standing({"sessions", "availability"})
    BY <2>1, <2>3, <2>4 DEF Standing
  <2>7. StatementsHold'
    BY <1>0, <2>1, <2>6 DEF StatementsHold, Off
  <2> QED
    BY <2>5, <2>7 DEF StatusInv
<1>5. ASSUME NEW c \in StatusCalls, SetDriverOffline(c)
      PROVE  StatusInv'
  <2>1. /\ switching[c].at = "availability"
        /\ online' = FALSE
        /\ shut' = (shut \/ ~switching[c].overruled)
        /\ outran' = IF shut' /\ ~shut THEN {v \in Visits : visit[v] # Free} ELSE outran
        /\ switching' = [switching EXCEPT ![c] = NoSwitch]
        /\ UNCHANGED <<active, live, bearer, offered, visit, leftover>>
    BY <1>5 DEF SetDriverOffline
  <2>2. /\ switching' \in [StatusCalls ->
             [at : {"sessions", "availability"}, overruled : BOOLEAN] \cup {NoSwitch}]
        /\ switching'[c] = NoSwitch
        /\ \A d \in StatusCalls : d # c => switching'[d] = switching[d]
    BY <1>0, <2>1, SwitchMoves
  <2>3. outran' \subseteq Visits
    BY <1>0, <2>1, StatusTypes
  <2>4. StatusTypeOK'
    BY <1>0, <2>1, <2>2, <2>3, StatusTypes, StatusTypeMoves
  <2>5. /\ Standing({"availability"})' => Standing({"availability"})
        /\ Standing({"sessions", "availability"})' => Standing({"sessions", "availability"})
    BY <2>2 DEF Standing, NoSwitch
  <2>6. shut' => shut \/ Standing({"availability"})
    BY <2>1 DEF Standing
  <2>7. shut' /\ ~shut => \A v \in Visits : visit[v] # Free => v \in outran'
    BY <2>1
  <2>8. shut => outran' = outran
    BY <2>1
  <2>9. shut' => \A v \in Visits : visit'[v] \in {"session", "offer"} => v \in outran'
    BY <1>0, <2>1, <2>7, <2>8 DEF StatementsHold, Free
  <2>10. Off' => Off
    BY <2>5, <2>6 DEF Off, Standing
  <2>11. StatementsHold'
    BY <1>0, <2>1, <2>5, <2>6, <2>9, <2>10 DEF StatementsHold
  <2> QED
    BY <2>4, <2>11 DEF StatusInv
<1>6. ASSUME NEW c \in StatusCalls, StopSwitching(c)
      PROVE  StatusInv'
  <2>1. /\ switching' = [switching EXCEPT ![c] = NoSwitch]
        /\ UNCHANGED <<active, live, bearer, online, offered, visit, shut, outran, leftover>>
    BY <1>6 DEF StopSwitching
  <2>2. /\ switching' \in [StatusCalls ->
             [at : {"sessions", "availability"}, overruled : BOOLEAN] \cup {NoSwitch}]
        /\ switching'[c] = NoSwitch
        /\ \A d \in StatusCalls : d # c => switching'[d] = switching[d]
    BY <1>0, <2>1, SwitchMoves
  <2>3. StatusTypeOK'
    BY <1>0, <2>1, <2>2, StatusTypes, StatusTypeMoves
  <2>4. /\ Standing({"availability"})' => Standing({"availability"})
        /\ Standing({"sessions", "availability"})' => Standing({"sessions", "availability"})
    BY <2>2 DEF Standing, NoSwitch
  <2>5. StatementsHold'
    BY <1>0, <2>1, <2>4 DEF StatementsHold, Off
  <2> QED
    BY <2>3, <2>5 DEF StatusInv
<1>7. CASE UNCHANGED statusVars
  <2>1. UNCHANGED <<active, live, bearer, online, offered, visit, switching, shut, outran, leftover>>
    BY <1>7 DEF statusVars
  <2>2. StatusTypeOK'
    BY <1>0, <2>1, StatusTypes, StatusTypeMoves
  <2>3. Outside
    BY <2>1 DEF Outside
  <2> QED
    BY <1>0, <2>2, <2>3, OutsideKeeps DEF StatusInv
<1> QED
  BY <1>1, <1>2, <1>3, <1>4, <1>5, <1>6, <1>7 DEF NextStatus

(* After an answered deactivation that no activation has overruled, a       *)
(* session, being online, or an offer is the work of a call that outran it *)
(* (dashboard/handler.go:319-339).                                         *)
THEOREM DeactivationsHold == SpecStatus => []DeactivationHolds
BY InitStatusInv, StatusInvKept, StatementsSuffice, PTL DEF SpecStatus

-----------------------------------------------------------------------------
(* Airport transfers: whatever a call is about to write, it judged on a     *)
(* status that was not final.                                              *)

\* A call past its read has read a transfer that had not ended.
ReadOpen ==
  \A c \in TransferCalls : update[c].op = "update" => update[c].read \notin Final

TransferInv == TransferTypeOK /\ ReadOpen

LEMMA InitTransferInv == InitTransfers => TransferInv
  BY DEF InitTransfers, TransferInv, TransferTypeOK, ReadOpen, NoUpdate

\* Reads: a call takes its record, and nothing else moves.
LEMMA BeginUpdateKeeps ==
  ASSUME TransferInv, NEW c \in TransferCalls, NEW t \in Transfers,
         NEW caller \in Callers \cup {"rider"},
         UpdateTransferStatus(c, t, caller) \/ RecordActualArrival(c, t, caller)
  PROVE  TransferInv'
<1>1. PICK next \in Known : BeginUpdate(c, t, caller, next)
  <2>1. CASE UpdateTransferStatus(c, t, caller)
    BY <2>1 DEF UpdateTransferStatus
  <2>2. CASE RecordActualArrival(c, t, caller)
    <3>1. progress[t] \in Known
      BY <2>2 DEF RecordActualArrival, BeginUpdate, ValidateTransition
    <3> QED
      BY <2>2, <3>1 DEF RecordActualArrival
  <2> QED
    BY <2>1, <2>2
<1>2. /\ progress[t] \in Known /\ progress[t] \notin Final
      /\ UNCHANGED <<progress, escort>>
      /\ update' = [update EXCEPT ![c] =
           [op |-> "update", transfer |-> t, read |-> progress[t], next |-> next]]
  BY <1>1 DEF BeginUpdate, Stored, ValidateTransition, TransferInv, TransferTypeOK
<1>3. [op |-> "update", transfer |-> t, read |-> progress[t], next |-> next] \in Update
  BY <1>2 DEF Update
<1>4. TransferTypeOK'
  BY <1>2, <1>3 DEF TransferInv, TransferTypeOK
<1>5. ReadOpen'
  BY <1>2 DEF TransferInv, TransferTypeOK, ReadOpen
<1> QED
  BY <1>4, <1>5 DEF TransferInv

LEMMA TransferInvKept == TransferInv /\ [NextTransfers]_transferVars => TransferInv'
<1> SUFFICES ASSUME TransferInv, [NextTransfers]_transferVars
             PROVE  TransferInv'
  OBVIOUS
<1> USE DEF TransferInv
<1>1. ASSUME NEW t \in Transfers, CreateTransfer(t)
      PROVE  TransferInv'
  BY <1>1 DEF CreateTransfer, CreateAirportTransfer, TransferTypeOK, ReadOpen, Known
<1>2. ASSUME NEW t \in Transfers, EscortChanges(t)
      PROVE  TransferInv'
  BY <1>2 DEF EscortChanges, TransferTypeOK, ReadOpen
<1>3. ASSUME NEW c \in TransferCalls, NEW t \in Transfers, NEW caller \in Callers \cup {"rider"},
             UpdateTransferStatus(c, t, caller) \/ RecordActualArrival(c, t, caller)
      PROVE  TransferInv'
  BY <1>3, BeginUpdateKeeps
<1>4. ASSUME NEW c \in TransferCalls, NEW t \in Transfers, NEW caller \in Callers \cup {"rider"},
             BeginCancel(c, t, caller)
      PROVE  TransferInv'
  BY <1>4 DEF BeginCancel, TransferTypeOK, ReadOpen, Update
<1>5. ASSUME NEW c \in TransferCalls, UpdateTransfer(c)
      PROVE  TransferInv'
  <2>1. update[c] \in Update /\ update[c].op = "update"
    BY <1>5 DEF UpdateTransfer, TransferTypeOK, NoUpdate
  <2>2. update[c].transfer \in Transfers /\ update[c].next \in Known
    BY <2>1 DEF Update
  <2> QED
    BY <1>5, <2>2 DEF UpdateTransfer, UpdateAirportTransfer, TransferTypeOK, ReadOpen, NoUpdate
<1>6. ASSUME NEW c \in TransferCalls, CancelTransfer(c)
      PROVE  TransferInv'
  BY <1>6 DEF CancelTransfer, CancelAirportTransfer, TransferTypeOK, ReadOpen, NoUpdate, Known, Final
<1>7. ASSUME NEW c \in TransferCalls, AbandonTransferCall(c)
      PROVE  TransferInv'
  BY <1>7 DEF AbandonTransferCall, TransferTypeOK, ReadOpen, NoUpdate
<1>8. CASE UNCHANGED transferVars
  BY <1>8 DEF transferVars, TransferTypeOK, ReadOpen
<1> QED
  BY <1>1, <1>2, <1>3, <1>4, <1>5, <1>6, <1>7, <1>8 DEF NextTransfers

(* Every reachable state of the transfers is well typed.                   *)
THEOREM TransfersTyped == SpecTransfers => []TransferTypeOK
<1>1. TransferInv => TransferTypeOK
  BY DEF TransferInv
<1> QED
  BY InitTransferInv, TransferInvKept, <1>1, PTL DEF SpecTransfers

LEMMA EndedStep ==
  ASSUME TransferInv, [NextTransfers]_transferVars, NEW t \in Transfers,
         progress[t] \in Final, progress'[t] # progress[t]
  PROVE  \E c \in TransferCalls :
           /\ update[c].op = "update" /\ update[c].transfer = t
           /\ update[c].read \notin Final
           /\ update[c].next = progress'[t]
<1> USE DEF TransferInv
<1>1. ASSUME NEW s \in Transfers, CreateTransfer(s)
      PROVE  FALSE
  BY <1>1 DEF CreateTransfer, CreateAirportTransfer, Stored, TransferTypeOK, Final
<1>2. ASSUME NEW c \in TransferCalls, CancelTransfer(c)
      PROVE  FALSE
  BY <1>2 DEF CancelTransfer, CancelAirportTransfer, TransferTypeOK
<1>3. ASSUME UNCHANGED progress
      PROVE  FALSE
  BY <1>3
<1>4. PICK c \in TransferCalls : UpdateTransfer(c)
  BY <1>1, <1>2, <1>3
     DEF NextTransfers, transferVars, EscortChanges, UpdateTransferStatus, RecordActualArrival,
         BeginUpdate, BeginCancel, AbandonTransferCall
<1>5. update[c].op = "update" /\ progress' = [progress EXCEPT ![update[c].transfer] = update[c].next]
  BY <1>4 DEF UpdateTransfer, UpdateAirportTransfer
<1>6. update[c].transfer = t /\ update[c].next = progress'[t]
  BY <1>5 DEF TransferTypeOK
<1> QED
  BY <1>5, <1>6 DEF ReadOpen

(* A transfer that has ended is moved again only by an update that read it *)
(* before it ended: the guard of CancelAirportTransfer and the check of    *)
(* validateTransition leave no other way (airport/service.go:222-302).     *)
THEOREM EndedStaysEnded == SpecTransfers => EndedUnlessOverwritten
<1>1. TransferInv /\ [NextTransfers]_transferVars =>
        [\A t \in Transfers :
           progress[t] \in Final /\ progress'[t] # progress[t]
             => \E c \in TransferCalls :
                  /\ update[c].op = "update" /\ update[c].transfer = t
                  /\ update[c].read \notin Final
                  /\ update[c].next = progress'[t]]_transferVars
  BY EndedStep
<1> QED
  BY InitTransferInv, TransferInvKept, <1>1, PTL DEF SpecTransfers, EndedUnlessOverwritten
=============================================================================
