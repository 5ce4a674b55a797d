---------------------------- MODULE Notifications ----------------------------
(***************************************************************************)
(* One user's notifications and the preferences that decide about them     *)
(* (internal/notifications).  Saving some of the preferences reads the     *)
(* row, lays the given fields over it and writes all of it back; a         *)
(* notification reads the preferences and inserts in a second statement.   *)
(*                                                                         *)
(* Abstracted: texts; of several notifications of a kind, one; the push    *)
(* that follows the insert, best effort and without a row of its own;      *)
(* devices.                                                                *)
(***************************************************************************)
EXTENDS Naturals

CONSTANTS
  Kinds,      \* ride, payment, kyc and marketing
  Marketing,  \* the kind that is off by default
  NoPrefs,    \* there is no row of preferences
  NoticeCalls \* calls that may be past their read at once

ASSUME KindsAssumption == Marketing \in Kinds /\ NoPrefs \notin [Kinds -> BOOLEAN]

VARIABLES
  prefs,     \* the row of notification_preferences
  inbox,     \* the user's notification of each kind
  notifier,  \* calls past their read
  muted,     \* kinds the user has switched off and not on again (history)
  early      \* by kind: calls that were past their read when it was (history)

noticeVars == <<prefs, inbox, notifier, muted, early>>

Prefs    == [Kinds -> BOOLEAN]
Inbox    == {"none", "unread", "read"}
Given    == UNION {[S -> BOOLEAN] : S \in SUBSET Kinds}
Telling  == [op : {"save"}, row : Prefs, given : SUBSET Kinds] \cup [op : {"notify"}, kind : Kinds]
Silent   == [op |-> "none"]

NoticeTypeOK ==
  /\ prefs \in Prefs \cup {NoPrefs}
  /\ inbox \in [Kinds -> Inbox]
  /\ notifier \in [NoticeCalls -> Telling \cup {Silent}]
  /\ muted \subseteq Kinds
  /\ early \in [Kinds -> SUBSET NoticeCalls]

InitNotices ==
  /\ prefs = NoPrefs
  /\ inbox = [k \in Kinds |-> "none"]
  /\ notifier = [c \in NoticeCalls |-> Silent]
  /\ muted = {}
  /\ early = [k \in Kinds |-> {}]

-----------------------------------------------------------------------------
DefaultPreferences == [k \in Kinds |-> k # Marketing]

Preferences == IF prefs = NoPrefs THEN DefaultPreferences ELSE prefs

\* A field that is not given counts as its default.
MutOverlay(given) == [k \in Kinds |-> IF k \in DOMAIN given THEN given[k] ELSE DefaultPreferences[k]]

Overlay(given) == [k \in Kinds |-> IF k \in DOMAIN given THEN given[k] ELSE Preferences[k]]

Starts(c, call) == notifier[c] = Silent /\ notifier' = [notifier EXCEPT ![c] = call]

\* The call is over; if the calls of `kinds` in flight were noted, so is that.
Ends(c, kinds) ==
  /\ notifier' = [notifier EXCEPT ![c] = Silent]
  /\ early' = [k \in Kinds |->
       (IF k \in kinds THEN {d \in NoticeCalls : notifier[d] # Silent} ELSE early[k]) \ {c}]

SavePreferences(c, given) ==
  /\ Starts(c, [op |-> "save", row |-> Overlay(given), given |-> DOMAIN given])
  /\ UNCHANGED <<prefs, inbox, muted, early>>

\* The user is answered.  A save that read before a kind was switched off may
\* switch it on again unasked.
UpsertPreferences(c) ==
  /\ notifier[c].op = "save"
  /\ LET call == notifier[c]
         on   == {k \in muted : call.row[k] /\ (k \in call.given \/ c \in early[k])}
         off  == {k \in call.given : ~call.row[k]}
     IN /\ prefs' = call.row
        /\ muted' = (muted \ on) \cup off
        /\ Ends(c, off \ muted)
  /\ UNCHANGED inbox

DeleteNotificationPreferences == prefs' = NoPrefs

DeletePreferences ==
  /\ DeleteNotificationPreferences /\ muted' = {}
  /\ UNCHANGED <<inbox, notifier, early>>

PreferenceEnabled(k) == Preferences[k]

Notify(c, k) ==
  /\ PreferenceEnabled(k)
  /\ Starts(c, [op |-> "notify", kind |-> k])
  /\ UNCHANGED <<prefs, inbox, muted, early>>

CreateNotification(c) ==
  /\ notifier[c].op = "notify"
  /\ inbox' = [inbox EXCEPT ![notifier[c].kind] = "unread"]
  /\ Ends(c, {})
  /\ UNCHANGED <<prefs, muted>>

\* COALESCE(read_at, NOW()).
MarkNotificationRead(k) == inbox[k] # "none" /\ inbox' = [inbox EXCEPT ![k] = "read"]

MarkRead(k) ==
  /\ MarkNotificationRead(k)
  /\ UNCHANGED <<prefs, notifier, muted, early>>

\* The write fails, or the process stops before it.
DropNotice(c) ==
  /\ notifier[c] # Silent
  /\ Ends(c, {})
  /\ UNCHANGED <<prefs, inbox, muted>>

NextNotices ==
  \/ DeletePreferences
  \/ \E k \in Kinds : MarkRead(k)
  \/ \E c \in NoticeCalls :
       \/ \E given \in Given : SavePreferences(c, given)
       \/ \E k \in Kinds : Notify(c, k)
       \/ UpsertPreferences(c) \/ CreateNotification(c) \/ DropNotice(c)

SpecNotices == InitNotices /\ [][NextNotices]_noticeVars

-----------------------------------------------------------------------------
(* Once the user was answered that a kind is off, it stays off through      *)
(* saves of other fields, and only a notification that had read the        *)
(* preferences before is still inserted; a save that had read before may   *)
(* undo the choice (handler.go:185-206, service.go:97-112).                *)
QuietAfterOptOut ==
  \A k \in muted :
    /\ ~PreferenceEnabled(k)
    /\ \A c \in NoticeCalls :
         notifier[c].op = "notify" /\ notifier[c].kind = k => c \in early[k]
=============================================================================
