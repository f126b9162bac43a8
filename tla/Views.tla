------------------------------- MODULE Views -------------------------------
(***************************************************************************)
(* The components of the web interface that show what the API answers.     *)
(*                                                                         *)
(* Each of them is a few effects and a few pieces of state of the same     *)
(* make: an effect asks when the component is mounted, when the subject it *)
(* is about changes, or on a timer, and the answer is stored as rows or as *)
(* an error of the page.  They differ in what they do about answers that   *)
(* come late, and about failures, so a component is a record of that and   *)
(* the actions are common.  A mounted component shares nothing with the    *)
(* others but the subject in the URL, so one is mounted at a time.         *)
(***************************************************************************)
EXTENDS Integers, FiniteSets

CONSTANTS Subjects,     \* what can be selected: a device, a port, a filter
          None,         \* nothing: no subject, no component, no answer yet
          Blank,        \* the empty rows stored for a failed request
          Any,          \* what an answer is about that is about no subject
          MaxFlight,    \* requests of one view on their way
          MaxVisits, MaxSelects, MaxFails, MaxChanges, MaxActs    \* bounds of the model

ASSUME SubjectAssumption ==
    /\ None \notin Subjects
    /\ Any \notin Subjects \cup {None}

ASSUME BoundAssumption ==
    /\ MaxFlight \in Nat \ {0}
    /\ MaxVisits \in Nat
    /\ MaxSelects \in Nat
    /\ MaxFails \in Nat
    /\ MaxChanges \in Nat
    /\ MaxActs \in Nat

-----------------------------------------------------------------------------
(* The views *)

\* comp: the component whose error hides the view; keyed: asks for the subject;
\* wait: only after a pause in typing; drops: the effect's clean-up discards the
\* answers still to come; clears: a new subject empties the view; polls: asks
\* again on a timer; onError: what a failed request does; heals: a good answer
\* takes the component's error away; acts: the operator can change what it shows.
Panel(c) == [comp |-> c, keyed |-> FALSE, wait |-> FALSE, drops |-> TRUE,
             clears |-> FALSE, polls |-> TRUE, onError |-> "page", heals |-> TRUE,
             acts |-> FALSE]

Fleet == Panel("switches")
SwitchData == [Panel("switches") EXCEPT !.keyed = TRUE, !.clears = TRUE, !.heals = FALSE]
\* Mutant of PortDetail: its effect does not discard late answers.
MutantPortDetail == [Panel("portDetail") EXCEPT !.keyed = TRUE, !.clears = TRUE,
                                                !.drops = FALSE]

PortDetail == [Panel("portDetail") EXCEPT !.keyed = TRUE, !.clears = TRUE]

\* tabFetch: neither its late answers nor its failures are told apart.
Tab(c) == [Panel(c) EXCEPT !.keyed = TRUE, !.drops = FALSE, !.clears = TRUE,
                           !.polls = FALSE, !.onError = "blank"]
FdbTab == Tab("fdb")
TopologyTab == Tab("topology")
VlansTab == Tab("vlans")
TriggersTab == Tab("triggers")
BackupsTab == Tab("backups")

WirelessPage == Panel("wireless")
ApDetailPage == [Panel("ap") EXCEPT !.keyed = TRUE, !.polls = FALSE, !.heals = FALSE]

CameraGroups == Panel("cameras")
CameraFleet == [Panel("cameras") EXCEPT !.onError = "blank", !.heals = FALSE]
CameraDetail == [Panel("camera") EXCEPT !.keyed = TRUE, !.clears = TRUE, !.heals = FALSE]
CameraAlerts == [CameraDetail EXCEPT !.onError = "blank"]
Snapshot == [Panel("snapshot") EXCEPT !.keyed = TRUE, !.clears = TRUE, !.polls = FALSE,
                                      !.onError = "blank", !.heals = FALSE]

Surveillance == Panel("surveillance")
SurveillanceLists == [Panel("surveillance") EXCEPT !.onError = "blank", !.heals = FALSE,
                                                   !.acts = TRUE]
CameraTrend == [Panel("trend") EXCEPT !.polls = FALSE, !.onError = "blank", !.heals = FALSE]
StorageTab == [CameraTrend EXCEPT !.comp = "storage", !.drops = FALSE]

GlobalPage == [Panel("global") EXCEPT !.heals = FALSE]
\* Mutant of EventsPage: it asks when a filter changes and not on a timer.
MutantEventsPage == [Panel("events") EXCEPT !.keyed = TRUE, !.drops = FALSE, !.polls = FALSE]

EventsPage == [Panel("events") EXCEPT !.keyed = TRUE, !.drops = FALSE]
ProblemsPage == [Panel("problems") EXCEPT !.drops = FALSE, !.acts = TRUE]
NetmonStatusPage == [Panel("netmon-status") EXCEPT !.drops = FALSE]
XiqPage == Panel("xiq")
VoipPage == Panel("voip")
VoipExtensions == [Panel("voip") EXCEPT !.keyed = TRUE, !.wait = TRUE, !.drops = FALSE,
                             !.polls = FALSE, !.onError = "blank", !.heals = FALSE]
\* Mutant of NacPage: a good answer leaves the error of an earlier one.
MutantNacPage == [Panel("nac") EXCEPT !.heals = FALSE]

NacPage == Panel("nac")
NacDevices == [VoipExtensions EXCEPT !.comp = "nacDevices"]
NacSessions == [StorageTab EXCEPT !.comp = "nacSessions"]
NacQuarantine == [StorageTab EXCEPT !.comp = "nacQuarantine"]
NacPolicies == [StorageTab EXCEPT !.comp = "nacPolicies"]
NacCluster == [StorageTab EXCEPT !.comp = "nacCluster"]
HistoryChart == [Panel("history") EXCEPT !.keyed = TRUE, !.onError = "blank", !.heals = FALSE]
NavCounts == [Panel("nav") EXCEPT !.onError = "keep", !.heals = FALSE]
SettingsPage == [Panel("settings") EXCEPT !.drops = FALSE, !.polls = FALSE, !.heals = FALSE,
                                          !.acts = TRUE]
RegistryPage == [SettingsPage EXCEPT !.comp = "registry"]
CommandPalette == [Panel("palette") EXCEPT !.keyed = TRUE, !.wait = TRUE, !.polls = FALSE,
                                           !.onError = "blank", !.heals = FALSE]
ActionAudit == [StorageTab EXCEPT !.comp = "audit", !.keyed = TRUE]
\* Three lists that a failed request leaves as they are, with a message.
DeviceAssignments == [RegistryPage EXCEPT !.comp = "devices", !.onError = "keep"]
EnumMaps == [DeviceAssignments EXCEPT !.comp = "enums"]
Proposals == [DeviceAssignments EXCEPT !.comp = "proposals"]
Runs == [RegistryPage EXCEPT !.comp = "runs", !.acts = FALSE]
RunTrail == [StorageTab EXCEPT !.comp = "runTrail"]

View == [fleet |-> Fleet, switchData |-> SwitchData, portDetail |-> PortDetail,
         fdb |-> FdbTab, topology |-> TopologyTab, vlans |-> VlansTab,
         triggers |-> TriggersTab, backups |-> BackupsTab,
         aps |-> WirelessPage, ap |-> ApDetailPage,
         cameraGroups |-> CameraGroups, cameras |-> CameraFleet,
         camera |-> CameraDetail, cameraAlerts |-> CameraAlerts, snapshot |-> Snapshot,
         surveillance |-> Surveillance, surveillanceLists |-> SurveillanceLists,
         trend |-> CameraTrend, storage |-> StorageTab,
         global |-> GlobalPage, events |-> EventsPage, problems |-> ProblemsPage,
         status |-> NetmonStatusPage, xiq |-> XiqPage,
         voip |-> VoipPage, extensions |-> VoipExtensions,
         nac |-> NacPage, nacDevices |-> NacDevices, nacSessions |-> NacSessions,
         nacQuarantine |-> NacQuarantine, nacPolicies |-> NacPolicies,
         nacCluster |-> NacCluster, history |-> HistoryChart, nav |-> NavCounts,
         settings |-> SettingsPage, registry |-> RegistryPage,
         palette |-> CommandPalette, audit |-> ActionAudit,
         devices |-> DeviceAssignments, enums |-> EnumMaps,
         proposals |-> Proposals, runs |-> Runs, runTrail |-> RunTrail]

Names == DOMAIN View
Comps == {View[v].comp : v \in Names}
ViewsOf == [c \in Comps |-> {v \in Names : View[v].comp = c}]

ASSUME CompAssumption == None \notin Comps

-----------------------------------------------------------------------------

VARIABLES
    comp,       \* the mounted component
    sel,        \* the subject in the URL or in the filter fields
    rev,        \* the revision of the database
    shown,      \* the rows of each mounted view: what they are about, and how old
    error,      \* the mounted component shows its error in place of its views
    flight,     \* requests on their way, with the revision when they were sent
    typing,     \* views whose pause in typing is not over
    budget      \* what is left of the bounds

vars == <<comp, sel, rev, shown, error, flight, typing, budget>>

Mounted == DOMAIN shown

Ask(v, s) == [view |-> v, of |-> IF View[v].keyed THEN s ELSE Any, sent |-> rev]

\* What the effects of these views do when they run for subject s.
Asking(vs, s) == {Ask(v, s) : v \in {u \in vs : View[u].keyed => s # None}}

Room(v) == Cardinality({q \in flight : q.view = v}) < MaxFlight

Init ==
    /\ comp = None
    /\ sel = None
    /\ rev = 0
    /\ shown = [v \in {} |-> None]
    /\ error = FALSE
    /\ flight = {}
    /\ typing = {}
    /\ budget = [visits |-> MaxVisits, selects |-> MaxSelects, fails |-> MaxFails,
                 changes |-> MaxChanges, acts |-> MaxActs]

\* The router renders another page: the effects of a first render.
Mount(c, s) ==
    /\ comp = None
    /\ budget.visits > 0
    /\ comp' = c
    /\ sel' = s
    /\ shown' = [v \in ViewsOf[c] |-> None]
    /\ flight' = Asking({v \in ViewsOf[c] : ~View[v].wait}, s)
    /\ typing' = {v \in ViewsOf[c] : View[v].wait}
    /\ budget' = [budget EXCEPT !.visits = @ - 1]
    /\ UNCHANGED <<rev, error>>

\* Mutant of Unmount: the pause in typing is not cancelled.
MutantUnmount ==
    /\ comp # None
    /\ comp' = None
    /\ sel' = None
    /\ shown' = [v \in {} |-> None]
    /\ error' = FALSE
    /\ flight' = {}
    /\ UNCHANGED <<rev, typing, budget>>

\* Nothing of a component outlives it: its timers are cleared and its late
\* answers, discarded or not, have nobody to tell.
Unmount ==
    /\ comp # None
    /\ comp' = None
    /\ sel' = None
    /\ shown' = [v \in {} |-> None]
    /\ error' = FALSE
    /\ flight' = {}
    /\ typing' = {}
    /\ UNCHANGED <<rev, budget>>

\* Another subject: the clean-up of every effect that depends on it, and the
\* effect again.
Choose(s) ==
    LET vs == {v \in Mounted : View[v].keyed}
    IN  /\ sel' = s
        /\ shown' = [v \in Mounted |-> IF v \in vs /\ View[v].clears THEN None ELSE shown[v]]
        /\ flight' = {q \in flight : q.view \in vs => ~View[q.view].drops}
                     \cup Asking({v \in vs : ~View[v].wait}, s)
        /\ typing' = typing \cup {v \in vs : View[v].wait}
        /\ UNCHANGED <<comp, rev, error>>

Select(s) ==
    /\ budget.selects > 0
    /\ \E v \in Mounted : View[v].keyed
    /\ s # sel
    /\ \A v \in Mounted : View[v].keyed => View[v].drops \/ Room(v)
    /\ Choose(s)
    /\ budget' = [budget EXCEPT !.selects = @ - 1]

\* The switches page goes to a switch of the fleet when the URL names none.
SelectFirst(s) ==
    /\ comp = "switches"
    /\ sel = None
    /\ shown["fleet"] # None
    /\ Choose(s)
    /\ UNCHANGED budget

Typed(v) ==
    /\ v \in typing
    /\ Room(v)
    /\ flight' = flight \cup Asking({v}, sel)
    /\ typing' = typing \ {v}
    /\ UNCHANGED <<comp, sel, rev, shown, error, budget>>

Poll(v) ==
    /\ View[v].polls
    /\ Room(v)
    /\ flight' = flight \cup Asking({v}, sel)
    /\ UNCHANGED <<comp, sel, rev, shown, error, typing, budget>>

\* The server read the database at some time since the request was sent.
Answer(q) ==
    /\ q \in flight
    /\ \E r \in q.sent..rev : shown' = [shown EXCEPT ![q.view] = [of |-> q.of, at |-> r]]
    /\ error' = (error /\ ~View[q.view].heals)
    /\ flight' = flight \ {q}
    /\ UNCHANGED <<comp, sel, rev, typing, budget>>

Fail(q) ==
    /\ q \in flight
    /\ budget.fails > 0
    /\ shown' = IF View[q.view].onError = "blank" THEN [shown EXCEPT ![q.view] = Blank]
                                                  ELSE shown
    /\ error' = (error \/ View[q.view].onError = "page")
    /\ flight' = flight \ {q}
    /\ budget' = [budget EXCEPT !.fails = @ - 1]
    /\ UNCHANGED <<comp, sel, rev, typing>>

\* A collector or the poller writes what the views read.
Change ==
    /\ budget.changes > 0
    /\ rev' = rev + 1
    /\ budget' = [budget EXCEPT !.changes = @ - 1]
    /\ UNCHANGED <<comp, sel, shown, error, flight, typing>>

\* An action on one of the rows has been answered: the page loads again.
Act(v) ==
    /\ View[v].acts
    /\ shown[v] \notin {None, Blank}
    /\ budget.acts > 0
    /\ ~error
    /\ \A u \in Mounted : Room(u)
    /\ rev' = rev + 1
    /\ flight' = flight \cup {[q EXCEPT !.sent = rev + 1] : q \in Asking(Mounted, sel)}
    /\ budget' = [budget EXCEPT !.acts = @ - 1]
    /\ UNCHANGED <<comp, sel, shown, error, typing>>

\* The Problems page shows a refused action as the error of the page.
ActFails ==
    /\ comp = "problems"
    /\ ~error
    /\ budget.fails > 0
    /\ error' = TRUE
    /\ budget' = [budget EXCEPT !.fails = @ - 1]
    /\ UNCHANGED <<comp, sel, rev, shown, flight, typing>>

Next ==
    \/ \E c \in Comps, s \in Subjects \cup {None} : Mount(c, s)
    \/ Unmount
    \/ \E s \in Subjects : Select(s) \/ SelectFirst(s)
    \/ \E v \in Mounted : Typed(v) \/ Poll(v) \/ Act(v)
    \/ \E q \in flight : Answer(q) \/ Fail(q)
    \/ Change \/ ActFails

Spec == Init /\ [][Next]_vars

\* The views that are the second of their component.
Beside == {"switchData", "cameras", "cameraAlerts", "surveillanceLists", "extensions"}

\* The browser's timers run on and requests are answered or time out.
Fairness ==
    /\ \A vs \in {Beside, Names \ Beside} :
           /\ WF_vars(\E v \in vs \cap Mounted : Poll(v))
           /\ WF_vars(\E q \in flight : q.view \in vs /\ Answer(q))
    /\ WF_vars(\E v \in Mounted : Typed(v))
    /\ WF_vars(\E s \in Subjects : SelectFirst(s))

LiveSpec == Spec /\ Fairness

-----------------------------------------------------------------------------
(* Properties *)

Rows == [of : Subjects \cup {Any}, at : Nat]

TypeOK ==
    /\ comp \in Comps \cup {None}
    /\ sel \in Subjects \cup {None}
    /\ rev \in Nat
    /\ shown \in [IF comp = None THEN {} ELSE ViewsOf[comp] -> Rows \cup {None, Blank}]
    /\ error \in BOOLEAN
    /\ flight \subseteq [view : Mounted, of : Subjects \cup {Any}, sent : 0..rev]
    /\ typing \subseteq Mounted
    /\ budget \in [visits : 0..MaxVisits, selects : 0..MaxSelects, fails : 0..MaxFails,
                   changes : 0..MaxChanges, acts : 0..MaxActs]

\* The panels that write to a device or describe one show that device and no
\* other, whatever answers for an earlier selection are still on their way (the
\* "let live = true" of their effects).
ShowsSelected ==
    \A v \in {"switchData", "portDetail", "camera", "cameraAlerts", "snapshot"} \cap Mounted :
        shown[v] \in {None, Blank} \/ shown[v].of = sel

\* A page whose every good answer takes its error away does not stay on the
\* error of one failed request (setError(null) in their loads).
Healing == {"switches", "portDetail", "wireless", "cameras", "surveillance", "events",
            "problems", "netmon-status", "xiq", "voip", "nac"}

HealsAfterFailure == error /\ comp \in Healing ~> ~error

Current(v) == shown[v] = [of |-> IF View[v].keyed THEN sel ELSE Any, at |-> rev]

Polled == {"fleet", "switchData", "portDetail", "aps", "cameraGroups", "cameras", "camera",
           "cameraAlerts", "surveillance", "surveillanceLists", "global", "events",
           "problems", "status", "xiq", "voip", "nac", "history", "nav"}

\* Those without a timer that discard late answers have one chance.
Settling == {"ap", "snapshot", "palette"}

\* Once the database and the operator are quiet, every view with a timer shows
\* the selected subject as it is, though its answers may overtake each other and
\* some come from an earlier filter (the events page does not discard them); and
\* a view with one chance ends up with the rows of the subject selected last, empty,
\* or behind the page's error.
CatchesUp ==
    <>[](/\ \A v \in Polled \cap Mounted : (View[v].keyed => sel # None) => Current(v)
         /\ \A v \in Settling \cap Mounted :
                sel # None => \/ error \/ shown[v] = Blank
                              \/ shown[v] # None /\ shown[v].of = sel)
=============================================================================
