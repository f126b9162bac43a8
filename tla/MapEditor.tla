----------------------------- MODULE MapEditor -----------------------------
(***************************************************************************)
(* The site map of the web interface and its editor                        *)
(* (frontend/src/pages/map.jsx), against the registry it edits.            *)
(*                                                                         *)
(* The page is one thread of callbacks, but every request is an await: the *)
(* operator goes on clicking while answers are under way, and they come in *)
(* any order.  React's effects run after the state change that triggers    *)
(* them and before the next callback, so an action is a callback with its  *)
(* effects.                                                                *)
(*                                                                         *)
(* The map is fetched with one request for the sites and one for the links *)
(* (and one for the event feed, left out): the two are answered at         *)
(* different moments, so a link may be listed without one of its ends.     *)
(*                                                                         *)
(* Abstracted: geometry.  A path is the link it was drawn for and a        *)
(* version, the sites' positions are one version, the two ends of a link   *)
(* are enabled sites or not, and a field of the details form is the link   *)
(* whose row, or whose panel, it comes from.                               *)
(***************************************************************************)
EXTENDS Integers, FiniteSets

CONSTANTS Links,       \* ids of fiber links, used or free
          Initial,     \* the links there are at first
          Bare,        \* those the first answer lists without one of their ends
          None,        \* no link
          Blank,       \* ports: none attached
          Asked,       \* a fetch nothing has been read for yet
          MaxPolls, MaxRefetches, MaxWrites,     \* requests in flight
          MaxEdits, MaxChanges, MaxToggles       \* of a behaviour

BoundAssumption ==
    /\ MaxPolls \in Nat /\ MaxRefetches \in Nat /\ MaxWrites \in Nat
    /\ MaxEdits \in Nat /\ MaxChanges \in Nat /\ MaxToggles \in Nat

VARIABLES
    srv,        \* the registry: links, their paths, kinds and ports; which have
                \* enabled sites at both ends; positions
    data,       \* state data: what the page shows
    mode,       \* states edit, editLink, linkAdd, pendingA
    form,       \* state linkForm
    prime,      \* the fetch that primes the form, and the link it is for
    work,       \* editRef's workPath and workPathLinkId
    drawn,      \* the line each link is drawn with, if any
    polls, refetches,     \* fetches of the map under way
    writes,     \* requests of the editor under way
    budget

vars == <<srv, data, mode, form, prime, work, drawn, polls, refetches, writes, budget>>

\* stray is history: saved from a panel whose link had no line on the map.
Path == [of : Links, ver : 0..MaxEdits, stray : BOOLEAN]
Origins == Links \cup {Blank}
Fields == [kind : Origins, ports : Origins]
NoForm == [of |-> None, kind |-> None, ports |-> None]
EmptyForm == [of |-> None, kind |-> Blank, ports |-> Blank]
Filled == IF form = NoForm THEN EmptyForm ELSE form
NoWork == None

Row(l) == [of |-> l, ver |-> 0, stray |-> FALSE]

\* /api/links lists the links whose two sites are enabled, /api/sites those sites.
Snapshot == [links |-> srv.links \cap srv.sited, path |-> srv.path,
             sited |-> srv.sited, pos |-> srv.pos]

Snapshots == [links : SUBSET Links, path : [Links -> Path], sited : SUBSET Links,
              pos : 0..MaxChanges]

\* The sites of one moment with the links of another.
Torn(s, l) == [links |-> l.links, path |-> l.path, sited |-> s.sited, pos |-> s.pos]

\* A fetch one of whose requests has been read for: which of the two it was is
\* decided with the other one.
Halves == [first : Snapshots]

RestRead(h) == {Torn(h.first, Snapshot), Torn(Snapshot, h.first)}

LinkAssumption ==
    /\ Initial \subseteq Links
    /\ Bare \subseteq Links
    /\ None \notin Links
    /\ Blank \notin Links \cup {None}
    /\ None \notin Path \cup [of : Links, path : Path]
    /\ Asked \notin Snapshots \cup Halves

Editing == mode.edit

\* The panel of a link is rendered, with its buttons, only for a link in the data.
OpenIs(l) == Editing /\ mode.link = l
PanelOf(l) == OpenIs(l) /\ l \in data.links

\* Without one the panel is the list of links.
ListShown == Editing /\ mode.link \notin data.links

\* A link has a line, and handles when it is open, only with both its ends.
Shown(l, d) == l \in d.links \cap d.sited

Handles(l) == OpenIs(l) /\ Shown(l, data)

\* A first answer is shown; its sites were read before those of Bare were enabled.
Init ==
    /\ srv = [links |-> Initial, path |-> [l \in Links |-> Row(l)], sited |-> Links, pos |-> 0,
              rows |-> [l \in Links |-> [kind |-> l, ports |-> l]]]
    /\ data = [Snapshot EXCEPT !.sited = @ \ Bare]
    /\ mode = [edit |-> FALSE, link |-> None, add |-> FALSE, first |-> FALSE]
    /\ form = NoForm
    /\ prime = [link |-> None, state |-> "none"]
    /\ work = NoWork
    /\ drawn = [l \in Links |-> IF Shown(l, data) THEN Row(l) ELSE None]
    /\ polls = {Asked}
    /\ refetches = {}
    /\ writes = {}
    /\ budget = [edits |-> MaxEdits, changes |-> MaxChanges, toggles |-> MaxToggles]

-----------------------------------------------------------------------------
(* Effects *)

\* Mutant of WorkAfter: without workPathLinkId, a path once taken is kept.
MutantWorkAfterAnyLink(m, d) ==
    IF ~m.edit THEN NoWork
    ELSE IF Shown(m.link, d) /\ work = NoWork
         THEN [of |-> m.link, path |-> d.path[m.link]]
         ELSE work

\* Mutant of WorkAfter: every run of the effect takes the saved path afresh.
MutantWorkAfterEveryRun(m, d) ==
    IF m.edit /\ Shown(m.link, d)
    THEN [of |-> m.link, path |-> d.path[m.link]]
    ELSE IF m.edit THEN work ELSE NoWork

\* The edit-handle effect: the working path is taken from the saved one when the
\* open link has both its ends and is not the one it belongs to, and dropped when
\* editing ends.
WorkAfter(m, d) ==
    IF ~m.edit THEN NoWork
    ELSE IF Shown(m.link, d) /\ (work = NoWork \/ work.of # m.link)
         THEN [of |-> m.link, path |-> d.path[m.link]]
         ELSE work

\* Mutant of Redraw: the edited line is redrawn with the rest.
MutantRedrawAll(m, d, old) ==
    [l \in Links |-> IF Shown(l, d) THEN d.path[l] ELSE None]

\* The layer effect redraws every line from the data, but not the edited one
\* if it is there, and takes away the lines of links that have lost an end.
Redraw(m, d, old) ==
    [l \in Links |-> IF ~Shown(l, d) THEN None
                     ELSE IF m.edit /\ m.link = l /\ old[l] # None THEN old[l]
                     ELSE d.path[l]]

\* The handles of the open link draw its working path.
DrawWork(m, d, w, old) ==
    IF m.edit /\ Shown(m.link, d) THEN [old EXCEPT ![m.link] = w.path] ELSE old

\* A change of the data runs both, in this order.
ShowData(d) ==
    /\ data' = d
    /\ work' = WorkAfter(mode, d)
    /\ drawn' = DrawWork(mode, d, work', Redraw(mode, d, drawn))

\* Mutant of ChangeMode: the answer for the link left behind is still applied.
MutantChangeMode(m) ==
    /\ mode' = m
    /\ work' = WorkAfter(m, data)
    /\ drawn' = DrawWork(m, data, work', drawn)
    /\ IF m.edit /\ m.link # None /\ prime.state # "loading"
       THEN prime' = [link |-> m.link, state |-> "loading"] /\ UNCHANGED form
       ELSE UNCHANGED <<form, prime>>

\* A change of editing or of the open link primes the form, or clears it when no
\* link is open; what was under way for another link is not applied any more.
ChangeMode(m) ==
    /\ mode' = m
    /\ work' = WorkAfter(m, data)
    /\ drawn' = DrawWork(m, data, work', drawn)
    /\ IF m.edit = mode.edit /\ m.link = mode.link
       THEN UNCHANGED <<form, prime>>
       ELSE IF m.edit /\ m.link # None
            THEN prime' = [link |-> m.link, state |-> "loading"] /\ UNCHANGED form
            ELSE prime' = [link |-> None, state |-> "none"] /\ form' = NoForm

-----------------------------------------------------------------------------
(* Fetching the map *)

\* Mutant of StartPoll: the effect runs once, the timer does not come back.
MutantStartPoll ==
    /\ ~Editing
    /\ budget.toggles = MaxToggles
    /\ Cardinality(polls) < MaxPolls
    /\ polls' = polls \cup {Asked}
    /\ UNCHANGED <<srv, data, mode, form, prime, work, drawn, refetches, writes, budget>>

StartPoll ==
    /\ ~Editing
    /\ Cardinality(polls) < MaxPolls
    /\ polls' = polls \cup {Asked}
    /\ UNCHANGED <<srv, data, mode, form, prime, work, drawn, refetches, writes, budget>>

\* The first of the two requests is read for ...
PollRead ==
    /\ Asked \in polls
    /\ polls' = (polls \ {Asked}) \cup {[first |-> Snapshot]}
    /\ UNCHANGED <<srv, data, mode, form, prime, work, drawn, refetches, writes, budget>>

\* ... and the second.
PollReadRest ==
    \E h \in polls \cap Halves : \E s \in RestRead(h) :
        /\ polls' = (polls \ {h}) \cup {s}
        /\ UNCHANGED <<srv, data, mode, form, prime, work, drawn, refetches, writes, budget>>

PollArrives ==
    \E s \in polls \cap Snapshots :
        /\ polls' = polls \ {s}
        /\ ShowData(s)
        /\ UNCHANGED <<srv, mode, form, prime, refetches, writes, budget>>

\* The last good data stay.
PollFails ==
    \E p \in polls :
        /\ polls' = polls \ {p}
        /\ UNCHANGED <<srv, data, mode, form, prime, work, drawn, refetches, writes, budget>>

Refetch == refetches' = IF Cardinality(refetches) < MaxRefetches
                        THEN refetches \cup {Asked} ELSE refetches

RefetchRead ==
    /\ Asked \in refetches
    /\ refetches' = (refetches \ {Asked}) \cup {[first |-> Snapshot]}
    /\ UNCHANGED <<srv, data, mode, form, prime, work, drawn, polls, writes, budget>>

RefetchReadRest ==
    \E h \in refetches \cap Halves : \E s \in RestRead(h) :
        /\ refetches' = (refetches \ {h}) \cup {s}
        /\ UNCHANGED <<srv, data, mode, form, prime, work, drawn, polls, writes, budget>>

\* refetch has no guard: its answer is shown whatever the mode is by then.
RefetchArrives ==
    \E s \in refetches \cap Snapshots :
        /\ refetches' = refetches \ {s}
        /\ ShowData(s)
        /\ UNCHANGED <<srv, mode, form, prime, polls, writes, budget>>

RefetchFails ==
    \E p \in refetches :
        /\ refetches' = refetches \ {p}
        /\ UNCHANGED <<srv, data, mode, form, prime, work, drawn, polls, writes, budget>>

-----------------------------------------------------------------------------
(* Moving about in the editor *)

\* The poll effect is torn down: what it still waits for is ignored.
EnterEdit ==
    /\ ~Editing
    /\ budget.toggles > 0
    /\ polls' = {}
    /\ ChangeMode([mode EXCEPT !.edit = TRUE])
    /\ budget' = [budget EXCEPT !.toggles = @ - 1]
    /\ UNCHANGED <<srv, data, refetches, writes>>

\* ... and set up again, loading at once.
ExitEdit ==
    /\ Editing
    /\ polls' = {Asked}
    /\ ChangeMode([edit |-> FALSE, link |-> None, add |-> FALSE, first |-> FALSE])
    /\ UNCHANGED <<srv, data, refetches, writes, budget>>

\* By its button in the list, or by a click on its line unless sites are picked.
OpenLink(l) ==
    /\ Editing
    /\ \/ ListShown /\ l \in data.links
       \/ drawn[l] # None /\ ~mode.add
    /\ ChangeMode([mode EXCEPT !.link = l])
    /\ UNCHANGED <<srv, data, polls, refetches, writes, budget>>

CancelLink(l) ==
    /\ PanelOf(l)
    /\ ChangeMode([mode EXCEPT !.link = None])
    /\ Refetch
    /\ UNCHANGED <<srv, data, polls, writes, budget>>

ToggleAdd ==
    /\ ListShown
    /\ ChangeMode([mode EXCEPT !.add = ~@, !.first = FALSE])
    /\ UNCHANGED <<srv, data, polls, refetches, writes, budget>>

\* A selected site or another theme runs the layer effect, and no other.
Restyle ==
    /\ drawn' = Redraw(mode, data, drawn)
    /\ UNCHANGED <<srv, data, mode, form, prime, work, polls, refetches, writes, budget>>

DragWaypoint(l) ==
    /\ Handles(l)
    /\ budget.edits > 0
    /\ work' = [work EXCEPT !.path = [of |-> l, ver |-> MaxEdits - budget.edits + 1,
                                      stray |-> FALSE]]
    /\ drawn' = DrawWork(mode, data, work', drawn)
    /\ budget' = [budget EXCEPT !.edits = @ - 1]
    /\ UNCHANGED <<srv, data, mode, form, prime, polls, refetches, writes>>

\* An input of the panel writes one field into the form, even into an empty one.
EditField(l, field) ==
    /\ PanelOf(l)
    /\ budget.edits > 0
    /\ form' = [Filled EXCEPT ![field] = l]
    /\ budget' = [budget EXCEPT !.edits = @ - 1]
    /\ UNCHANGED <<srv, data, mode, prime, work, drawn, polls, refetches, writes>>

-----------------------------------------------------------------------------
(* Priming the form *)

PrimeArrives ==
    /\ prime.state = "loading"
    /\ prime.link \in srv.links
    /\ form' = [of    |-> prime.link,
                kind  |-> srv.rows[prime.link].kind,
                ports |-> srv.rows[prime.link].ports]
    /\ prime' = [prime EXCEPT !.state = "applied"]
    /\ UNCHANGED <<srv, data, mode, work, drawn, polls, refetches, writes, budget>>

\* The rows could not be fetched, or the link is not among them: the form stays.
PrimeFails ==
    /\ prime.state = "loading"
    /\ prime' = [prime EXCEPT !.state = "failed"]
    /\ UNCHANGED <<srv, data, mode, form, work, drawn, polls, refetches, writes, budget>>

-----------------------------------------------------------------------------
(* Requests of the editor *)

Request(what, l, body) == [what |-> what, link |-> l, body |-> body, state |-> "sent"]

OneChange ==
    /\ budget.changes > 0
    /\ budget' = [budget EXCEPT !.changes = @ - 1]

NewPosition == MaxChanges - budget.changes + 1

Submit(what, l, body) ==
    /\ OneChange
    /\ Cardinality(writes) < MaxWrites
    /\ writes' = writes \cup {Request(what, l, body)}

SubmitFromPanel(what, l, body) ==
    /\ PanelOf(l)
    /\ Submit(what, l, body)
    /\ UNCHANGED <<srv, data, mode, form, prime, work, drawn, polls, refetches>>

\* The button sends the working path, whatever link that was taken for.
SavePath(l) ==
    /\ work # NoWork
    /\ SubmitFromPanel("path", l, [work.path EXCEPT !.stray = @ \/ ~Shown(l, data)])

RemoveLink(l) == SubmitFromPanel("delete", l, None)

SaveDetails(l) == form # NoForm /\ SubmitFromPanel("kind", l, form.kind)

SavePorts(l) == form # NoForm /\ SubmitFromPanel("ports", l, form.ports)

DetachPorts(l) == SubmitFromPanel("detach", l, Blank)

\* The first site is only noted; the second one asks for the link.  Until the
\* answer the page is still picking, with the first site noted.
PickFirst ==
    /\ mode.add
    /\ ~mode.first
    /\ ChangeMode([mode EXCEPT !.first = TRUE])
    /\ UNCHANGED <<srv, data, polls, refetches, writes, budget>>

PickSecond ==
    /\ mode.add
    /\ mode.first
    /\ Submit("create", None, None)
    /\ UNCHANGED <<srv, data, mode, form, prime, work, drawn, polls, refetches>>

\* Sites have draggable handles while no link is open and none is being added.
DragSite ==
    /\ Editing
    /\ mode.link = None
    /\ ~mode.add
    /\ Submit("move", None, NewPosition)
    /\ UNCHANGED <<srv, data, mode, form, prime, work, drawn, polls, refetches>>

\* The registry carries out a request: a link that is gone refuses it.
Apply(w) ==
    /\ w.state = "sent"
    /\ w.link # None => w.link \in srv.links
    /\ CASE w.what = "path"   -> srv' = [srv EXCEPT !.path[w.link] = w.body]
         [] w.what = "delete" -> srv' = [srv EXCEPT !.links = @ \ {w.link}]
         [] w.what = "kind"   -> srv' = [srv EXCEPT !.rows[w.link].kind =
                                            IF w.body = Blank THEN @ ELSE w.body]
         [] w.what \in {"ports", "detach"} ->
                                 srv' = [srv EXCEPT !.rows[w.link].ports = w.body]
         [] w.what = "move"   -> srv' = [srv EXCEPT !.pos = w.body]
         [] w.what = "create" -> \E l \in Links \ srv.links :
                                    srv' = [srv EXCEPT !.links = @ \cup {l},
                                                       !.path[l] = Row(l),
                                                       !.rows[l] = [kind |-> l, ports |-> l]]
    /\ writes' = (writes \ {w}) \cup {[w EXCEPT !.state = "ok"]}
    /\ UNCHANGED <<data, mode, form, prime, work, drawn, polls, refetches, budget>>

Answered(w) == writes' = writes \ {w}

\* A saved path or a deleted link closes the link that is open by now.
LinkClosed(w) ==
    /\ w.state = "ok"
    /\ w.what \in {"path", "delete"}
    /\ Answered(w)
    /\ ChangeMode([mode EXCEPT !.link = None])
    /\ Refetch
    /\ UNCHANGED <<srv, data, polls, budget>>

DetailsSaved(w) ==
    /\ w.state = "ok"
    /\ w.what \in {"kind", "ports"}
    /\ Answered(w)
    /\ Refetch
    /\ UNCHANGED <<srv, data, mode, form, prime, work, drawn, polls, budget>>

\* The ports are blanked in the form that is there by now.
PortsDetached(w) ==
    /\ w.state = "ok"
    /\ w.what = "detach"
    /\ Answered(w)
    /\ form' = [Filled EXCEPT !.ports = Blank]
    /\ Refetch
    /\ UNCHANGED <<srv, data, mode, prime, work, drawn, polls, budget>>

SiteMoved(w) ==
    /\ w.state = "ok"
    /\ w.what = "move"
    /\ Answered(w)
    /\ ShowData([data EXCEPT !.pos = w.body])
    /\ UNCHANGED <<srv, mode, form, prime, polls, refetches, budget>>

\* Created or not, picking is over.
LinkCreated(w) ==
    /\ w.what = "create"
    /\ Answered(w)
    /\ ChangeMode([mode EXCEPT !.add = FALSE, !.first = FALSE])
    /\ Refetch
    /\ UNCHANGED <<srv, data, polls, budget>>

\* Refused, or lost before or after the registry had it.
WriteFails(w) ==
    /\ w.what # "create"
    /\ Answered(w)
    /\ IF w.what = "move" THEN Refetch ELSE UNCHANGED refetches
    /\ UNCHANGED <<srv, data, mode, form, prime, work, drawn, polls, budget>>

\* Another administrator deletes a link, moves a site, or disables or enables some.
OtherAdmin ==
    /\ OneChange
    /\ \/ \E l \in srv.links : srv' = [srv EXCEPT !.links = @ \ {l}]
       \/ srv' = [srv EXCEPT !.pos = NewPosition]
       \/ \E l \in Links, enabled \in BOOLEAN :
            srv' = [srv EXCEPT !.sited = IF enabled THEN @ \cup {l} ELSE @ \ {l}]
    /\ UNCHANGED <<data, mode, form, prime, work, drawn, polls, refetches, writes>>

-----------------------------------------------------------------------------

Fetches ==
    \/ StartPoll \/ PollRead \/ PollReadRest \/ PollArrives \/ PollFails
    \/ RefetchRead \/ RefetchReadRest \/ RefetchArrives \/ RefetchFails
    \/ PrimeArrives \/ PrimeFails

Clicks ==
    \/ EnterEdit \/ ExitEdit \/ ToggleAdd \/ Restyle
    \/ PickFirst \/ PickSecond \/ DragSite
    \/ \E l \in Links :
        \/ OpenLink(l) \/ CancelLink(l) \/ DragWaypoint(l)
        \/ \E field \in {"kind", "ports"} : EditField(l, field)
        \/ SavePath(l) \/ RemoveLink(l) \/ SaveDetails(l) \/ SavePorts(l) \/ DetachPorts(l)

Answers ==
    \E w \in writes :
        \/ Apply(w) \/ LinkClosed(w) \/ DetailsSaved(w) \/ PortsDetached(w)
        \/ SiteMoved(w) \/ LinkCreated(w) \/ WriteFails(w)

Next == Fetches \/ Clicks \/ Answers \/ OtherAdmin

Spec == Init /\ [][Next]_vars

\* The timer goes on, and polls do not fail for ever: again and again one is
\* answered, and its answer shown.
LiveSpec ==
    /\ Spec
    /\ WF_vars(StartPoll)
    /\ SF_vars(PollRead) /\ SF_vars(PollReadRest) /\ SF_vars(PollArrives)

-----------------------------------------------------------------------------
(* Properties *)

\* The open link is the one the working path was taken for.
WorksOn(l) == OpenIs(l) /\ work # NoWork /\ work.of = l

TypeOK ==
    /\ srv \in [links : SUBSET Links, path : [Links -> Path], rows : [Links -> Fields],
                sited : SUBSET Links, pos : 0..MaxChanges]
    /\ data \in Snapshots
    /\ mode \in [edit : BOOLEAN, link : Links \cup {None}, add : BOOLEAN, first : BOOLEAN]
    /\ form \in [of : Links \cup {None}, kind : Origins, ports : Origins] \cup {NoForm}
    /\ prime \in [link : Links \cup {None}, state : {"none", "loading", "applied", "failed"}]
    /\ work \in [of : Links, path : Path] \cup {NoWork}
    /\ drawn \in [Links -> Path \cup {None}]
    /\ polls \cup refetches \subseteq Snapshots \cup Halves \cup {Asked}
    /\ \A w \in writes : w.what \in {"path", "delete", "kind", "ports", "detach", "move", "create"}
    /\ ~Editing => mode.link = None /\ ~mode.add /\ work = NoWork
    /\ Editing => polls = {}

\* The path saved for a link was drawn for that link, however the operator went
\* from link to link and whatever arrived meanwhile (workPathLinkId) - unless it
\* was saved while the page had no line for the link, because an answer listed it
\* without one of its ends: the panel then still holds the path of another link.
PathsStayHome == \A l \in Links : srv.path[l].of = l \/ srv.path[l].stray

\* Once an answer is in, the form was filled from the row of the link whose
\* panel is open: an answer for a link left meanwhile is not applied.
FormIsOwnOnceLoaded ==
    prime.state = "applied" => form.of = mode.link

\* While a link is open its line, if it has one, is drawn with the path being worked
\* on: no refresh, selection or change of theme snaps it back to the saved one.
EditedLineIsDrawn ==
    \A l \in Links : Handles(l) => drawn[l] = work.path

\* Whatever arrives while a link is open, be it that the link or one of its ends is
\* missing from it, the waypoints dragged so far are kept: the path worked on for
\* the open link changes only when the operator drags.
PathEditsSurvive ==
    [][\A l \in Links : WorksOn(l) /\ OpenIs(l)' /\ work'.path # work.path =>
            budget'.edits < budget.edits]_vars

\* When editing is over the map comes to show the registry, whatever the edits
\* left on the screen and whatever old answers arrive late.
MapConverges == <>[](~Editing) => <>[](data = Snapshot)
=============================================================================
