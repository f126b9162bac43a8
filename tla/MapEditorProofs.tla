--------------------------- MODULE MapEditorProofs ---------------------------
(***************************************************************************)
(* Theorems about the map editor, for any links, any number of requests in *)
(* flight and any number of edits.                                         *)
(*                                                                         *)
(* The invariant follows a path on its way round: from the registry to a   *)
(* fetched map, to the working path of the open link, to a request, and    *)
(* back to the registry.  EditInv is what workPathLinkId is for, FormInv   *)
(* what the discarding of late answers is for.                             *)
(***************************************************************************)
EXTENDS MapEditor, TLAPS

Values == Origins \cup {None}
Positions == 0..MaxChanges
HomePaths == {p \in [Links -> Path] : \A l \in Links : p[l].of = l \/ p[l].stray}
HomeMaps == [links : SUBSET Links, path : HomePaths, sited : SUBSET Links, pos : Positions]
Fetched == HomeMaps \cup [first : HomeMaps] \cup {Asked}
Drawings == [Links -> Path \cup {None}]
Works == {w \in [of : Links, path : Path] : w.path.of = w.of \/ w.path.stray}
Modes == [edit : BOOLEAN, link : Links \cup {None}, add : BOOLEAN, first : BOOLEAN]

Whats == {"path", "delete", "kind", "ports", "detach", "move", "create"}
Budgets == [edits : 0..MaxEdits, changes : Positions, toggles : 0..MaxToggles]

Requests == [what : Whats, link : Links \cup {None}, body : Path \cup Values \cup Positions,
             state : {"sent", "ok"}]

SrvInv ==
    /\ srv \in [links : SUBSET Links, path : HomePaths, sited : SUBSET Links, pos : Positions,
               rows : [Links -> Fields]]
    /\ budget \in Budgets

MapsInv ==
    /\ data \in HomeMaps
    /\ polls \subseteq Fetched
    /\ refetches \subseteq Fetched

\* A request for a path carries one drawn for its link.
Fits(w) ==
    /\ w.what \in {"path", "delete", "kind", "ports", "detach"} => w.link \in Links
    /\ w.what = "path" => w.body \in Path /\ (w.body.of = w.link \/ w.body.stray)
    /\ w.what \in {"kind", "ports", "detach"} => w.body \in Origins
    /\ w.what = "move" => w.body \in Positions

WritesInv == writes \subseteq Requests /\ \A w \in writes : Fits(w)

\* The working path and the drawn line are those of the link whose panel is open.
OpenIsOwn(m, d, w, lines) ==
    m.edit /\ Shown(m.link, d) =>
        /\ w \in Works
        /\ w.of = m.link
        /\ lines[m.link] = w.path

EditInv ==
    /\ mode \in Modes
    /\ work \in Works \cup {None}
    /\ drawn \in Drawings
    /\ OpenIsOwn(mode, data, work, drawn)

Forms == [of : Links \cup {None}, kind : Origins, ports : Origins] \cup {NoForm}

FormInv ==
    /\ form \in Forms
    /\ prime \in [link : Links \cup {None}, state : {"none", "loading", "applied", "failed"}]
    /\ prime.state \in {"loading", "applied"} => prime.link = mode.link
    /\ FormIsOwnOnceLoaded

IInv == SrvInv /\ MapsInv /\ WritesInv /\ EditInv /\ FormInv

-----------------------------------------------------------------------------
(* The invariant at first, and what follows from it *)

LEMMA InitInv == ASSUME LinkAssumption, BoundAssumption PROVE Init => IInv
PROOF
<1> SUFFICES ASSUME Init PROVE IInv
  OBVIOUS
<1>1. [l \in Links |-> Row(l)] \in HomePaths
  BY DEF HomePaths, Path, Row, BoundAssumption
<1>2. SrvInv
  <2>1. [l \in Links |-> [kind |-> l, ports |-> l]] \in [Links -> Fields]
    BY DEF Fields, Values, Origins
  <2>2. budget \in Budgets
    BY DEF Init, BoundAssumption, Budgets, Positions
  <2> QED
    BY <1>1, <2>1, <2>2 DEF Init, SrvInv, LinkAssumption, BoundAssumption, Positions
<1>3. MapsInv
  <2>1. srv.path \in HomePaths /\ srv.links \subseteq Links /\ srv.sited \subseteq Links
        /\ srv.pos \in Positions
    BY <1>2 DEF SrvInv
  <2>2. data \in HomeMaps
    BY <2>1 DEF Init, Snapshot, HomeMaps
  <2> QED
    BY <2>2 DEF Init, MapsInv, Fetched
<1>4. WritesInv
  BY DEF Init, WritesInv
<1>5. EditInv
  <2>1. drawn \in Drawings
    BY <1>1 DEF Init, Drawings, HomePaths
  <2> QED
    BY <2>1 DEF Init, EditInv, Modes, NoWork, OpenIsOwn
<1>6. FormInv
  BY DEF Init, FormInv, Forms, NoForm, Values, FormIsOwnOnceLoaded
<1> QED
  BY <1>2, <1>3, <1>4, <1>5, <1>6 DEF IInv

\* A position or a version is numbered from what is left of its budget.
LEMMA Spending ==
    ASSUME BoundAssumption, budget \in Budgets
    PROVE  /\ budget.edits > 0 => /\ [budget EXCEPT !.edits = @ - 1] \in Budgets
                                  /\ MaxEdits - budget.edits + 1 \in 0..MaxEdits
           /\ budget.changes > 0 => /\ [budget EXCEPT !.changes = @ - 1] \in Budgets
                                    /\ NewPosition \in Positions
           /\ budget.toggles > 0 => [budget EXCEPT !.toggles = @ - 1] \in Budgets
BY DEF BoundAssumption, Budgets, Positions, NewPosition

LEMMA SnapshotIsHome == ASSUME SrvInv PROVE Snapshot \in HomeMaps
BY DEF SrvInv, Snapshot, HomeMaps

\* What is being fetched is told apart by its form, and the second half of an
\* answer fits the first one.
LEMMA FetchedIsHome ==
    ASSUME LinkAssumption, SrvInv, NEW f \in Fetched
    PROVE  /\ f \in Snapshots => f \in HomeMaps
           /\ f \in Halves => RestRead(f) \subseteq HomeMaps
PROOF
<1>1. ASSUME NEW a, a \in Snapshots PROVE a \notin Halves
  <2>1. DOMAIN a = {"links", "path", "sited", "pos"}
    BY <1>1 DEF Snapshots
  <2>2. a \in Halves => DOMAIN a = {"first"}
    BY DEF Halves
  <2> QED
    BY <2>1, <2>2
<1>2. HomeMaps \subseteq Snapshots
  BY DEF HomeMaps, HomePaths, Snapshots, Positions
<1>3. [first : HomeMaps] \subseteq Halves
  BY <1>2 DEF Halves
<1>4. ASSUME f \in Snapshots PROVE f \in HomeMaps
  BY <1>1, <1>3, <1>4 DEF LinkAssumption, Fetched
<1>5. ASSUME f \in Halves PROVE RestRead(f) \subseteq HomeMaps
  <2>1. f.first \in HomeMaps
    BY <1>1, <1>2, <1>5 DEF LinkAssumption, Fetched
  <2>2. Snapshot \in HomeMaps
    BY SnapshotIsHome
  <2> QED
    BY <2>1, <2>2 DEF RestRead, Torn, HomeMaps
<1> QED
  BY <1>4, <1>5

-----------------------------------------------------------------------------
(* The effects *)

\* WorkAfter gives the open link its own working path, whatever there was before.
LEMMA WorkIsOwn ==
    ASSUME work \in Works \cup {None}, NEW m \in Modes, NEW d \in HomeMaps
    PROVE  /\ WorkAfter(m, d) \in Works \cup {None}
           /\ m.edit /\ Shown(m.link, d) =>
                 WorkAfter(m, d) \in Works /\ WorkAfter(m, d).of = m.link
PROOF
<1>1. ASSUME Shown(m.link, d)
      PROVE  [of |-> m.link, path |-> d.path[m.link]] \in Works
  <2>1. m.link \in Links /\ d.path \in HomePaths
    BY <1>1 DEF HomeMaps, Shown
  <2>2. d.path[m.link] \in Path /\ (d.path[m.link].of = m.link \/ d.path[m.link].stray)
    BY <2>1 DEF HomePaths
  <2> QED
    BY <2>1, <2>2 DEF Works
<1>2. CASE ~m.edit
  BY <1>2 DEF WorkAfter, NoWork
<1>3. CASE m.edit /\ Shown(m.link, d) /\ (work = NoWork \/ work.of # m.link)
  BY <1>1, <1>3 DEF WorkAfter
<1>4. CASE m.edit /\ ~(Shown(m.link, d) /\ (work = NoWork \/ work.of # m.link))
  BY <1>4 DEF WorkAfter, NoWork
<1> QED
  BY <1>2, <1>3, <1>4

\* The handles draw that path over whatever the line was.
LEMMA DrawIsOwn ==
    ASSUME NEW m \in Modes, NEW d \in HomeMaps, NEW w,
           m.edit /\ Shown(m.link, d) => w \in Works /\ w.of = m.link,
           NEW old \in Drawings
    PROVE  DrawWork(m, d, w, old) \in Drawings /\ OpenIsOwn(m, d, w, DrawWork(m, d, w, old))
PROOF
<1>1. CASE m.edit /\ Shown(m.link, d)
  <2>1. m.link \in Links /\ w.path \in Path
    BY <1>1 DEF HomeMaps, Works, Shown
  <2>2. DrawWork(m, d, w, old) = [old EXCEPT ![m.link] = w.path]
    BY <1>1 DEF DrawWork
  <2> QED
    BY <1>1, <2>1, <2>2 DEF OpenIsOwn, Drawings
<1>2. CASE ~(m.edit /\ Shown(m.link, d))
  BY <1>2 DEF DrawWork, OpenIsOwn
<1> QED
  BY <1>1, <1>2

LEMMA RedrawIsTyped ==
    ASSUME NEW m, NEW d \in HomeMaps, NEW old \in Drawings
    PROVE  Redraw(m, d, old) \in Drawings
BY DEF Redraw, HomeMaps, HomePaths, Drawings

LEMMA ShowDataKeeps ==
    ASSUME EditInv, NEW d \in HomeMaps, ShowData(d), mode' = mode
    PROVE  EditInv' /\ data' \in HomeMaps
PROOF
<1>1. mode \in Modes /\ Redraw(mode, d, drawn) \in Drawings
  BY RedrawIsTyped DEF EditInv
<1>2. /\ WorkAfter(mode, d) \in Works \cup {None}
      /\ mode.edit /\ Shown(mode.link, d) =>
            WorkAfter(mode, d) \in Works /\ WorkAfter(mode, d).of = mode.link
  BY <1>1, WorkIsOwn DEF EditInv
<1>3. data' = d /\ work' = WorkAfter(mode, d)
      /\ drawn' = DrawWork(mode, d, WorkAfter(mode, d), Redraw(mode, d, drawn))
  BY DEF ShowData
<1>4. drawn' \in Drawings /\ OpenIsOwn(mode, d, work', drawn')
  BY <1>1, <1>2, <1>3, DrawIsOwn
<1> QED
  BY <1>1, <1>2, <1>3, <1>4 DEF EditInv, OpenIsOwn

\* Whatever link is open next, the form is not taken for another's.
LEMMA ChangeModeKeeps ==
    ASSUME EditInv, FormInv, data \in HomeMaps, data' = data,
           NEW m \in Modes, ChangeMode(m)
    PROVE  EditInv' /\ FormInv'
PROOF
<1>1. /\ WorkAfter(m, data) \in Works \cup {None}
      /\ m.edit /\ Shown(m.link, data) =>
            WorkAfter(m, data) \in Works /\ WorkAfter(m, data).of = m.link
  BY WorkIsOwn DEF EditInv
<1>2. mode' = m /\ work' = WorkAfter(m, data)
      /\ drawn' = DrawWork(m, data, WorkAfter(m, data), drawn)
  BY DEF ChangeMode
<1>3. drawn' \in Drawings /\ OpenIsOwn(m, data, work', drawn')
  BY <1>1, <1>2, DrawIsOwn DEF EditInv
<1>4. EditInv'
  BY <1>1, <1>2, <1>3 DEF EditInv, OpenIsOwn
<1>5. CASE m.edit = mode.edit /\ m.link = mode.link
  BY <1>2, <1>4, <1>5 DEF ChangeMode, FormInv, FormIsOwnOnceLoaded
<1>6. CASE ~(m.edit = mode.edit /\ m.link = mode.link) /\ m.edit /\ m.link # None
  <2>1. prime' = [link |-> m.link, state |-> "loading"] /\ form' = form
    BY <1>6 DEF ChangeMode
  <2>2. m.link \in Links \cup {None}
    BY DEF Modes
  <2> QED
    BY <1>2, <1>4, <2>1, <2>2 DEF FormInv, FormIsOwnOnceLoaded
<1>7. CASE ~(m.edit = mode.edit /\ m.link = mode.link) /\ ~(m.edit /\ m.link # None)
  <2>1. prime' = [link |-> None, state |-> "none"] /\ form' = NoForm
    BY <1>7 DEF ChangeMode
  <2> QED
    BY <1>4, <2>1 DEF FormInv, FormIsOwnOnceLoaded, Forms, NoForm, Values
<1> QED
  BY <1>4, <1>5, <1>6, <1>7

-----------------------------------------------------------------------------
(* The steps *)

LEMMA FetchStep ==
    ASSUME LinkAssumption, IInv, Fetches
    PROVE  IInv'
PROOF
<1>1. Snapshot \in HomeMaps
  BY SnapshotIsHome DEF IInv
<1>2. CASE StartPoll \/ PollRead \/ PollFails \/ RefetchRead \/ RefetchFails
  <2>1. polls' \subseteq Fetched /\ refetches' \subseteq Fetched
    BY <1>1, <1>2 DEF IInv, MapsInv, Fetched, StartPoll, PollRead, PollFails, RefetchRead,
       RefetchFails
  <2>2. UNCHANGED <<srv, data, mode, form, prime, work, drawn, writes, budget>>
    BY <1>2 DEF StartPoll, PollRead, PollFails, RefetchRead, RefetchFails
  <2> QED
    BY <2>1, <2>2 DEF IInv, SrvInv, MapsInv, WritesInv, EditInv, FormInv, FormIsOwnOnceLoaded
<1>6. CASE PollReadRest \/ RefetchReadRest
  <2>1. polls' \subseteq Fetched /\ refetches' \subseteq Fetched
    BY <1>6, FetchedIsHome DEF IInv, MapsInv, Fetched, PollReadRest, RefetchReadRest
  <2>2. UNCHANGED <<srv, data, mode, form, prime, work, drawn, writes, budget>>
    BY <1>6 DEF PollReadRest, RefetchReadRest
  <2> QED
    BY <2>1, <2>2 DEF IInv, SrvInv, MapsInv, WritesInv, EditInv, FormInv, FormIsOwnOnceLoaded
<1>3. CASE PollArrives \/ RefetchArrives
  <2>1. PICK s \in HomeMaps : ShowData(s)
    BY <1>3, FetchedIsHome DEF IInv, MapsInv, PollArrives, RefetchArrives
  <2>2. UNCHANGED <<srv, mode, form, prime, writes, budget>>
        /\ polls' \subseteq polls /\ refetches' \subseteq refetches
    BY <1>3 DEF PollArrives, RefetchArrives
  <2>3. EditInv' /\ data' \in HomeMaps
    BY <2>1, <2>2, ShowDataKeeps DEF IInv
  <2> QED
    BY <2>2, <2>3 DEF IInv, SrvInv, MapsInv, WritesInv, FormInv, FormIsOwnOnceLoaded
<1>4. CASE PrimeArrives
  <2>1. UNCHANGED <<srv, data, mode, work, drawn, polls, refetches, writes, budget>>
    BY <1>4 DEF PrimeArrives
  <2>2. prime.link \in Links /\ srv.rows[prime.link] \in Fields /\ prime.link = mode.link
    BY <1>4 DEF PrimeArrives, IInv, SrvInv, FormInv
  <2>3. form' \in Forms /\ form'.of = mode.link
    BY <1>4, <2>2 DEF PrimeArrives, Forms, Fields
  <2>4. prime' = [prime EXCEPT !.state = "applied"]
    BY <1>4 DEF PrimeArrives
  <2>5. FormInv'
    BY <2>1, <2>2, <2>3, <2>4 DEF IInv, FormInv, FormIsOwnOnceLoaded
  <2> QED
    BY <2>1, <2>5 DEF IInv, SrvInv, MapsInv, WritesInv, EditInv
<1>5. CASE PrimeFails
  <2>1. UNCHANGED <<srv, data, mode, form, work, drawn, polls, refetches, writes, budget>>
        /\ prime' = [prime EXCEPT !.state = "failed"]
    BY <1>5 DEF PrimeFails
  <2>2. FormInv'
    BY <2>1 DEF IInv, FormInv, FormIsOwnOnceLoaded
  <2> QED
    BY <2>1, <2>2 DEF IInv, SrvInv, MapsInv, WritesInv, EditInv
<1> QED
  BY <1>2, <1>3, <1>4, <1>5, <1>6 DEF Fetches

LEMMA RefetchKeeps ==
    ASSUME MapsInv, Refetch
    PROVE  refetches' \subseteq Fetched
BY DEF MapsInv, Refetch, Fetched

\* Entering, leaving, opening, closing and picking are changes of the mode.
LEMMA ModeStep ==
    ASSUME IInv, NEW m \in Modes, ChangeMode(m), UNCHANGED <<srv, data>>,
           budget' \in Budgets,
           polls' \subseteq Fetched, refetches' \subseteq Fetched,
           writes' \subseteq writes
    PROVE  IInv'
PROOF
<1>1. EditInv' /\ FormInv'
  BY ChangeModeKeeps DEF IInv, MapsInv
<1> QED
  BY <1>1 DEF IInv, SrvInv, MapsInv, WritesInv

LEMMA ModeClicks ==
    ASSUME BoundAssumption, IInv, \/ EnterEdit \/ ExitEdit \/ ToggleAdd \/ PickFirst
                 \/ \E l \in Links : OpenLink(l) \/ CancelLink(l)
    PROVE  IInv'
PROOF
<1>1. mode \in Modes /\ polls \subseteq Fetched /\ refetches \subseteq Fetched
      /\ budget \in Budgets
  BY DEF IInv, EditInv, MapsInv, SrvInv
<1>2. CASE EnterEdit
  <2>1. [mode EXCEPT !.edit = TRUE] \in Modes
    BY <1>1 DEF Modes
  <2>2. budget' \in Budgets
    BY <1>1, <1>2, Spending DEF EnterEdit
  <2> QED
    BY <1>1, <1>2, <2>1, <2>2, ModeStep DEF EnterEdit
<1>3. CASE ExitEdit
  <2>1. [edit |-> FALSE, link |-> None, add |-> FALSE, first |-> FALSE] \in Modes
    BY DEF Modes
  <2> QED
    BY <1>1, <1>3, <2>1, ModeStep DEF ExitEdit, Fetched
<1>4. CASE ToggleAdd
  <2>1. [mode EXCEPT !.add = ~@, !.first = FALSE] \in Modes
    BY <1>1 DEF Modes
  <2> QED
    BY <1>1, <1>4, <2>1, ModeStep DEF ToggleAdd
<1>5. CASE PickFirst
  <2>1. [mode EXCEPT !.first = TRUE] \in Modes
    BY <1>1 DEF Modes
  <2> QED
    BY <1>1, <1>5, <2>1, ModeStep DEF PickFirst
<1>6. ASSUME NEW l \in Links, OpenLink(l) PROVE IInv'
  <2>1. [mode EXCEPT !.link = l] \in Modes
    BY <1>1 DEF Modes
  <2> QED
    BY <1>1, <1>6, <2>1, ModeStep DEF OpenLink
<1>7. ASSUME NEW l \in Links, CancelLink(l) PROVE IInv'
  <2>1. [mode EXCEPT !.link = None] \in Modes
    BY <1>1 DEF Modes
  <2>2. refetches' \subseteq Fetched
    BY <1>7, RefetchKeeps DEF CancelLink, IInv
  <2> QED
    BY <1>1, <1>7, <2>1, <2>2, ModeStep DEF CancelLink
<1> QED
  BY <1>2, <1>3, <1>4, <1>5, <1>6, <1>7

\* A dragged waypoint belongs to the link whose panel is open; a field is written
\* into the form that is there.
LEMMA EditStep ==
    ASSUME LinkAssumption, BoundAssumption, IInv,
                 \/ Restyle
                 \/ \E l \in Links : DragWaypoint(l) \/ \E field \in {"kind", "ports"} : EditField(l, field)
    PROVE  IInv'
PROOF
<1>1. data \in HomeMaps /\ mode \in Modes /\ drawn \in Drawings
      /\ budget \in Budgets
  BY DEF IInv, MapsInv, EditInv, SrvInv
<1>2. CASE Restyle
  <2>1. UNCHANGED <<srv, data, mode, form, prime, work, polls, refetches, writes, budget>>
        /\ drawn' = Redraw(mode, data, drawn)
    BY <1>2 DEF Restyle
  <2>2. drawn' \in Drawings
    BY <1>1, <2>1, RedrawIsTyped
  <2>3. mode.edit /\ Shown(mode.link, data) => drawn'[mode.link] = drawn[mode.link]
    <3>1. mode.edit /\ Shown(mode.link, data) => drawn[mode.link] = work.path /\ work.path \in Path
      BY DEF IInv, EditInv, OpenIsOwn, Works
    <3> QED
      BY <1>1, <2>1, <3>1 DEF Redraw, HomeMaps, Shown, LinkAssumption
  <2>4. EditInv'
    BY <2>1, <2>2, <2>3 DEF IInv, EditInv, OpenIsOwn
  <2> QED
    BY <2>1, <2>4 DEF IInv, SrvInv, MapsInv, WritesInv, FormInv, FormIsOwnOnceLoaded
<1>3. ASSUME NEW l \in Links, DragWaypoint(l) PROVE IInv'
  <2>1. work \in Works /\ work.of = l /\ mode.edit /\ mode.link = l /\ Shown(l, data)
    BY <1>3 DEF DragWaypoint, Handles, OpenIs, Editing, IInv, EditInv, OpenIsOwn
  <2>2. UNCHANGED <<srv, data, mode, form, prime, polls, refetches, writes>>
        /\ drawn' = DrawWork(mode, data, work', drawn)
    BY <1>3 DEF DragWaypoint
  <2>3. budget' \in Budgets
    BY <1>1, <1>3, Spending DEF DragWaypoint
  <2>4. work' \in Works /\ work'.of = l
    <3>1. MaxEdits - budget.edits + 1 \in 0..MaxEdits
      BY <1>1, <1>3, Spending DEF DragWaypoint
    <3>2. [of |-> l, ver |-> MaxEdits - budget.edits + 1, stray |-> FALSE] \in Path
      BY <3>1 DEF Path
    <3> QED
      BY <1>3, <2>1, <3>2 DEF DragWaypoint, Works
  <2>5. drawn' \in Drawings /\ OpenIsOwn(mode, data, work', drawn')
    BY <1>1, <2>1, <2>2, <2>4, DrawIsOwn
  <2>6. EditInv'
    BY <1>1, <2>2, <2>4, <2>5 DEF EditInv, OpenIsOwn
  <2> QED
    BY <2>2, <2>3, <2>6 DEF IInv, SrvInv, MapsInv, WritesInv, FormInv, FormIsOwnOnceLoaded
<1>4. ASSUME NEW l \in Links, NEW field \in {"kind", "ports"}, EditField(l, field) PROVE IInv'
  <2>1. UNCHANGED <<srv, data, mode, prime, work, drawn, polls, refetches, writes>>
        /\ form' = [Filled EXCEPT ![field] = l]
    BY <1>4 DEF EditField
  <2>2. budget' \in Budgets
    BY <1>1, <1>4, Spending DEF EditField
  <2>3. Filled \in Forms /\ Filled.of = form.of /\ Filled # NoForm
    BY DEF Filled, Forms, NoForm, EmptyForm, Origins, IInv, FormInv, LinkAssumption
  <2>4. form' \in Forms /\ form'.of = form.of
    BY <2>1, <2>3 DEF Forms, Origins
  <2>5. FormInv'
    BY <2>1, <2>4 DEF IInv, FormInv, FormIsOwnOnceLoaded
  <2> QED
    BY <2>1, <2>2, <2>5 DEF IInv, SrvInv, MapsInv, WritesInv, EditInv
<1> QED
  BY <1>2, <1>3, <1>4

\* Only the open link's own path is sent for it, but from a panel without a line.
LEMMA SubmitStep ==
    ASSUME BoundAssumption, IInv, NEW what \in Whats, NEW l \in Links \cup {None},
           NEW body \in Path \cup Values \cup Positions, Submit(what, l, body),
           Fits(Request(what, l, body)),
           UNCHANGED <<srv, data, mode, form, prime, work, drawn, polls, refetches>>
    PROVE  IInv'
PROOF
<1>1. Request(what, l, body) \in Requests
  BY DEF Request, Requests
<1>2. writes' = writes \cup {Request(what, l, body)}
  BY DEF Submit
<1>3. WritesInv'
  BY <1>1, <1>2 DEF IInv, WritesInv
<1>4. budget' \in Budgets
  BY Spending DEF IInv, SrvInv, Submit, OneChange
<1> QED
  BY <1>3, <1>4 DEF IInv, SrvInv, MapsInv, EditInv, FormInv, FormIsOwnOnceLoaded

LEMMA SubmitClicks ==
    ASSUME BoundAssumption, IInv,
           \/ PickSecond \/ DragSite
           \/ \E l \in Links : \/ SavePath(l) \/ RemoveLink(l) \/ SaveDetails(l)
                               \/ SavePorts(l) \/ DetachPorts(l)
    PROVE  IInv'
PROOF
<1> USE DEF Whats, Fits, Request
<1>1. CASE PickSecond
  <2>1. None \in Values
    BY DEF Values
  <2> QED
    BY <1>1, <2>1, SubmitStep DEF PickSecond
<1>2. CASE DragSite
  <2>1. NewPosition \in Positions
    BY <1>2, Spending DEF DragSite, Submit, OneChange, IInv, SrvInv
  <2> QED
    BY <1>2, <2>1, SubmitStep DEF DragSite
<1>3. ASSUME NEW l \in Links, SavePath(l) PROVE IInv'
  <2> DEFINE body == [work.path EXCEPT !.stray = @ \/ ~Shown(l, data)]
  <2>1. work \in Works /\ (Shown(l, data) => work.of = l)
    BY <1>3 DEF SavePath, SubmitFromPanel, PanelOf, OpenIs, Editing, NoWork, IInv, EditInv, OpenIsOwn
  <2>2. work.path \in Path /\ (Shown(l, data) => work.path.of = l \/ work.path.stray)
    BY <2>1 DEF Works
  <2>3. body \in Path /\ (body.of = l \/ body.stray)
    BY <2>2 DEF Path
  <2> HIDE DEF body
  <2>4. SubmitFromPanel("path", l, body)
    BY <1>3 DEF SavePath, body
  <2> QED
    BY <2>3, <2>4, SubmitStep DEF SubmitFromPanel
<1>4. ASSUME NEW l \in Links, RemoveLink(l) PROVE IInv'
  <2>1. None \in Values
    BY DEF Values
  <2> QED
    BY <1>4, <2>1, SubmitStep DEF RemoveLink, SubmitFromPanel
<1>5. ASSUME NEW l \in Links, SaveDetails(l) \/ SavePorts(l) PROVE IInv'
  <2>1. form \in Forms /\ form # NoForm
    BY <1>5 DEF SaveDetails, SavePorts, IInv, FormInv
  <2>2. form.kind \in Origins /\ form.ports \in Origins /\ Origins \subseteq Values
    BY <2>1 DEF Forms, Values
  <2> QED
    BY <1>5, <2>2, SubmitStep DEF SaveDetails, SavePorts, SubmitFromPanel
<1>6. ASSUME NEW l \in Links, DetachPorts(l) PROVE IInv'
  <2>1. Blank \in Values /\ Blank \in Origins
    BY DEF Values, Origins
  <2> QED
    BY <1>6, <2>1, SubmitStep DEF DetachPorts, SubmitFromPanel
<1> QED
  BY <1>1, <1>2, <1>3, <1>4, <1>5, <1>6

\* The registry stores a path only under the link it was drawn for, or a stray one.
LEMMA ApplyStep ==
    ASSUME BoundAssumption, IInv, NEW w \in writes, Apply(w)
    PROVE  IInv'
PROOF
<1>1. w \in Requests /\ Fits(w)
  BY DEF IInv, WritesInv
<1>2. /\ UNCHANGED <<data, mode, form, prime, work, drawn, polls, refetches, budget>>
      /\ writes' = (writes \ {w}) \cup {[w EXCEPT !.state = "ok"]}
  BY DEF Apply
<1>3. WritesInv'
  <2> DEFINE u == [w EXCEPT !.state = "ok"]
  <2>1. u \in Requests /\ u.what = w.what /\ u.link = w.link /\ u.body = w.body
    BY <1>1 DEF Requests
  <2>2. Fits(u)
    BY <1>1, <2>1 DEF Fits
  <2>3. writes' = (writes \ {w}) \cup {u}
    BY <1>2
  <2> HIDE DEF u
  <2> QED
    BY <2>1, <2>2, <2>3 DEF IInv, WritesInv
<1> DEFINE SrvType == [links : SUBSET Links, path : HomePaths, sited : SUBSET Links, pos : Positions,
               rows : [Links -> Fields]]
<1>4. srv \in SrvType /\ srv.path \in HomePaths /\ srv.rows \in [Links -> Fields]
      /\ srv.links \in SUBSET Links
  BY DEF IInv, SrvInv
<1>5. srv' \in SrvType
  <2>1. CASE w.what = "path"
    <3>1. srv' = [srv EXCEPT !.path = [@ EXCEPT ![w.link] = w.body]]
      BY <2>1 DEF Apply
    <3>2. [srv.path EXCEPT ![w.link] = w.body] \in HomePaths
      BY <1>1, <1>4, <2>1 DEF Fits, HomePaths
    <3> QED
      BY <1>4, <3>1, <3>2
  <2>2. CASE w.what = "delete"
    <3>1. srv' = [srv EXCEPT !.links = @ \ {w.link}]
      BY <2>2 DEF Apply
    <3> QED
      BY <1>4, <3>1
  <2>3. CASE w.what \in {"kind", "ports", "detach"}
    <3>1. w.link \in Links /\ w.body \in Origins /\ srv.rows[w.link] \in Fields
      BY <1>1, <1>4, <2>3 DEF Fits
    <3>2. PICK r \in Fields : srv' = [srv EXCEPT !.rows = [@ EXCEPT ![w.link] = r]]
      <4>1. CASE w.what = "kind"
        <5>1. [srv.rows[w.link] EXCEPT !.kind = IF w.body = Blank THEN @ ELSE w.body] \in Fields
          BY <3>1 DEF Fields
        <5>2. srv' = [srv EXCEPT !.rows = [@ EXCEPT ![w.link] = [srv.rows[w.link] EXCEPT !.kind =
                                              IF w.body = Blank THEN @ ELSE w.body]]]
          BY <1>4, <3>1, <4>1 DEF Apply
        <5> QED
          BY <5>1, <5>2
      <4>2. CASE w.what \in {"ports", "detach"}
        <5>1. [srv.rows[w.link] EXCEPT !.ports = w.body] \in Fields
          BY <3>1 DEF Fields
        <5>2. srv' = [srv EXCEPT !.rows = [@ EXCEPT ![w.link] = [srv.rows[w.link] EXCEPT !.ports = w.body]]]
          BY <1>4, <3>1, <4>2 DEF Apply
        <5> QED
          BY <5>1, <5>2
      <4> QED
        BY <2>3, <4>1, <4>2
    <3>3. [srv.rows EXCEPT ![w.link] = r] \in [Links -> Fields]
      BY <1>4, <3>1
    <3> QED
      BY <1>4, <3>2, <3>3
  <2>4. CASE w.what = "move"
    <3>1. srv' = [srv EXCEPT !.pos = w.body] /\ w.body \in Positions
      BY <1>1, <2>4 DEF Apply, Fits
    <3> QED
      BY <1>4, <3>1
  <2>5. CASE w.what = "create"
    <3>1. PICK l \in Links \ srv.links :
            srv' = [srv EXCEPT !.links = @ \cup {l}, !.path[l] = Row(l),
                               !.rows[l] = [kind |-> l, ports |-> l]]
      BY <2>5 DEF Apply
    <3>2. [srv.path EXCEPT ![l] = Row(l)] \in HomePaths
      BY <1>4 DEF HomePaths, Path, Row, BoundAssumption
    <3>3. [srv.rows EXCEPT ![l] = [kind |-> l, ports |-> l]] \in [Links -> Fields]
      BY <1>4 DEF Fields, Values, Origins
    <3> QED
      BY <1>4, <3>1, <3>2, <3>3
  <2> QED
    BY <1>1, <2>1, <2>2, <2>3, <2>4, <2>5 DEF Requests, Whats
<1>6. SrvInv'
  BY <1>2, <1>5 DEF IInv, SrvInv
<1> QED
  BY <1>2, <1>3, <1>6 DEF IInv, MapsInv, EditInv, FormInv, FormIsOwnOnceLoaded

\* The answers close the link that is open by now, blank the ports of the form that
\* is there by now, or move a site.
LEMMA AnswerStep ==
    ASSUME LinkAssumption, IInv, NEW w \in writes,
           \/ LinkClosed(w) \/ DetailsSaved(w) \/ PortsDetached(w)
           \/ SiteMoved(w) \/ LinkCreated(w) \/ WriteFails(w)
    PROVE  IInv'
PROOF
<1>1. writes' = writes \ {w}
  BY DEF LinkClosed, DetailsSaved, PortsDetached, SiteMoved, LinkCreated, WriteFails, Answered
<1>2. mode \in Modes /\ polls \subseteq Fetched /\ refetches \subseteq Fetched
      /\ budget \in Budgets /\ data \in HomeMaps
  BY DEF IInv, EditInv, MapsInv, SrvInv
<1>3. CASE LinkClosed(w)
  <2>1. [mode EXCEPT !.link = None] \in Modes
    BY <1>2 DEF Modes
  <2>2. refetches' \subseteq Fetched
    BY <1>3, RefetchKeeps DEF LinkClosed, IInv
  <2> QED
    BY <1>1, <1>2, <1>3, <2>1, <2>2, ModeStep DEF LinkClosed
<1>4. CASE LinkCreated(w)
  <2>1. [mode EXCEPT !.add = FALSE, !.first = FALSE] \in Modes
    BY <1>2 DEF Modes
  <2>2. refetches' \subseteq Fetched
    BY <1>4, RefetchKeeps DEF LinkCreated, IInv
  <2> QED
    BY <1>1, <1>2, <1>4, <2>1, <2>2, ModeStep DEF LinkCreated
<1>5. CASE DetailsSaved(w) \/ WriteFails(w)
  <2>1. refetches' \subseteq Fetched
    BY <1>2, <1>5, RefetchKeeps DEF DetailsSaved, WriteFails, IInv
  <2>2. UNCHANGED <<srv, data, mode, form, prime, work, drawn, polls, budget>>
    BY <1>5 DEF DetailsSaved, WriteFails
  <2> QED
    BY <1>1, <2>1, <2>2 DEF IInv, SrvInv, MapsInv, WritesInv, EditInv, FormInv, FormIsOwnOnceLoaded
<1>6. CASE PortsDetached(w)
  <2>1. refetches' \subseteq Fetched
    BY <1>6, RefetchKeeps DEF PortsDetached, IInv
  <2>2. UNCHANGED <<srv, data, mode, prime, work, drawn, polls, budget>>
        /\ form' = [Filled EXCEPT !.ports = Blank]
    BY <1>6 DEF PortsDetached
  <2>3. Filled \in Forms /\ Filled.of = form.of /\ Filled # NoForm
    BY DEF Filled, Forms, NoForm, EmptyForm, Origins, IInv, FormInv, LinkAssumption
  <2>4. form' \in Forms /\ form'.of = form.of
    BY <2>2, <2>3 DEF Forms, Origins
  <2>5. FormInv'
    BY <2>2, <2>4 DEF IInv, FormInv, FormIsOwnOnceLoaded
  <2> QED
    BY <1>1, <2>1, <2>2, <2>5 DEF IInv, SrvInv, MapsInv, WritesInv, EditInv
<1>7. CASE SiteMoved(w)
  <2>1. UNCHANGED <<srv, mode, form, prime, polls, refetches, budget>>
        /\ ShowData([data EXCEPT !.pos = w.body])
    BY <1>7 DEF SiteMoved
  <2>2. w.body \in Positions
    BY <1>7 DEF SiteMoved, IInv, WritesInv, Fits
  <2>3. [data EXCEPT !.pos = w.body] \in HomeMaps
    BY <1>2, <2>2 DEF HomeMaps
  <2>4. EditInv' /\ data' \in HomeMaps
    BY <2>1, <2>3, ShowDataKeeps DEF IInv
  <2> QED
    BY <1>1, <2>1, <2>4 DEF IInv, SrvInv, MapsInv, WritesInv, FormInv, FormIsOwnOnceLoaded
<1> QED
  BY <1>3, <1>4, <1>5, <1>6, <1>7

LEMMA AdminStep ==
    ASSUME BoundAssumption, IInv, OtherAdmin
    PROVE  IInv'
PROOF
<1>1. UNCHANGED <<data, mode, form, prime, work, drawn, polls, refetches, writes>>
  BY DEF OtherAdmin
<1>2. NewPosition \in Positions
  BY Spending DEF OtherAdmin, OneChange, IInv, SrvInv
<1>3. srv' \in [links : SUBSET Links, path : HomePaths, sited : SUBSET Links, pos : Positions,
               rows : [Links -> Fields]]
  BY <1>2 DEF OtherAdmin, IInv, SrvInv
<1>4. budget' \in Budgets
  BY Spending DEF OtherAdmin, OneChange, IInv, SrvInv
<1> QED
  BY <1>1, <1>3, <1>4 DEF IInv, SrvInv, MapsInv, WritesInv, EditInv, FormInv, FormIsOwnOnceLoaded

LEMMA StepInv == ASSUME LinkAssumption, BoundAssumption PROVE IInv /\ [Next]_vars => IInv'
PROOF
<1> SUFFICES ASSUME IInv, [Next]_vars PROVE IInv'
  OBVIOUS
<1>1. CASE UNCHANGED vars
  BY <1>1 DEF vars, IInv, SrvInv, MapsInv, WritesInv, EditInv, FormInv, FormIsOwnOnceLoaded
<1>2. CASE Clicks
  BY <1>2, ModeClicks, EditStep, SubmitClicks DEF Clicks
<1>3. CASE Answers
  BY <1>3, ApplyStep, AnswerStep DEF Answers
<1> QED
  BY <1>1, <1>2, <1>3, FetchStep, AdminStep DEF Next

-----------------------------------------------------------------------------
(* The types *)

\* Outside the editor nothing is open or picked; inside it nothing is polled.
ClosedInv ==
    /\ ~Editing => mode.link = None /\ ~mode.add /\ work = NoWork
    /\ Editing => polls = {}

LEMMA ClosedStep ==
    ASSUME IInv, ClosedInv, [Next]_vars
    PROVE  ClosedInv'
PROOF
<1>1. mode \in Modes
  BY DEF IInv, EditInv
<1>2. ASSUME NEW d, ShowData(d), mode' = mode PROVE ~Editing' => work' = NoWork
  BY <1>2 DEF ShowData, WorkAfter, Editing
<1>3. ASSUME NEW m \in Modes, ChangeMode(m), ~m.edit => m.link = None /\ ~m.add,
             m.edit => polls' = {}
      PROVE  ClosedInv'
  BY <1>3 DEF ChangeMode, WorkAfter, ClosedInv, Editing
<1>4. CASE UNCHANGED <<mode, work>> /\ (polls' = polls \/ ~Editing)
  BY <1>4 DEF ClosedInv, Editing
<1>5. CASE Fetches \/ OtherAdmin
  <2>1. CASE PollArrives
    BY <1>2, <2>1 DEF PollArrives, ClosedInv, Editing
  <2>2. CASE RefetchArrives
    BY <1>2, <2>2 DEF RefetchArrives, ClosedInv, Editing
  <2> QED
    BY <1>4, <1>5, <2>1, <2>2 DEF Fetches, StartPoll, PollRead, PollFails, RefetchRead,
       RefetchFails, PollReadRest, RefetchReadRest, PrimeArrives, PrimeFails, OtherAdmin, ClosedInv
<1>6. CASE Clicks
  <2>1. CASE EnterEdit
    <3>1. [mode EXCEPT !.edit = TRUE] \in Modes /\ [mode EXCEPT !.edit = TRUE].edit
      BY <1>1 DEF Modes
    <3> QED
      BY <1>3, <2>1, <3>1 DEF EnterEdit
  <2>2. CASE ExitEdit
    <3>1. [edit |-> FALSE, link |-> None, add |-> FALSE, first |-> FALSE] \in Modes
      BY DEF Modes
    <3> QED
      BY <1>3, <2>2, <3>1 DEF ExitEdit
  <2>3. CASE ToggleAdd
    <3>1. [mode EXCEPT !.add = ~@, !.first = FALSE] \in Modes
          /\ [mode EXCEPT !.add = ~@, !.first = FALSE].edit = mode.edit /\ mode.edit
      BY <1>1, <2>3 DEF Modes, ToggleAdd, ListShown, Editing
    <3> QED
      BY <1>3, <2>3, <3>1 DEF ToggleAdd, ClosedInv, Editing
  <2>4. CASE PickFirst
    <3>1. [mode EXCEPT !.first = TRUE] \in Modes
          /\ [mode EXCEPT !.first = TRUE].edit = mode.edit /\ mode.edit
      BY <1>1, <2>4 DEF Modes, PickFirst, ClosedInv, Editing
    <3> QED
      BY <1>3, <2>4, <3>1 DEF PickFirst, ClosedInv, Editing
  <2>5. ASSUME NEW l \in Links, OpenLink(l) PROVE ClosedInv'
    <3>1. [mode EXCEPT !.link = l] \in Modes
          /\ [mode EXCEPT !.link = l].edit = mode.edit /\ mode.edit
      BY <1>1, <2>5 DEF Modes, OpenLink, Editing
    <3> QED
      BY <1>3, <2>5, <3>1 DEF OpenLink, ClosedInv, Editing
  <2>6. ASSUME NEW l \in Links, CancelLink(l) PROVE ClosedInv'
    <3>1. [mode EXCEPT !.link = None] \in Modes
          /\ [mode EXCEPT !.link = None].edit = mode.edit /\ mode.edit
      BY <1>1, <2>6 DEF Modes, CancelLink, PanelOf, OpenIs, Editing
    <3> QED
      BY <1>3, <2>6, <3>1 DEF CancelLink, ClosedInv, Editing
  <2>7. ASSUME NEW l \in Links, DragWaypoint(l) PROVE ClosedInv'
    BY <2>7 DEF DragWaypoint, Handles, OpenIs, ClosedInv, Editing
  <2>8. CASE Restyle \/ PickSecond \/ DragSite
    BY <1>4, <2>8 DEF Restyle, PickSecond, DragSite
  <2>9. ASSUME NEW l \in Links,
               \/ \E field \in {"kind", "ports"} : EditField(l, field)
               \/ SavePath(l) \/ RemoveLink(l) \/ SaveDetails(l) \/ SavePorts(l) \/ DetachPorts(l)
        PROVE  ClosedInv'
    BY <1>4, <2>9 DEF EditField, SavePath, RemoveLink, SaveDetails, SavePorts, DetachPorts,
       SubmitFromPanel
  <2> QED
    BY <1>6, <2>1, <2>2, <2>3, <2>4, <2>5, <2>6, <2>7, <2>8, <2>9 DEF Clicks
<1>7. CASE Answers
  <2>1. PICK w \in writes :
            \/ Apply(w) \/ LinkClosed(w) \/ DetailsSaved(w) \/ PortsDetached(w)
            \/ SiteMoved(w) \/ LinkCreated(w) \/ WriteFails(w)
    BY <1>7 DEF Answers
  <2>2. CASE LinkClosed(w)
    <3>1. [mode EXCEPT !.link = None] \in Modes /\ [mode EXCEPT !.link = None].edit = mode.edit
          /\ [mode EXCEPT !.link = None].add = mode.add /\ [mode EXCEPT !.link = None].link = None
      BY <1>1 DEF Modes
    <3> QED
      BY <1>3, <2>2, <3>1 DEF LinkClosed, ClosedInv, Editing
  <2>3. CASE LinkCreated(w)
    <3> DEFINE m == [mode EXCEPT !.add = FALSE, !.first = FALSE]
    <3>1. m \in Modes /\ m.edit = mode.edit /\ m.link = mode.link /\ ~m.add
      BY <1>1 DEF Modes
    <3> QED
      BY <1>3, <2>3, <3>1 DEF LinkCreated, ClosedInv, Editing
  <2>4. CASE SiteMoved(w)
    BY <1>2, <2>4 DEF SiteMoved, ClosedInv, Editing
  <2> QED
    BY <1>4, <2>1, <2>2, <2>3, <2>4 DEF Apply, DetailsSaved, PortsDetached, WriteFails
<1> QED
  BY <1>4, <1>5, <1>6, <1>7 DEF Next, vars

LEMMA ClosedInit == Init => ClosedInv
BY DEF Init, ClosedInv, Editing

LEMMA TypesFollow == IInv /\ ClosedInv => TypeOK
PROOF
<1> SUFFICES ASSUME IInv, ClosedInv PROVE TypeOK
  OBVIOUS
<1>1. HomePaths \subseteq [Links -> Path] /\ HomeMaps \subseteq Snapshots
  BY DEF HomePaths, HomeMaps, Snapshots, Positions
<1>7. Fetched \subseteq Snapshots \cup Halves \cup {Asked}
  BY <1>1 DEF Fetched, Halves
<1>2. srv \in [links : SUBSET Links, path : [Links -> Path], rows : [Links -> Fields],
               sited : SUBSET Links, pos : 0..MaxChanges]
  BY <1>1 DEF IInv, SrvInv, Positions
<1>3. /\ data \in Snapshots
      /\ polls \cup refetches \subseteq Snapshots \cup Halves \cup {Asked}
  BY <1>1, <1>7 DEF IInv, MapsInv
<1>4. /\ mode \in Modes /\ drawn \in Drawings
      /\ work \in [of : Links, path : Path] \cup {NoWork}
  BY DEF IInv, EditInv, Works, NoWork
<1>5. \A w \in writes : w.what \in {"path", "delete", "kind", "ports", "detach", "move", "create"}
  BY DEF IInv, WritesInv, Requests, Whats
<1>6. /\ form \in [of : Links \cup {None}, kind : Origins, ports : Origins] \cup {NoForm}
      /\ prime \in [link : Links \cup {None}, state : {"none", "loading", "applied", "failed"}]
  BY DEF IInv, FormInv, Forms
<1> QED
  BY <1>2, <1>3, <1>4, <1>5, <1>6 DEF TypeOK, Modes, Drawings, ClosedInv

-----------------------------------------------------------------------------
(* The theorems *)

LEMMA AlwaysInv == ASSUME LinkAssumption, BoundAssumption PROVE Spec => []IInv
PROOF
<1>1. Init => IInv
  BY InitInv
<1>2. IInv /\ [Next]_vars => IInv'
  BY StepInv
<1> QED
  BY <1>1, <1>2, PTL DEF Spec

\* Every variable of the editor keeps its type: outside the editor no link is open
\* and no path worked on, and in it no poll is under way that could be shown.
THEOREM TypesHold ==
    ASSUME LinkAssumption, BoundAssumption
    PROVE  Spec => []TypeOK
PROOF
<1>1. Init => ClosedInv
  BY ClosedInit
<1>2. IInv /\ ClosedInv /\ [Next]_vars => ClosedInv'
  BY ClosedStep
<1>3. IInv /\ ClosedInv => TypeOK
  BY TypesFollow
<1> QED
  BY <1>1, <1>2, <1>3, AlwaysInv, PTL DEF Spec

\* The path the registry has for a link was drawn for that link, whatever links
\* are opened, left, deleted and created, and in whatever order answers come -
\* unless it was saved while the page had no line for the link.
THEOREM PathsAreHome ==
    ASSUME LinkAssumption, BoundAssumption
    PROVE  Spec => []PathsStayHome
PROOF
<1>1. IInv => PathsStayHome
  BY DEF IInv, SrvInv, HomePaths, PathsStayHome
<1> QED
  BY <1>1, AlwaysInv, PTL

\* A form that has been filled was filled from the row of the link whose panel is
\* open: a late answer for another link is never applied.
THEOREM FormIsOwn ==
    ASSUME LinkAssumption, BoundAssumption
    PROVE  Spec => []FormIsOwnOnceLoaded
PROOF
<1>1. IInv => FormIsOwnOnceLoaded
  BY DEF IInv, FormInv
<1> QED
  BY <1>1, AlwaysInv, PTL

\* The line of the link that is open is drawn with the path being worked on.
THEOREM LineIsDrawn ==
    ASSUME LinkAssumption, BoundAssumption
    PROVE  Spec => []EditedLineIsDrawn
PROOF
<1>1. IInv => EditedLineIsDrawn
  BY DEF IInv, EditInv, OpenIsOwn, EditedLineIsDrawn, Handles, OpenIs, Editing
<1> QED
  BY <1>1, AlwaysInv, PTL

\* A step that leaves the link open that is worked on takes no other working path
\* for it, unless the operator drags.
LEMMA WorkStays ==
    ASSUME LinkAssumption, [Next]_vars, NEW l \in Links, WorksOn(l), OpenIs(l)', work' # work
    PROVE  DragWaypoint(l)
PROOF
<1>1. /\ mode.edit /\ mode.link = l /\ mode'.edit /\ mode'.link = l
      /\ work # NoWork /\ work.of = l
  BY DEF WorksOn, OpenIs, Editing
<1>2. ASSUME NEW m, NEW d, m.edit, m.link = l PROVE WorkAfter(m, d) = work
  BY <1>1, <1>2 DEF WorkAfter
<1>3. ASSUME NEW d, ShowData(d) PROVE FALSE
  BY <1>1, <1>2, <1>3 DEF ShowData
<1>4. ASSUME NEW m, ChangeMode(m) PROVE FALSE
  BY <1>1, <1>2, <1>4 DEF ChangeMode
<1>5. ASSUME NEW k \in Links, DragWaypoint(k) PROVE k = l
  BY <1>1, <1>5 DEF DragWaypoint, Handles, OpenIs
<1>6. ~ (Fetches \/ OtherAdmin)
  BY <1>3 DEF Fetches, StartPoll, PollRead, PollReadRest, PollArrives, PollFails, RefetchRead,
     RefetchReadRest, RefetchArrives, RefetchFails, PrimeArrives, PrimeFails, OtherAdmin
<1>7. ~ Answers
  BY <1>3, <1>4 DEF Answers, Apply, LinkClosed, DetailsSaved, PortsDetached, SiteMoved,
     LinkCreated, WriteFails
<1> QED
  BY <1>4, <1>5, <1>6, <1>7 DEF Next, Clicks, EnterEdit, ExitEdit, ToggleAdd, Restyle,
     PickFirst, PickSecond, DragSite, OpenLink, CancelLink, EditField, SavePath, RemoveLink,
     SaveDetails, SavePorts, DetachPorts, SubmitFromPanel, vars

LEMMA EditsSurviveStep ==
    ASSUME LinkAssumption, IInv, [Next]_vars,
           NEW l \in Links, WorksOn(l), OpenIs(l)', work'.path # work.path
    PROVE  budget'.edits < budget.edits
PROOF
<1>1. DragWaypoint(l)
  BY WorkStays
<1>2. budget' = [budget EXCEPT !.edits = @ - 1] /\ budget.edits \in Int
  BY <1>1 DEF DragWaypoint, IInv, SrvInv, Budgets
<1>3. "edits" \in DOMAIN budget
  BY DEF IInv, SrvInv, Budgets
<1> QED
  BY <1>2, <1>3

\* Whatever arrives while a link is open, the waypoints dragged so far are kept, even
\* when the link or one of its ends is missing from it.
THEOREM EditsSurvive ==
    ASSUME LinkAssumption, BoundAssumption
    PROVE  Spec => PathEditsSurvive
PROOF
<1> DEFINE Kept == \A l \in Links : WorksOn(l) /\ OpenIs(l)' /\ work'.path # work.path =>
                        budget'.edits < budget.edits
<1>1. IInv /\ [Next]_vars => [Kept]_vars
  BY EditsSurviveStep
<1> QED
  BY <1>1, AlwaysInv, PTL DEF Spec, PathEditsSurvive
=============================================================================
