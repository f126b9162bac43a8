------------------------------ MODULE Console ------------------------------
(***************************************************************************)
(* The web interface: the views, the three pages that edit something, and  *)
(* the buttons that act on a device.                                       *)
(* The router shows one page at a time and pages share no state, so a      *)
(* behaviour is one of a single part, and the others stay as they begin.   *)
(***************************************************************************)
EXTENDS Views

CONSTANTS Workflows, MaxClicks,
          Cameras, Images, MaxBatches, MaxButtons, MaxTicks,
          Links, Initial, Bare, Asked, MaxPolls, MaxRefetches, MaxWrites, MaxEdits, MaxToggles,
          Devices, Buttons, MaxPresses, MaxFaults,
          MaxTabs     \* visits of a page that edits or acts

VARIABLES
    part,
    wf, wfPage, editor, wfFlight, puts, posts, asked, wfBudget,
    batches, items, running, opsPage, chains, ticks, requested, rehearsed, opsBudget,
    srv, data, mode, form, prime, work, drawn, polls, refetches, writes, mapBudget,
    caps, actPage, loads, button, calls, actBudget

\* The pages that edit come with the theorems about them.
W == INSTANCE WorkflowPageProofs WITH
        MaxVisits <- MaxTabs, page <- wfPage, flight <- wfFlight, budget <- wfBudget

O == INSTANCE CameraOpsPageProofs WITH
        MaxActs <- MaxButtons, MaxVisits <- MaxTabs, page <- opsPage, budget <- opsBudget

M == INSTANCE MapEditorProofs WITH budget <- mapBudget

D == INSTANCE DeviceActions WITH
        MaxClicks <- MaxPresses, MaxVisits <- MaxTabs, page <- actPage, budget <- actBudget

ASSUME PartsAssumption ==
    /\ W!WorkflowAssumption /\ W!BoundAssumption
    /\ O!BoundAssumption
    /\ M!LinkAssumption /\ M!BoundAssumption
    /\ D!DeviceAssumption /\ D!BoundAssumption

Parts == {"views", "workflows", "operations", "map", "actions"}

ConsoleInit ==
    /\ part \in Parts
    /\ Init /\ W!Init /\ O!Init /\ M!Init /\ D!Init

workflowVars == <<wf, wfPage, editor, wfFlight, puts, posts, asked, wfBudget>>
opsVars == <<batches, items, running, opsPage, chains, ticks, requested, rehearsed, opsBudget>>
mapVars == <<srv, data, mode, form, prime, work, drawn, polls, refetches, writes, mapBudget>>
actionVars == <<caps, actPage, loads, button, calls, actBudget>>
consoleVars == <<part, vars, workflowVars, opsVars, mapVars, actionVars>>

ConsoleNext ==
    /\ UNCHANGED part
    /\ IF part = "views" THEN Next ELSE UNCHANGED vars
    /\ IF part = "workflows" THEN W!Next ELSE UNCHANGED workflowVars
    /\ IF part = "operations" THEN O!Next ELSE UNCHANGED opsVars
    /\ IF part = "map" THEN M!Next ELSE UNCHANGED mapVars
    /\ IF part = "actions" THEN D!Next ELSE UNCHANGED actionVars

\* The fairness of each part.  Nothing fair of the views is enabled where
\* they begin; the map fetches from the start.
ConsoleSpec ==
    /\ ConsoleInit /\ [][ConsoleNext]_consoleVars
    /\ Fairness
    /\ WF_mapVars(part = "map" /\ M!StartPoll)
    /\ SF_mapVars(part = "map" /\ M!PollRead)
    /\ SF_mapVars(part = "map" /\ M!PollReadRest)
    /\ SF_mapVars(part = "map" /\ M!PollArrives)
    /\ D!Fairness

-----------------------------------------------------------------------------
(* The properties of the parts *)

\* Every variable of every part keeps its type.
TypesOK == TypeOK /\ W!TypeOK /\ O!TypeOK /\ M!TypeOK /\ D!TypeOK

\* No workflow is ever stored with a graph that was drawn for another one: however
\* selections, late answers, tab changes and saves interleave, the graph in the
\* editor is that of the workflow whose id it saves under.
SavesOwnGraph == W!SavesOwnGraph

\* A workflow that acts on the fleet is one an administrator once agreed to take
\* out of shadow: enabling it, saving it or a stale page never does (the confirm
\* of WorkflowSwitch, the defaults of set_workflow_state).
NeverLiveUnasked == W!NeverLiveUnasked

\* A batch that may write to cameras exists only for an image of which a dry run
\* has come back done, whatever the links, the timer and a page that was left have
\* done to the batch that is open (deployFromDryRun, and the API's dry_run).
LiveIsRehearsed == O!LiveIsRehearsed

\* The path saved for a link was drawn for that link, however the operator went
\* from link to link and whatever arrived meanwhile (workPathLinkId) - unless it
\* was saved while the page had no line for the link (map.jsx:604).
PathsStayHome == M!PathsStayHome

\* Once an answer is in, the form was filled from the row of the link whose
\* panel is open: an answer for a link left meanwhile is not applied.
FormIsOwnOnceLoaded == M!FormIsOwnOnceLoaded

\* While a link is open its line, if it has one, is drawn with the path being worked
\* on: no refresh, selection or change of theme snaps it back to the saved one.
EditedLineIsDrawn == M!EditedLineIsDrawn

\* Whatever arrives while a link is open, the waypoints dragged so far are kept:
\* the path worked on for it changes only when the operator drags.
PathEditsSurvive == M!PathEditsSurvive

\* When editing is over the map comes to show the registry, whatever the edits
\* left on the screen and whatever old answers arrive late.
MapConverges == part = "map" => M!MapConverges

\* What an operator agreed to on the page of a camera is done to that camera, and
\* what a button there says, or is waiting for, is about it: no selection, poll or
\* late answer puts another camera under the question or the answer (the confirm of
\* ActionButton, the setCam(null) of CameraDetailPage).
ActsOnOwn == D!ActsOnOwn

\* The audit trail tells what happened: whatever was sent has a row, a refused row
\* means that nothing was, an ok row that the source acted (but for PacketFence's
\* 404), and a row is left pending only by a restart or a failing write
\* (AuditedAction).
AuditTellsTruth == D!AuditTellsTruth

\* What a button says agrees with the audit row, and its "no" without a doubt is
\* right, unless the API broke down over the answer (the "uncertain" of
\* ActionButton).
ButtonTellsTruth == D!ButtonTellsTruth

\* A button does not say "working" for ever, whatever becomes of the page, the
\* connection, the process or the source.
WorkingEnds == D!WorkingEnds
=============================================================================
