---------------------------- MODULE CameraOpsPage ----------------------------
(***************************************************************************)
(* Bulk camera operations: CameraOpsTab (pages/camera_ops.jsx) and the     *)
(* handlers that create, start and abort a batch (api/camera_ops.py,       *)
(* cameras/ops.py).  What a batch does once it runs is CameraBatch; here it *)
(* only ends.                                                              *)
(*                                                                         *)
(* A button starts a chain of requests (act).  The buttons are disabled by *)
(* one flag all chains share, which the "open" links of the list ignore and *)
(* clear, so chains overlap; a chain goes on when its page is gone.  The   *)
(* create handler inserts the batch, reads the largest id and inserts the  *)
(* items, in three transactions of a worker thread.                        *)
(***************************************************************************)
EXTENDS Integers, Sequences

CONSTANTS Cameras, Images, None,
          MaxBatches, MaxActs, MaxTicks, MaxVisits, MaxFails    \* bounds of the model

BoundAssumption ==
    /\ MaxBatches \in Nat
    /\ MaxActs \in Nat
    /\ MaxTicks \in Nat
    /\ MaxVisits \in Nat
    /\ MaxFails \in Nat

VARIABLES
    batches,    \* the camera_batches table: by id
    items,      \* the camera_batch_items table
    running,    \* batches with an entry in app.state.camera_batches
    page,       \* CameraOpsTab: the batch that is open, busy and error
    chains,     \* what act was given and has not finished
    ticks,      \* answers to the refresh of the open batch, on their way
    requested,  \* history: the cameras and the image each batch was created for
    rehearsed,  \* history: images a dry run of which reached done
    budget

vars == <<batches, items, running, page, chains, ticks, requested, rehearsed, budget>>

Known == DOMAIN batches
Status == {"previewed", "running", "done", "aborted"}

NoTab == [open |-> None, busy |-> FALSE, error |-> FALSE]

Init ==
    /\ batches = <<>>
    /\ items = {}
    /\ running = {}
    /\ page = NoTab
    /\ chains = {}
    /\ ticks = {}
    /\ requested = <<>>
    /\ rehearsed = {}
    /\ budget = [acts |-> MaxActs, ticks |-> MaxTicks, visits |-> MaxVisits, fails |-> MaxFails]

\* batch_detail, as far as the page goes by it.
WouldRun(b) == {i.cam : i \in {j \in items : j.batch = b /\ j.status = "would_run"}}
Detail(b) == [id |-> b, dry |-> batches[b].dry, image |-> batches[b].image,
              status |-> batches[b].status, wouldRun |-> WouldRun(b)]

-----------------------------------------------------------------------------
(* The page *)

Chain(do, step, id, cams, image) ==
    [do |-> do, step |-> step, id |-> id, cams |-> cams, image |-> image, mine |-> TRUE]

\* act: the flag is set and the error cleared, and the chain begins.
Act(c) ==
    /\ budget.acts > 0
    /\ ~page.error
    /\ c \notin chains
    /\ page' = [page EXCEPT !.busy = TRUE]
    /\ chains' = chains \cup {c}
    /\ budget' = [budget EXCEPT !.acts = @ - 1]
    /\ UNCHANGED <<batches, items, running, ticks, requested, rehearsed>>

CreateBatch(cams, image) ==
    /\ ~page.busy
    /\ cams # {}
    /\ Act(Chain("create", "post", None, cams, image))

\* The card of deployFromDryRun is that of a finished dry run.
\* Mutant of CanDeploy: the card is there before the dry run has been run.
MutantCanDeploy == page.open.dry /\ page.open.wouldRun # {}

CanDeploy == page.open.dry /\ page.open.status = "done" /\ page.open.wouldRun # {}

Deploy ==
    /\ ~page.busy
    /\ page.open # None
    /\ CanDeploy
    /\ Act(Chain("deploy", "post", None, page.open.wouldRun, page.open.image))

StartBatch ==
    /\ ~page.busy
    /\ page.open # None
    /\ page.open.status = "previewed"
    /\ Act(Chain("start", "start", page.open.id, {}, None))

AbortBatch ==
    /\ ~page.busy
    /\ page.open # None
    /\ page.open.status \notin {"done", "aborted"}
    /\ Act(Chain("abort", "abort", page.open.id, {}, None))

\* The links of the list are not disabled.
OpenBatch(b) == Act(Chain("open", "get", b, {}, None))

\* Another tab or page, and back: the chains go on without it.
Leave ==
    /\ page # NoTab
    /\ budget.visits > 0
    /\ page' = NoTab
    /\ chains' = {[c EXCEPT !.mine = FALSE] : c \in chains}
    /\ ticks' = {}
    /\ budget' = [budget EXCEPT !.visits = @ - 1]
    /\ UNCHANGED <<batches, items, running, requested, rehearsed>>

\* The timer of the open batch asks; a change of the open batch drops what it asked.
Tick ==
    /\ page.open # None
    /\ budget.ticks > 0
    /\ ticks' = ticks \cup {Detail(page.open.id)}
    /\ budget' = [budget EXCEPT !.ticks = @ - 1]
    /\ UNCHANGED <<batches, items, running, page, chains, requested, rehearsed>>

TickArrives(d) ==
    /\ d \in ticks
    /\ page' = [page EXCEPT !.open = d]
    /\ ticks' = ticks \ {d}
    /\ UNCHANGED <<batches, items, running, chains, requested, rehearsed, budget>>

-----------------------------------------------------------------------------
(* A chain *)

Goes(c, next) == chains' = (chains \ {c}) \cup {next}

Ends(c) == chains' = chains \ {c}

\* setOpen and setBusy, of a page that is there.
Opened(c, p) == IF c.mine THEN [p EXCEPT !.open = Detail(c.id)] ELSE p
Freed(c, p) == IF c.mine THEN [p EXCEPT !.busy = FALSE] ELSE p

\* A new id ends the timer of the old one, and what it asked is dropped.
StillAsked(c) == IF c.mine THEN {d \in ticks : d.id = c.id} ELSE ticks

\* create_batch: pre-flight refuses some of the cameras, never all of them here.
InsertBatch(c, allowed) ==
    /\ c \in chains
    /\ c.step = "post"
    /\ Len(batches) < MaxBatches
    /\ allowed \in SUBSET c.cams \ {{}}
    /\ batches' = Append(batches, [dry |-> c.do # "deploy", image |-> c.image,
                                   status |-> "previewed"])
    /\ requested' = Append(requested, c.cams)
    /\ Goes(c, [c EXCEPT !.step = "max", !.cams = allowed])
    /\ UNCHANGED <<items, running, page, ticks, rehearsed, budget>>

\* SELECT MAX(id): by now perhaps another request's.
ReadMaxId(c) ==
    /\ c \in chains
    /\ c.step = "max"
    /\ Goes(c, [c EXCEPT !.step = "items", !.id = Len(batches)])
    /\ UNCHANGED <<batches, items, running, page, ticks, requested, rehearsed, budget>>

InsertItems(c) ==
    /\ c \in chains
    /\ c.step = "items"
    /\ items' = items \cup {[batch |-> c.id, cam |-> cam,
                             status |-> IF c.do = "deploy" THEN "pending" ELSE "would_run"]
                            : cam \in c.cams}
    /\ Goes(c, [c EXCEPT !.step = "get"])
    /\ UNCHANGED <<batches, running, page, ticks, requested, rehearsed, budget>>

\* The detail is read and shown.  A deployment that came back live is started.
GetDetail(c) ==
    /\ c \in chains
    /\ c.step = "get"
    /\ IF c.do = "deploy" /\ ~batches[c.id].dry
       THEN /\ page' = Opened(c, page)
            /\ Goes(c, [c EXCEPT !.do = "start", !.step = "start"])
       ELSE /\ page' = Freed(c, Opened(c, page))
            /\ Ends(c)
    /\ ticks' = StillAsked(c)
    /\ UNCHANGED <<batches, items, running, requested, rehearsed, budget>>

\* start_batch: refused while it runs, and by the guard of the runner.
Startable(b) == b \notin running /\ batches[b].status = "previewed"

PostStart(c) ==
    /\ c \in chains
    /\ c.step = "start"
    /\ Startable(c.id)
    /\ running' = running \cup {c.id}
    /\ Goes(c, [c EXCEPT !.step = "get"])
    /\ UNCHANGED <<batches, items, page, ticks, requested, rehearsed, budget>>

\* abort_batch: a batch that was started is halted even when it is done.
Abortable(b) == b \in running \/ batches[b].status \notin {"done", "aborted"}

PostAbort(c) ==
    /\ c \in chains
    /\ c.step = "abort"
    /\ Abortable(c.id)
    /\ batches' = [batches EXCEPT ![c.id].status = "aborted"]
    /\ items' = {IF i.batch = c.id /\ i.status \in {"pending", "would_run"}
                 THEN [i EXCEPT !.status = "skipped"] ELSE i : i \in items}
    /\ Goes(c, [c EXCEPT !.step = "get"])
    /\ UNCHANGED <<running, page, ticks, requested, rehearsed, budget>>

Refused(c) ==
    \/ c.step = "start" /\ ~Startable(c.id)
    \/ c.step = "abort" /\ ~Abortable(c.id)

\* The error takes the place of the whole tab.
Fails(c) ==
    /\ page' = IF c.mine THEN [page EXCEPT !.busy = FALSE, !.error = TRUE] ELSE page
    /\ Ends(c)

ChainRefused(c) ==
    /\ c \in chains
    /\ Refused(c)
    /\ Fails(c)
    /\ UNCHANGED <<batches, items, running, ticks, requested, rehearsed, budget>>

\* A request is lost, or a transaction fails; what was done before stays done.
ChainBreaks(c) ==
    /\ c \in chains
    /\ budget.fails > 0
    /\ Fails(c)
    /\ budget' = [budget EXCEPT !.fails = @ - 1]
    /\ UNCHANGED <<batches, items, running, ticks, requested, rehearsed>>

-----------------------------------------------------------------------------
(* The batch (CameraBatch) *)

\* The task's own guard, and its first write.
BatchRuns(b) ==
    /\ b \in running
    /\ batches[b].status = "previewed"
    /\ batches' = [batches EXCEPT ![b].status = "running"]
    /\ UNCHANGED <<items, running, page, chains, ticks, requested, rehearsed, budget>>

BatchEnds(b) ==
    /\ b \in running
    /\ batches[b].status = "running"
    /\ batches' = [batches EXCEPT ![b].status = "done"]
    /\ items' = IF batches[b].dry THEN items
                ELSE {IF i.batch = b THEN [i EXCEPT !.status = "verified"] ELSE i : i \in items}
    /\ rehearsed' = IF batches[b].dry THEN rehearsed \cup {batches[b].image} ELSE rehearsed
    /\ UNCHANGED <<running, page, chains, ticks, requested, budget>>

Next ==
    \/ \E cams \in SUBSET Cameras, image \in Images : CreateBatch(cams, image)
    \/ Deploy \/ StartBatch \/ AbortBatch \/ Leave \/ Tick
    \/ \E b \in Known : OpenBatch(b) \/ BatchRuns(b) \/ BatchEnds(b)
    \/ \E d \in ticks : TickArrives(d)
    \/ \E c \in chains :
        \/ \E allowed \in SUBSET c.cams : InsertBatch(c, allowed)
        \/ ReadMaxId(c) \/ InsertItems(c) \/ GetDetail(c)
        \/ PostStart(c) \/ PostAbort(c) \/ ChainRefused(c) \/ ChainBreaks(c)

Spec == Init /\ [][Next]_vars

-----------------------------------------------------------------------------
(* Properties *)

TypeOK ==
    /\ Len(batches) <= MaxBatches
    /\ \A b \in Known : batches[b] \in [dry : BOOLEAN, image : Images, status : Status]
    /\ items \subseteq [batch : Known, cam : Cameras,
                        status : {"pending", "would_run", "skipped", "verified"}]
    /\ running \subseteq Known
    /\ page.busy \in BOOLEAN /\ page.error \in BOOLEAN
    /\ page.open # None => page.open.id \in Known
    /\ \A d \in ticks : d.id = page.open.id
    /\ \A c \in chains : c.id \in Known \cup {None}
    /\ Len(requested) = Len(batches)
    /\ rehearsed \subseteq Images

\* A batch that may write to cameras exists only for an image of which a dry run
\* has come back done, whatever the links, the timer and a page that was left have
\* done to the batch that is open (deployFromDryRun, and the API's dry_run).
LiveIsRehearsed == \A b \in Known : ~batches[b].dry => batches[b].image \in rehearsed

\* "A batch names the cameras it will touch": its items are cameras of the request
\* that created it.
NamesItsCameras == \A i \in items : i.cam \in requested[i.batch]
=============================================================================
