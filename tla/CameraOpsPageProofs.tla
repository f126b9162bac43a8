------------------------ MODULE CameraOpsPageProofs ------------------------
(***************************************************************************)
(* Theorems about the bulk camera operations page and its handlers, for    *)
(* any cameras, images, number of batches, clicks and failures.            *)
(*                                                                         *)
(* The page deploys what the batch it shows has rehearsed, and what it     *)
(* shows may be old: SeenInv says that whatever was ever read of a         *)
(* finished dry run, on the page, in an answer or in a chain of requests,  *)
(* is of an image that has been rehearsed.                                 *)
(***************************************************************************)
EXTENDS CameraOpsPage, TLAPS

Steps == {"post", "max", "items", "get", "start", "abort"}
Kinds == {"create", "deploy", "start", "abort", "open"}
Batches == [dry : BOOLEAN, image : Images, status : Status]
RowStatus == {"pending", "would_run", "skipped", "verified"}
ItemRows == [batch : Nat, cam : Cameras, status : RowStatus]
Details == [id : Nat, dry : BOOLEAN, image : Images, status : Status, wouldRun : SUBSET Cameras]
Chains == [do : Kinds, step : Steps, id : Nat \cup {None}, cams : SUBSET Cameras,
           image : Images \cup {None}, mine : BOOLEAN]

TypeInv ==
    /\ batches \in Seq(Batches)
    /\ items \subseteq ItemRows
    /\ running \subseteq Known
    /\ page \in [open : Details \cup {None}, busy : BOOLEAN, error : BOOLEAN]
    /\ chains \subseteq Chains
    /\ ticks \subseteq Details

\* What has been read of a batch that exists.
Seen(d) == d.id \in Known /\ (d.dry /\ d.status = "done" => d.image \in rehearsed)

SeenInv ==
    /\ LiveIsRehearsed
    /\ \A b \in Known : batches[b].dry /\ batches[b].status = "done" => batches[b].image \in rehearsed
    /\ page.open # None => Seen(page.open)
    /\ \A d \in ticks : Seen(d)

\* A deployment carries a rehearsed image, and a chain that has a batch a known one.
ChainInv ==
    \A c \in chains :
        /\ c.step = "post" => c.do \in {"create", "deploy"} /\ c.image \in Images
        /\ c.do = "deploy" => c.image \in rehearsed
        /\ c.step = "max" => Known # {}
        /\ c.step \in {"items", "get", "start", "abort"} => c.id \in Known

IInv == TypeInv /\ SeenInv /\ ChainInv

-----------------------------------------------------------------------------
(* What is read, and what a chain leaves *)

LEMMA KnownBatches ==
    ASSUME TypeInv
    PROVE  /\ Known = 1..Len(batches) /\ Len(batches) \in Nat
           /\ \A b \in Known : b \in Nat /\ batches[b] \in Batches
BY DEF TypeInv, Known

LEMMA DetailIsSeen ==
    ASSUME TypeInv, SeenInv, NEW b \in Known
    PROVE  Detail(b) \in Details /\ Seen(Detail(b))
PROOF
<1>1. b \in Nat /\ batches[b] \in Batches
  BY KnownBatches
<1>2. WouldRun(b) \in SUBSET Cameras
  BY DEF WouldRun, TypeInv, ItemRows
<1> QED
  BY <1>1, <1>2 DEF Detail, Details, Batches, Seen, SeenInv

LEMMA InitInv == Init => IInv
PROOF
<1> SUFFICES ASSUME Init PROVE IInv
  OBVIOUS
<1>1. TypeInv
  BY DEF Init, TypeInv, NoTab, Known
<1>2. SeenInv /\ ChainInv
  BY DEF Init, SeenInv, ChainInv, LiveIsRehearsed, NoTab, Known
<1> QED
  BY <1>1, <1>2 DEF IInv

\* A step that leaves the tables alone keeps the invariant if what it adds to the
\* page and the chains fits them.
LEMMA PageStep ==
    ASSUME IInv, UNCHANGED <<batches, items, rehearsed>>, running' \subseteq Known,
           page' \in [open : Details \cup {None}, busy : BOOLEAN, error : BOOLEAN],
           page'.open # None => Seen(page'.open),
           ticks' \subseteq Details, \A d \in ticks' : Seen(d),
           chains' \subseteq Chains, ChainInv'
    PROVE  IInv'
BY DEF IInv, TypeInv, SeenInv, LiveIsRehearsed, Seen, Known

-----------------------------------------------------------------------------
(* The operator *)

LEMMA ClickStep ==
    ASSUME IInv,
           \/ \E cams \in SUBSET Cameras, image \in Images : CreateBatch(cams, image)
           \/ Deploy \/ StartBatch \/ AbortBatch \/ \E b \in Known : OpenBatch(b)
    PROVE  IInv'
PROOF
<1>1. PICK c \in Chains :
         /\ Act(c)
         /\ c.step = "post" => c.do \in {"create", "deploy"} /\ c.image \in Images
         /\ c.do = "deploy" => c.image \in rehearsed
         /\ c.step # "max"
         /\ c.step \in {"items", "get", "start", "abort"} => c.id \in Known
  <2>1. ASSUME NEW cams \in SUBSET Cameras, NEW image \in Images, CreateBatch(cams, image)
        PROVE  Chain("create", "post", None, cams, image) \in Chains
    BY DEF Chain, Chains, Kinds, Steps
  <2>2. CASE Deploy
    <3>1. page.open \in Details /\ Seen(page.open) /\ page.open.dry /\ page.open.status = "done"
      BY <2>2 DEF Deploy, CanDeploy, IInv, TypeInv, SeenInv
    <3>2. page.open.image \in rehearsed /\ page.open.image \in Images
          /\ page.open.wouldRun \in SUBSET Cameras
      BY <3>1 DEF Details, Seen
    <3>3. Chain("deploy", "post", None, page.open.wouldRun, page.open.image) \in Chains
      BY <3>2 DEF Chain, Chains, Kinds, Steps
    <3> QED
      BY <2>2, <3>2, <3>3 DEF Deploy, Chain
  <2>3. CASE StartBatch \/ AbortBatch
    <3>1. page.open \in Details /\ page.open.id \in Known
      BY <2>3 DEF StartBatch, AbortBatch, IInv, TypeInv, SeenInv, Seen
    <3>2. \A do \in {"start", "abort"} : Chain(do, do, page.open.id, {}, None) \in Chains
      BY <3>1 DEF Chain, Chains, Kinds, Steps, Details
    <3> QED
      BY <2>3, <3>1, <3>2 DEF StartBatch, AbortBatch, Chain
  <2>4. ASSUME NEW b \in Known
        PROVE  Chain("open", "get", b, {}, None) \in Chains
    <3>1. b \in Nat
      BY KnownBatches DEF IInv
    <3> QED
      BY <3>1 DEF Chain, Chains, Kinds, Steps
  <2> QED
    BY <2>1, <2>2, <2>3, <2>4 DEF CreateBatch, OpenBatch, Chain
<1>2. /\ page' = [page EXCEPT !.busy = TRUE] /\ chains' = chains \cup {c}
      /\ UNCHANGED <<batches, items, running, ticks, requested, rehearsed>>
  BY <1>1 DEF Act
<1>3. page' \in [open : Details \cup {None}, busy : BOOLEAN, error : BOOLEAN] /\ page'.open = page.open
  BY <1>2 DEF IInv, TypeInv
<1>4. chains' \subseteq Chains /\ ChainInv'
  BY <1>1, <1>2 DEF IInv, TypeInv, ChainInv, Known
<1> QED
  BY <1>2, <1>3, <1>4, PageStep DEF IInv, TypeInv, SeenInv

LEMMA ElsewhereStep ==
    ASSUME IInv, Leave \/ Tick \/ \E d \in ticks : TickArrives(d)
    PROVE  IInv'
PROOF
<1>1. UNCHANGED <<batches, items, running, rehearsed>>
  BY DEF Leave, Tick, TickArrives
<1>2. CASE Leave
  <2>1. ASSUME NEW c \in chains
        PROVE  /\ [c EXCEPT !.mine = FALSE] \in Chains
               /\ [c EXCEPT !.mine = FALSE].step = c.step /\ [c EXCEPT !.mine = FALSE].do = c.do
               /\ [c EXCEPT !.mine = FALSE].id = c.id /\ [c EXCEPT !.mine = FALSE].image = c.image
    BY DEF IInv, TypeInv, Chains
  <2>2. ASSUME NEW r \in chains'
        PROVE  r \in Chains /\ \E c \in chains : r.step = c.step /\ r.do = c.do /\ r.id = c.id
                                                 /\ r.image = c.image
    BY <1>2, <2>1 DEF Leave
  <2>3. chains' \subseteq Chains /\ ChainInv'
    BY <1>1, <2>2 DEF IInv, ChainInv, Known
  <2>4. page' = NoTab /\ ticks' = {}
    BY <1>2 DEF Leave
  <2>5. page' \in [open : Details \cup {None}, busy : BOOLEAN, error : BOOLEAN] /\ page'.open = None
    BY <2>4 DEF NoTab
  <2> QED
    BY <1>1, <2>3, <2>4, <2>5, PageStep DEF IInv, TypeInv
<1>3. CASE Tick
  <2>1. page.open \in Details /\ page.open.id \in Known
    BY <1>3 DEF Tick, IInv, TypeInv, SeenInv, Seen
  <2>2. Detail(page.open.id) \in Details /\ Seen(Detail(page.open.id))
    BY <2>1, DetailIsSeen DEF IInv
  <2>3. ticks' = ticks \cup {Detail(page.open.id)} /\ UNCHANGED <<page, chains>>
    BY <1>3 DEF Tick
  <2>4. ChainInv'
    BY <1>1, <2>3 DEF IInv, ChainInv, Known
  <2> QED
    BY <1>1, <2>2, <2>3, <2>4, PageStep DEF IInv, TypeInv, SeenInv
<1>4. ASSUME NEW d \in ticks, TickArrives(d) PROVE IInv'
  <2>1. page' = [page EXCEPT !.open = d] /\ ticks' \subseteq ticks /\ UNCHANGED chains
    BY <1>4 DEF TickArrives
  <2>2. d \in Details /\ Seen(d)
    BY DEF IInv, TypeInv, SeenInv
  <2>3. page' \in [open : Details \cup {None}, busy : BOOLEAN, error : BOOLEAN] /\ page'.open = d
    BY <2>1, <2>2 DEF IInv, TypeInv
  <2>4. ChainInv'
    BY <1>1, <2>1 DEF IInv, ChainInv, Known
  <2> QED
    BY <1>1, <2>1, <2>2, <2>3, <2>4, PageStep DEF IInv, TypeInv, SeenInv
<1> QED
  BY <1>2, <1>3, <1>4

-----------------------------------------------------------------------------
(* The handlers *)

\* A step of one chain that changes neither the tables of batches nor the history.
LEMMA ChainStep ==
    ASSUME IInv, NEW c \in chains, ReadMaxId(c) \/ GetDetail(c) \/ PostStart(c)
                                   \/ ChainRefused(c) \/ ChainBreaks(c)
    PROVE  IInv'
PROOF
<1>1. c \in Chains /\ UNCHANGED <<batches, items, rehearsed>>
  BY DEF IInv, TypeInv, ReadMaxId, GetDetail, PostStart, ChainRefused, ChainBreaks
<1>2. running' \subseteq Known
  BY DEF IInv, TypeInv, ChainInv, ReadMaxId, GetDetail, PostStart, ChainRefused, ChainBreaks
<1>3. ticks' \subseteq ticks
  BY DEF ReadMaxId, GetDetail, StillAsked, PostStart, ChainRefused, ChainBreaks
<1>4. /\ page' \in [open : Details \cup {None}, busy : BOOLEAN, error : BOOLEAN]
      /\ page'.open # None => Seen(page'.open)
  <2>1. CASE GetDetail(c)
    <3>1. Detail(c.id) \in Details /\ Seen(Detail(c.id))
      BY <2>1, DetailIsSeen DEF GetDetail, IInv, ChainInv
    <3>2. Opened(c, page) \in [open : Details \cup {None}, busy : BOOLEAN, error : BOOLEAN]
          /\ (Opened(c, page).open # None => Seen(Opened(c, page).open))
      BY <3>1 DEF Opened, IInv, TypeInv, SeenInv
    <3>3. page' = Opened(c, page) \/ page' = Freed(c, Opened(c, page))
      BY <2>1 DEF GetDetail
    <3> QED
      BY <3>2, <3>3 DEF Freed
  <2>2. CASE ~GetDetail(c)
    BY <2>2 DEF IInv, TypeInv, SeenInv, ReadMaxId, PostStart, ChainRefused, ChainBreaks, Fails
  <2> QED
    BY <2>1, <2>2
<1>5. chains' \subseteq Chains /\ ChainInv'
  <2>1. CASE Ends(c)
    BY <1>1, <2>1 DEF Ends, IInv, TypeInv, ChainInv, Known
  <2>2. CASE ReadMaxId(c)
    <3> DEFINE n == [c EXCEPT !.step = "items", !.id = Len(batches)]
    <3>1. Len(batches) \in Known
      BY <2>2, KnownBatches DEF ReadMaxId, IInv, ChainInv
    <3>2. n \in Chains /\ n.do = c.do /\ n.step = "items" /\ n.id \in Known /\ n.image = c.image
      BY <1>1, <3>1, KnownBatches DEF IInv, Chains, Steps
    <3>3. chains' = (chains \ {c}) \cup {n}
      BY <2>2 DEF ReadMaxId, Goes
    <3> HIDE DEF n
    <3> QED
      BY <1>1, <3>2, <3>3 DEF IInv, TypeInv, ChainInv, Known
  <2>3. CASE PostStart(c)
    <3> DEFINE n == [c EXCEPT !.step = "get"]
    <3>1. n \in Chains /\ n.do = c.do /\ n.step = "get" /\ n.id = c.id /\ n.image = c.image
      BY <1>1 DEF Chains, Steps
    <3>2. chains' = (chains \ {c}) \cup {n} /\ c.id \in Known
      BY <2>3 DEF PostStart, Goes, IInv, ChainInv
    <3> HIDE DEF n
    <3> QED
      BY <1>1, <3>1, <3>2 DEF IInv, TypeInv, ChainInv, Known
  <2>4. CASE GetDetail(c) /\ Goes(c, [c EXCEPT !.do = "start", !.step = "start"])
    <3> DEFINE n == [c EXCEPT !.do = "start", !.step = "start"]
    <3>1. n \in Chains /\ n.do = "start" /\ n.step = "start" /\ n.id = c.id
      BY <1>1 DEF Chains, Steps, Kinds
    <3>2. chains' = (chains \ {c}) \cup {n} /\ c.id \in Known
      BY <2>4 DEF GetDetail, Goes, IInv, ChainInv
    <3> HIDE DEF n
    <3> QED
      BY <1>1, <3>1, <3>2 DEF IInv, TypeInv, ChainInv, Known
  <2> QED
    BY <2>1, <2>2, <2>3, <2>4 DEF GetDetail, ChainRefused, ChainBreaks, Fails
<1> QED
  BY <1>1, <1>2, <1>3, <1>4, <1>5, PageStep DEF IInv, TypeInv, SeenInv

\* A new batch is live only if it is a deployment, which carries a rehearsed image.
LEMMA InsertStep ==
    ASSUME IInv, NEW c \in chains, NEW allowed \in SUBSET c.cams, InsertBatch(c, allowed)
    PROVE  IInv'
PROOF
<1> DEFINE new == [dry |-> c.do # "deploy", image |-> c.image, status |-> "previewed"]
           n == [c EXCEPT !.step = "max", !.cams = allowed]
<1>1. /\ batches' = Append(batches, new) /\ chains' = (chains \ {c}) \cup {n}
      /\ UNCHANGED <<items, running, page, ticks, rehearsed>> /\ c.step = "post"
  BY DEF InsertBatch, Goes
<1>2. c \in Chains /\ c.image \in Images /\ (c.do = "deploy" => c.image \in rehearsed)
  BY <1>1 DEF IInv, TypeInv, ChainInv
<1>3. new \in Batches /\ (~new.dry => new.image \in rehearsed) /\ new.status # "done"
  BY <1>2 DEF Batches, Status
<1>4. n \in Chains /\ n.do = c.do /\ n.step = "max" /\ n.image = c.image
  BY <1>2 DEF Chains, Steps
<1> HIDE DEF new, n
<1>5. /\ batches' \in Seq(Batches) /\ Known' = Known \cup {Len(batches) + 1}
      /\ \A b \in Known : batches'[b] = batches[b]
      /\ batches'[Len(batches) + 1] = new
  BY <1>1, <1>3, KnownBatches DEF IInv, TypeInv, Known
<1>6. TypeInv'
  BY <1>1, <1>4, <1>5 DEF IInv, TypeInv
<1>7. SeenInv'
  BY <1>1, <1>3, <1>5 DEF IInv, SeenInv, LiveIsRehearsed, Seen
<1>8. ChainInv'
  BY <1>1, <1>2, <1>4, <1>5 DEF IInv, ChainInv
<1> QED
  BY <1>6, <1>7, <1>8 DEF IInv

LEMMA InsertItemsStep ==
    ASSUME IInv, NEW c \in chains, InsertItems(c)
    PROVE  IInv'
PROOF
<1> DEFINE n == [c EXCEPT !.step = "get"]
<1>1. c \in Chains /\ c.id \in Known /\ c.id \in Nat
  BY KnownBatches DEF InsertItems, IInv, TypeInv, ChainInv
<1>2. n \in Chains /\ n.do = c.do /\ n.step = "get" /\ n.image = c.image /\ n.id = c.id
  BY <1>1 DEF Chains, Steps
<1>3. chains' = (chains \ {c}) \cup {n} /\ UNCHANGED <<batches, running, page, ticks, rehearsed>>
  BY DEF InsertItems, Goes
<1> HIDE DEF n
<1>4. items' \subseteq ItemRows
  <2>1. items \subseteq ItemRows
    BY DEF IInv, TypeInv
  <2>2. c.cams \subseteq Cameras
    BY <1>1 DEF Chains
  <2>3. \A cam \in c.cams, st \in {"pending", "would_run"} :
          [batch |-> c.id, cam |-> cam, status |-> st] \in ItemRows
    BY <1>1, <2>2 DEF ItemRows, RowStatus
  <2> QED
    BY <2>1, <2>3 DEF InsertItems
<1>5. TypeInv'
  BY <1>2, <1>3, <1>4 DEF IInv, TypeInv, Known
<1>6. SeenInv'
  BY <1>3 DEF IInv, SeenInv, LiveIsRehearsed, Seen, Known
<1>7. ChainInv'
  BY <1>1, <1>2, <1>3 DEF IInv, ChainInv, Known
<1> QED
  BY <1>5, <1>6, <1>7 DEF IInv

\* What a batch is for never changes, and it is done only by its own end.
LEMMA StatusStep ==
    ASSUME IInv, NEW b \in Known, NEW st \in Status,
           batches' = [batches EXCEPT ![b].status = st], rehearsed \subseteq rehearsed',
           st = "done" /\ batches[b].dry => batches[b].image \in rehearsed',
           UNCHANGED <<running, page, ticks>>, items' \subseteq ItemRows,
           chains' \subseteq Chains,
           ChainInv => ChainInv'
    PROVE  IInv'
PROOF
<1> DEFINE row == [batches[b] EXCEPT !.status = st]
<1>1. row \in Batches /\ row.dry = batches[b].dry /\ row.image = batches[b].image /\ row.status = st
  BY KnownBatches DEF IInv, Batches
<1>2. batches' = [batches EXCEPT ![b] = row]
  OBVIOUS
<1> HIDE DEF row
<1>3. batches' \in Seq(Batches) /\ Known' = Known
      /\ \A a \in Known : batches'[a] = IF a = b THEN row ELSE batches[a]
  BY <1>1, <1>2 DEF IInv, TypeInv, Known
<1>4. TypeInv'
  BY <1>3 DEF IInv, TypeInv
<1>5. SeenInv'
  BY <1>1, <1>3 DEF IInv, SeenInv, LiveIsRehearsed, Seen
<1> QED
  BY <1>4, <1>5 DEF IInv

LEMMA AbortStep ==
    ASSUME IInv, NEW c \in chains, PostAbort(c)
    PROVE  IInv'
PROOF
<1> DEFINE n == [c EXCEPT !.step = "get"]
<1>1. c \in Chains /\ c.id \in Known
  BY DEF PostAbort, IInv, TypeInv, ChainInv
<1>2. n \in Chains /\ n.do = c.do /\ n.step = "get" /\ n.image = c.image /\ n.id = c.id
  BY <1>1 DEF Chains, Steps
<1>3. /\ chains' = (chains \ {c}) \cup {n} /\ UNCHANGED <<running, page, ticks, rehearsed>>
      /\ batches' = [batches EXCEPT ![c.id].status = "aborted"]
  BY DEF PostAbort, Goes
<1> HIDE DEF n
<1>4. items' \subseteq ItemRows
  <2>1. ASSUME NEW i \in items PROVE i \in ItemRows /\ [i EXCEPT !.status = "skipped"] \in ItemRows
    <3>1. i \in ItemRows
      BY DEF IInv, TypeInv
    <3> QED
      BY <3>1 DEF ItemRows, RowStatus
  <2> QED
    BY <2>1 DEF PostAbort
<1>5. Known' = Known
  BY <1>3 DEF Known
<1>6. chains' \subseteq Chains /\ ChainInv'
  BY <1>1, <1>2, <1>3, <1>5 DEF IInv, TypeInv, ChainInv
<1>7. "aborted" \in Status
  BY DEF Status
<1> QED
  BY <1>1, <1>3, <1>4, <1>6, <1>7, StatusStep

LEMMA BatchStep ==
    ASSUME IInv, NEW b \in Known, BatchRuns(b) \/ BatchEnds(b)
    PROVE  IInv'
PROOF
<1>1. Known' = Known /\ UNCHANGED <<running, page, ticks, chains>> /\ rehearsed \subseteq rehearsed'
  BY DEF BatchRuns, BatchEnds, Known
<1>2. chains' \subseteq Chains /\ (ChainInv => ChainInv')
  BY <1>1 DEF IInv, TypeInv, ChainInv
<1>3. CASE BatchRuns(b)
  BY <1>1, <1>2, <1>3, StatusStep DEF BatchRuns, Status, IInv, TypeInv
<1>4. CASE BatchEnds(b)
  <2>1. items' \subseteq ItemRows
    <3>1. ASSUME NEW i \in items PROVE i \in ItemRows /\ [i EXCEPT !.status = "verified"] \in ItemRows
      <4>1. i \in ItemRows
        BY DEF IInv, TypeInv
      <4> QED
        BY <4>1 DEF ItemRows, RowStatus
    <3> QED
      BY <1>4, <3>1 DEF BatchEnds
  <2>2. "done" \in Status
    BY DEF Status
  <2>3. batches[b].dry => batches[b].image \in rehearsed'
    BY <1>4 DEF BatchEnds
  <2>4. batches' = [batches EXCEPT ![b].status = "done"]
    BY <1>4 DEF BatchEnds
  <2> QED
    BY <1>1, <1>2, <2>1, <2>2, <2>3, <2>4, StatusStep
<1> QED
  BY <1>3, <1>4

LEMMA StepInv == IInv /\ [Next]_vars => IInv'
PROOF
<1> SUFFICES ASSUME IInv, [Next]_vars PROVE IInv'
  OBVIOUS
<1>1. CASE UNCHANGED vars
  BY <1>1 DEF vars, IInv, TypeInv, SeenInv, ChainInv, LiveIsRehearsed, Seen, Known
<1> QED
  BY <1>1, ClickStep, ElsewhereStep, ChainStep, InsertStep, InsertItemsStep, AbortStep, BatchStep
     DEF Next

\* What the rows, the chains and the answers under way refer to is there.
RowsInv ==
    /\ Len(batches) <= MaxBatches
    /\ Len(requested) = Len(batches)
    /\ \A i \in items : i.batch \in Known
    /\ \A d \in ticks : d.id = page.open.id
    /\ \A c \in chains : c.id \in Known \cup {None}
    /\ rehearsed \subseteq Images

\* Nothing that is there goes away.
LEMMA RowsKept ==
    ASSUME IInv, RowsInv, Len(batches') = Len(batches), DOMAIN batches' = DOMAIN batches,
           requested' = requested,
           \A j \in items' : \E i \in items : j.batch = i.batch,
           \A d \in ticks' : d.id = page'.open.id,
           \A r \in chains' : r.id \in Known \cup {None},
           rehearsed' \subseteq Images
    PROVE  RowsInv'
BY DEF RowsInv, Known

LEMMA RowsStep ==
    ASSUME BoundAssumption, IInv, RowsInv, [Next]_vars
    PROVE  RowsInv'
PROOF
<1>1. /\ page \in [open : Details \cup {None}, busy : BOOLEAN, error : BOOLEAN]
      /\ chains \subseteq Chains /\ batches \in Seq(Batches) /\ items \subseteq ItemRows
  BY DEF IInv, TypeInv
<1>2. CASE UNCHANGED <<batches, items, page, chains, ticks, requested, rehearsed>>
  BY <1>2 DEF RowsInv, Known
<1>3. ASSUME NEW c, c.id \in Known \cup {None}, Act(c) PROVE RowsInv'
  <2>1. /\ page'.open = page.open /\ chains' = chains \cup {c}
        /\ UNCHANGED <<batches, items, ticks, requested, rehearsed>>
    BY <1>1, <1>3 DEF Act
  <2> QED
    BY <1>3, <2>1, RowsKept DEF RowsInv
<1>4. CASE \/ \E cams \in SUBSET Cameras, image \in Images : CreateBatch(cams, image)
           \/ Deploy \/ StartBatch \/ AbortBatch \/ \E b \in Known : OpenBatch(b)
  <2>1. page.open # None => page.open.id \in Known
    BY DEF IInv, SeenInv, Seen
  <2> QED
    BY <1>3, <1>4, <2>1 DEF CreateBatch, Deploy, StartBatch, AbortBatch, OpenBatch, Chain
<1>5. CASE Leave
  <2>1. \A c \in chains : [c EXCEPT !.mine = FALSE].id = c.id
    BY <1>1 DEF Chains
  <2>2. /\ ticks' = {} /\ UNCHANGED <<batches, items, requested, rehearsed>>
        /\ chains' = {[c EXCEPT !.mine = FALSE] : c \in chains}
    BY <1>5 DEF Leave
  <2>3. \A r \in chains' : r.id \in Known \cup {None}
    BY <2>1, <2>2 DEF RowsInv
  <2> QED
    BY <2>2, <2>3, RowsKept DEF RowsInv
<1>6. CASE Tick
  <2>1. Detail(page.open.id).id = page.open.id
    BY DEF Detail
  <2>2. /\ ticks' = ticks \cup {Detail(page.open.id)}
        /\ UNCHANGED <<batches, items, page, chains, requested, rehearsed>>
    BY <1>6 DEF Tick
  <2> QED
    BY <2>1, <2>2, RowsKept DEF RowsInv
<1>7. ASSUME NEW d \in ticks, TickArrives(d) PROVE RowsInv'
  <2>1. /\ page'.open = d /\ ticks' \subseteq ticks
        /\ UNCHANGED <<batches, items, chains, requested, rehearsed>>
    BY <1>1, <1>7 DEF TickArrives
  <2>2. \A e \in ticks : e.id = d.id
    BY DEF RowsInv
  <2> QED
    BY <2>1, <2>2, RowsKept DEF RowsInv
<1>8. ASSUME NEW c \in chains, NEW allowed \in SUBSET c.cams, InsertBatch(c, allowed)
      PROVE  RowsInv'
  <2> DEFINE new == [dry |-> c.do # "deploy", image |-> c.image, status |-> "previewed"]
             n == [c EXCEPT !.step = "max", !.cams = allowed]
  <2>1. /\ batches' = Append(batches, new) /\ requested' = Append(requested, c.cams)
        /\ chains' = (chains \ {c}) \cup {n} /\ Len(batches) < MaxBatches
        /\ UNCHANGED <<items, page, ticks, rehearsed>>
    BY <1>8 DEF InsertBatch, Goes
  <2>2. n.id = c.id
    BY <1>1 DEF Chains
  <2> HIDE DEF new, n
  <2>3. /\ Len(batches') = Len(batches) + 1 /\ Len(batches) \in Nat
        /\ Known \subseteq Known'
    BY <1>1, <2>1, KnownBatches DEF IInv, Known
  <2>4. Len(requested') = Len(requested) + 1
    BY <2>1 DEF RowsInv
  <2> QED
    BY <2>1, <2>2, <2>3, <2>4 DEF RowsInv, BoundAssumption
<1>9. ASSUME NEW c \in chains, ReadMaxId(c) \/ InsertItems(c) \/ PostStart(c)
      PROVE  RowsInv'
  <2>1. c \in Chains /\ c.id \in Known \cup {None}
    BY <1>1 DEF RowsInv
  <2>2. UNCHANGED <<batches, page, ticks, requested, rehearsed>>
    BY <1>9 DEF ReadMaxId, InsertItems, PostStart
  <2>3. PICK n : n.id \in Known \cup {None} /\ chains' = (chains \ {c}) \cup {n}
    <3>1. CASE ReadMaxId(c)
      <4>1. Len(batches) \in Known
        BY <3>1, KnownBatches DEF ReadMaxId, IInv, ChainInv
      <4>2. [c EXCEPT !.step = "items", !.id = Len(batches)].id = Len(batches)
        BY <2>1 DEF Chains
      <4> QED
        BY <3>1, <4>1, <4>2 DEF ReadMaxId, Goes
    <3>2. CASE InsertItems(c) \/ PostStart(c)
      <4>1. [c EXCEPT !.step = "get"].id = c.id
        BY <2>1 DEF Chains
      <4> QED
        BY <2>1, <3>2, <4>1 DEF InsertItems, PostStart, Goes
    <3> QED
      BY <1>9, <3>1, <3>2
  <2>4. \A j \in items' : j \in items \/ j.batch \in Known
    BY <1>9 DEF ReadMaxId, InsertItems, PostStart, IInv, ChainInv
  <2> QED
    BY <2>2, <2>3, <2>4 DEF RowsInv, Known
<1>10. ASSUME NEW c \in chains, GetDetail(c) PROVE RowsInv'
  <2>1. c \in Chains /\ c.id \in Known \cup {None}
    BY <1>1 DEF RowsInv
  <2>2. UNCHANGED <<batches, items, requested, rehearsed>> /\ ticks' = StillAsked(c)
    BY <1>10 DEF GetDetail
  <2>3. page'.open = IF c.mine THEN Detail(c.id) ELSE page.open
    <3>1. page' = Opened(c, page) \/ page' = Freed(c, Opened(c, page))
      BY <1>10 DEF GetDetail
    <3> QED
      BY <1>1, <3>1 DEF Opened, Freed
  <2>4. \A d \in ticks' : d.id = page'.open.id
    BY <2>2, <2>3 DEF StillAsked, Detail, RowsInv
  <2>5. [c EXCEPT !.do = "start", !.step = "start"].id = c.id
    BY <2>1 DEF Chains
  <2>6. \A r \in chains' : r \in chains \/ r.id = c.id
    BY <1>10, <2>5 DEF GetDetail, Goes, Ends
  <2> QED
    BY <2>1, <2>2, <2>4, <2>6, RowsKept DEF RowsInv
<1>11. ASSUME NEW c \in chains, PostAbort(c) PROVE RowsInv'
  <2>1. c \in Chains /\ c.id \in Known \cup {None}
    BY <1>1 DEF RowsInv
  <2>2. /\ UNCHANGED <<page, ticks, requested, rehearsed>>
        /\ batches' = [batches EXCEPT ![c.id].status = "aborted"]
    BY <1>11 DEF PostAbort
  <2>3. Len(batches') = Len(batches) /\ DOMAIN batches' = DOMAIN batches
    BY <1>1, <2>2
  <2>4. \A i \in items : [i EXCEPT !.status = "skipped"].batch = i.batch
    BY <1>1 DEF ItemRows
  <2>5. \A j \in items' : \E i \in items : j.batch = i.batch
    BY <1>11, <2>4 DEF PostAbort
  <2>6. [c EXCEPT !.step = "get"].id = c.id
    BY <2>1 DEF Chains
  <2>7. \A r \in chains' : r \in chains \/ r.id = c.id
    BY <1>11, <2>6 DEF PostAbort, Goes
  <2> QED
    BY <2>1, <2>2, <2>3, <2>5, <2>7, RowsKept DEF RowsInv
<1>12. ASSUME NEW c \in chains, ChainRefused(c) \/ ChainBreaks(c) PROVE RowsInv'
  <2>1. page'.open = page.open
    BY <1>1, <1>12 DEF ChainRefused, ChainBreaks, Fails
  <2>2. chains' \subseteq chains /\ UNCHANGED <<batches, items, ticks, requested, rehearsed>>
    BY <1>12 DEF ChainRefused, ChainBreaks, Fails, Ends
  <2> QED
    BY <2>1, <2>2, RowsKept DEF RowsInv
<1>13. ASSUME NEW b \in Known, BatchRuns(b) \/ BatchEnds(b) PROVE RowsInv'
  <2>1. UNCHANGED <<page, ticks, chains, requested>>
    BY <1>13 DEF BatchRuns, BatchEnds
  <2>2. Len(batches') = Len(batches) /\ DOMAIN batches' = DOMAIN batches
    BY <1>1, <1>13 DEF BatchRuns, BatchEnds
  <2>3. \A i \in items : [i EXCEPT !.status = "verified"].batch = i.batch
    BY <1>1 DEF ItemRows
  <2>4. \A j \in items' : \E i \in items : j.batch = i.batch
    <3>1. CASE BatchRuns(b)
      BY <3>1 DEF BatchRuns
    <3>2. CASE BatchEnds(b) /\ items' = items
      BY <3>2
    <3>3. CASE items' = {IF i.batch = b THEN [i EXCEPT !.status = "verified"] ELSE i : i \in items}
      BY <2>3, <3>3
    <3> QED
      BY <1>13, <3>1, <3>2, <3>3 DEF BatchEnds
  <2>5. rehearsed' \subseteq Images
    <3>1. batches[b].image \in Images
      BY KnownBatches DEF IInv, Batches
    <3> QED
      BY <1>13, <3>1 DEF BatchRuns, BatchEnds, RowsInv
  <2> QED
    BY <2>1, <2>2, <2>4, <2>5, RowsKept DEF RowsInv
<1> QED
  BY <1>2, <1>4, <1>5, <1>6, <1>7, <1>8, <1>9, <1>10, <1>11, <1>12, <1>13 DEF Next, vars

LEMMA RowsInit == BoundAssumption /\ Init => RowsInv
BY DEF BoundAssumption, Init, RowsInv

LEMMA TypesFollow == IInv /\ RowsInv => TypeOK
PROOF
<1> SUFFICES ASSUME IInv, RowsInv PROVE TypeOK
  OBVIOUS
<1>1. \A b \in Known : batches[b] \in [dry : BOOLEAN, image : Images, status : Status]
  BY KnownBatches DEF IInv, Batches
<1>2. items \subseteq [batch : Known, cam : Cameras,
                      status : {"pending", "would_run", "skipped", "verified"}]
  BY DEF IInv, TypeInv, ItemRows, RowStatus, RowsInv
<1>3. page.busy \in BOOLEAN /\ page.error \in BOOLEAN /\ running \subseteq Known
  BY DEF IInv, TypeInv
<1>4. page.open # None => page.open.id \in Known
  BY DEF IInv, SeenInv, Seen
<1> QED
  BY <1>1, <1>2, <1>3, <1>4 DEF TypeOK, RowsInv

LEMMA Invariance == Spec => []IInv
BY InitInv, StepInv, PTL DEF Spec

-----------------------------------------------------------------------------
(* Theorems *)

\* Every variable keeps its type, and what the rows, the chains of requests and the
\* answers under way refer to is there; the refreshes that are still listened to
\* are those of the batch that is open.
THEOREM TypesHold == ASSUME BoundAssumption PROVE Spec => []TypeOK
PROOF
<1>1. Init => RowsInv
  BY RowsInit
<1>2. IInv /\ RowsInv /\ [Next]_vars => RowsInv'
  BY RowsStep
<1>3. IInv /\ RowsInv => TypeOK
  BY TypesFollow
<1> QED
  BY <1>1, <1>2, <1>3, Invariance, PTL DEF Spec

\* pages/camera_ops.jsx:436-465 and 616-622: whatever the links, the timer, lost
\* answers and concurrent creations have made of the batch that is open, a batch that
\* may write to cameras is of an image whose dry run came back done.
THEOREM LiveWasRehearsed == Spec => []LiveIsRehearsed
PROOF
<1>1. IInv => LiveIsRehearsed
  BY DEF IInv, SeenInv
<1> QED
  BY <1>1, Invariance, PTL
=============================================================================
