---------------------------- MODULE ConsoleProofs ----------------------------
(***************************************************************************)
(* Theorems about the web interface as one specification: that of its      *)
(* views, for any subjects, any number of requests on their way and any    *)
(* failures and changes of the data, and those of the three pages that     *)
(* edit, carried over from their own modules.                              *)
(*                                                                         *)
(* FlightInv is why the views show the selected subject: when another one  *)
(* is selected, what is still on its way to such a view is discarded, so   *)
(* every request that may still be answered is about the subject selected  *)
(* now.  The parts carry over because a step of the console is a step of   *)
(* one part and leaves the others alone.                                   *)
(***************************************************************************)
EXTENDS Console, Sequences, TLAPS

DeviceViews == {"switchData", "portDetail", "camera", "cameraAlerts", "snapshot"}

\* What such a view asks for belongs to the selection.
Own(q) == q.view \in Mounted /\ (q.view \in DeviceViews => q.of = sel)

FlightInv == \A q \in flight : Own(q)

ViewsInv ==
    /\ shown = [v \in Mounted |-> shown[v]]
    /\ FlightInv
    /\ ShowsSelected

-----------------------------------------------------------------------------
(* The effects *)

LEMMA DeviceViewsClear ==
    ASSUME NEW v \in DeviceViews
    PROVE  View[v].keyed /\ View[v].clears /\ View[v].drops
PROOF
<1>1. SwitchData.keyed /\ SwitchData.clears /\ SwitchData.drops
  BY DEF SwitchData, Panel
<1>2. PortDetail.keyed /\ PortDetail.clears /\ PortDetail.drops
  BY DEF PortDetail, Panel
<1>3. CameraDetail.keyed /\ CameraDetail.clears /\ CameraDetail.drops
  BY DEF CameraDetail, Panel
<1>4. CameraAlerts.keyed /\ CameraAlerts.clears /\ CameraAlerts.drops
  BY DEF CameraAlerts, CameraDetail, Panel
<1>5. Snapshot.keyed /\ Snapshot.clears /\ Snapshot.drops
  BY DEF Snapshot, Panel
<1>6. /\ View["switchData"] = SwitchData /\ View["portDetail"] = PortDetail
      /\ View["camera"] = CameraDetail /\ View["cameraAlerts"] = CameraAlerts
      /\ View["snapshot"] = Snapshot
  BY DEF View
<1> QED
  BY <1>1, <1>2, <1>3, <1>4, <1>5, <1>6 DEF DeviceViews

\* A request is about the subject its effect runs for, and about one of the views.
LEMMA AskingIsOwn ==
    ASSUME NEW vs, NEW s, NEW q \in Asking(vs, s)
    PROVE  q.view \in vs /\ (q.view \in DeviceViews => q.of = s)
PROOF
<1>1. PICK v \in vs : q = Ask(v, s)
  BY DEF Asking
<1>2. q.view = v /\ q.of = IF View[v].keyed THEN s ELSE Any
  BY <1>1 DEF Ask
<1> QED
  BY <1>1, <1>2, DeviceViewsClear

-----------------------------------------------------------------------------
(* The steps of the views *)

LEMMA InitInv == Init => ViewsInv
BY DEF Init, ViewsInv, Mounted, FlightInv, ShowsSelected

\* The first render shows nothing; when the page goes nothing of it stays.
LEMMA PageStep ==
    ASSUME ViewsInv, \/ \E c \in Comps, s \in Subjects \cup {None} : Mount(c, s)
                 \/ Unmount
    PROVE  ViewsInv'
PROOF
<1>1. ASSUME NEW c \in Comps, NEW s \in Subjects \cup {None}, Mount(c, s) PROVE ViewsInv'
  <2>1. shown' = [v \in ViewsOf[c] |-> None] /\ sel' = s
        /\ flight' = Asking({v \in ViewsOf[c] : ~View[v].wait}, s)
    BY <1>1 DEF Mount
  <2>2. Mounted' = ViewsOf[c]
    BY <2>1 DEF Mounted
  <2>3. FlightInv'
    BY <2>1, <2>2, AskingIsOwn DEF FlightInv, Own
  <2> QED
    BY <2>1, <2>2, <2>3 DEF ViewsInv, ShowsSelected
<1>2. CASE Unmount
  BY <1>2 DEF Unmount, ViewsInv, Mounted, FlightInv, ShowsSelected
<1> QED
  BY <1>1, <1>2

\* Another subject empties the views and discards what they wait for.
LEMMA ChooseStep ==
    ASSUME ViewsInv, NEW s, Choose(s)
    PROVE  ViewsInv'
PROOF
<1> DEFINE vs == {v \in Mounted : View[v].keyed}
<1>1. /\ sel' = s
      /\ shown' = [v \in Mounted |-> IF v \in vs /\ View[v].clears THEN None ELSE shown[v]]
      /\ flight' = {q \in flight : q.view \in vs => ~View[q.view].drops}
                   \cup Asking({v \in vs : ~View[v].wait}, s)
  BY DEF Choose
<1>2. Mounted' = Mounted
  BY <1>1 DEF Mounted
<1>3. \A v \in DeviceViews \cap Mounted : v \in vs /\ View[v].clears /\ View[v].drops
  BY DeviceViewsClear
<1>4. FlightInv'
  <2>1. ASSUME NEW q \in flight, q.view \in vs => ~View[q.view].drops PROVE Own(q)'
    BY <1>2, <1>3, <2>1 DEF ViewsInv, FlightInv, Own
  <2>2. ASSUME NEW q \in Asking({v \in vs : ~View[v].wait}, s) PROVE Own(q)'
    BY <1>1, <1>2, AskingIsOwn DEF Own
  <2> QED
    BY <1>1, <2>1, <2>2 DEF FlightInv
<1>5. ShowsSelected'
  BY <1>1, <1>2, <1>3 DEF ShowsSelected, DeviceViews
<1> QED
  BY <1>1, <1>2, <1>4, <1>5 DEF ViewsInv

\* Asking again for the same subject.
LEMMA AskStep ==
    ASSUME ViewsInv, NEW v \in Mounted, Typed(v) \/ Poll(v) \/ Act(v)
    PROVE  ViewsInv'
PROOF
<1>1. shown' = shown /\ sel' = sel
  BY DEF Typed, Poll, Act
<1>2. Mounted' = Mounted
  BY <1>1 DEF Mounted
<1>3. \A q \in flight' : q \in flight \/ Own(q)
  <2>1. CASE Typed(v) \/ Poll(v)
    BY <2>1, AskingIsOwn DEF Typed, Poll, Own
  <2>2. CASE Act(v)
    <3>1. ASSUME NEW q \in Asking(Mounted, sel) PROVE Own([q EXCEPT !.sent = rev + 1])
      <4>1. PICK u \in Mounted : q = Ask(u, sel)
        BY DEF Asking
      <4>2. [q EXCEPT !.sent = rev + 1].view = q.view /\ [q EXCEPT !.sent = rev + 1].of = q.of
        BY <4>1 DEF Ask
      <4> QED
        BY <4>2, AskingIsOwn DEF Own
    <3> QED
      BY <2>2, <3>1 DEF Act
  <2> QED
    BY <2>1, <2>2
<1>4. FlightInv'
  BY <1>1, <1>2, <1>3 DEF ViewsInv, FlightInv, Own
<1> QED
  BY <1>1, <1>2, <1>4 DEF ViewsInv, ShowsSelected

\* What arrives is about the selected subject.
LEMMA ArrivalKeeps ==
    ASSUME ViewsInv, NEW q \in flight, flight' = flight \ {q}, sel' = sel, NEW row,
           shown' = shown \/ shown' = [shown EXCEPT ![q.view] = row],
           row = Blank \/ row.of = q.of
    PROVE  ViewsInv'
PROOF
<1>1. Mounted' = Mounted /\ shown' = [v \in Mounted |-> shown'[v]]
  BY DEF ViewsInv, Mounted
<1>2. Own(q)
  BY DEF ViewsInv, FlightInv
<1>3. FlightInv'
  BY <1>1 DEF ViewsInv, FlightInv, Own
<1>4. ASSUME NEW v \in Mounted PROVE shown'[v] = shown[v] \/ (v = q.view /\ shown'[v] = row)
  <2>1. CASE shown' = shown
    BY <2>1
  <2>2. CASE shown' = [shown EXCEPT ![q.view] = row]
    BY <2>2 DEF Mounted
  <2> QED
    BY <2>1, <2>2
<1>5. ShowsSelected'
  BY <1>1, <1>2, <1>4 DEF ViewsInv, ShowsSelected, Own, DeviceViews
<1> QED
  BY <1>1, <1>3, <1>5 DEF ViewsInv

LEMMA ArrivalStep ==
    ASSUME ViewsInv, NEW q \in flight, Answer(q) \/ Fail(q)
    PROVE  ViewsInv'
PROOF
<1>1. flight' = flight \ {q} /\ sel' = sel
  BY DEF Answer, Fail
<1>2. CASE Answer(q)
  <2>1. PICK r \in q.sent..rev : shown' = [shown EXCEPT ![q.view] = [of |-> q.of, at |-> r]]
    BY <1>2 DEF Answer
  <2>2. [of |-> q.of, at |-> r].of = q.of
    OBVIOUS
  <2> QED
    BY <1>1, <2>1, <2>2, ArrivalKeeps
<1>3. CASE Fail(q)
  <2>1. shown' = shown \/ shown' = [shown EXCEPT ![q.view] = Blank]
    BY <1>3 DEF Fail
  <2> QED
    BY <1>1, <2>1, ArrivalKeeps
<1> QED
  BY <1>2, <1>3

LEMMA StepInv == ViewsInv /\ [Next]_vars => ViewsInv'
PROOF
<1> SUFFICES ASSUME ViewsInv, [Next]_vars PROVE ViewsInv'
  OBVIOUS
<1>1. CASE UNCHANGED vars \/ Change \/ ActFails
  BY <1>1 DEF vars, Change, ActFails, ViewsInv, Mounted, FlightInv, Own, ShowsSelected
<1>2. ASSUME NEW s \in Subjects, Select(s) \/ SelectFirst(s) PROVE ViewsInv'
  BY <1>2, ChooseStep DEF Select, SelectFirst
<1> QED
  BY <1>1, <1>2, PageStep, AskStep, ArrivalStep DEF Next

-----------------------------------------------------------------------------
(* The types of the views *)

\* What is mounted of a component, what its views hold, and what the views in m may
\* have asked for by revision r.
MountedOf(c) == IF c = None THEN {} ELSE ViewsOf[c]
Cells == Rows \cup {None, Blank}
Sent(m, r) == [view : m, of : Subjects \cup {Any}, sent : 0..r]
Budgets == [visits : 0..MaxVisits, selects : 0..MaxSelects, fails : 0..MaxFails,
            changes : 0..MaxChanges, acts : 0..MaxActs]

LEMMA TypesAre ==
    TypeOK <=> /\ comp \in Comps \cup {None} /\ sel \in Subjects \cup {None} /\ rev \in Nat
               /\ shown \in [MountedOf(comp) -> Cells] /\ error \in BOOLEAN
               /\ flight \subseteq Sent(Mounted, rev) /\ typing \subseteq Mounted
               /\ budget \in Budgets
BY DEF TypeOK, MountedOf, Cells, Sent, Budgets

LEMMA SpendingViews ==
    ASSUME budget \in Budgets
    PROVE  /\ budget.visits > 0 => [budget EXCEPT !.visits = @ - 1] \in Budgets
           /\ budget.selects > 0 => [budget EXCEPT !.selects = @ - 1] \in Budgets
           /\ budget.fails > 0 => [budget EXCEPT !.fails = @ - 1] \in Budgets
           /\ budget.changes > 0 => [budget EXCEPT !.changes = @ - 1] \in Budgets
           /\ budget.acts > 0 => [budget EXCEPT !.acts = @ - 1] \in Budgets
BY BoundAssumption DEF Budgets

LEMMA AskingIsTyped ==
    ASSUME rev \in Nat, NEW vs, NEW s \in Subjects \cup {None}
    PROVE  Asking(vs, s) \subseteq Sent(vs, rev)
PROOF
<1>1. ASSUME NEW q \in Asking(vs, s) PROVE q \in Sent(vs, rev)
  <2>1. PICK v \in vs : q = Ask(v, s) /\ (View[v].keyed => s # None)
    BY DEF Asking
  <2>2. q = [view |-> v, of |-> IF View[v].keyed THEN s ELSE Any, sent |-> rev]
    BY <2>1 DEF Ask
  <2> QED
    BY <2>1, <2>2 DEF Sent
<1> QED
  BY <1>1

\* A view asks only if it is mounted, and what was asked stays asked.
LEMMA SentGrows ==
    ASSUME NEW m, NEW n, NEW r \in Nat, NEW t \in Nat, m \subseteq n, r <= t
    PROVE  Sent(m, r) \subseteq Sent(n, t)
BY DEF Sent

LEMMA ViewTypesInit == Init => TypeOK
PROOF
<1> SUFFICES ASSUME Init PROVE TypeOK
  OBVIOUS
<1>1. budget \in Budgets
  BY BoundAssumption DEF Init, Budgets
<1>2. shown \in [MountedOf(comp) -> Cells]
  BY DEF Init, MountedOf
<1> QED
  BY <1>1, <1>2, TypesAre DEF Init

LEMMA ChooseIsTyped ==
    ASSUME TypeOK, NEW s \in Subjects, Choose(s), budget' \in Budgets
    PROVE  TypeOK'
PROOF
<1> DEFINE vs == {v \in Mounted : View[v].keyed}
<1>1. /\ sel' = s
      /\ shown' = [v \in Mounted |-> IF v \in vs /\ View[v].clears THEN None ELSE shown[v]]
      /\ flight' = {q \in flight : q.view \in vs => ~View[q.view].drops}
                   \cup Asking({v \in vs : ~View[v].wait}, s)
      /\ typing' = typing \cup {v \in vs : View[v].wait}
      /\ UNCHANGED <<comp, rev, error>>
  BY DEF Choose
<1>2. Mounted' = Mounted /\ Mounted = MountedOf(comp)
  BY <1>1, TypesAre DEF Mounted
<1>3. shown' \in [MountedOf(comp') -> Cells]
  <2>1. None \in Cells /\ \A v \in Mounted : shown[v] \in Cells
    BY <1>2, TypesAre DEF Cells
  <2> QED
    BY <1>1, <1>2, <2>1
<1>4. flight' \subseteq Sent(Mounted', rev')
  <2>1. Asking({v \in vs : ~View[v].wait}, s) \subseteq Sent({v \in vs : ~View[v].wait}, rev)
    BY AskingIsTyped, TypesAre
  <2>2. Sent({v \in vs : ~View[v].wait}, rev) \subseteq Sent(Mounted, rev)
    BY DEF Sent
  <2> QED
    BY <1>1, <1>2, <2>1, <2>2, TypesAre
<1> QED
  BY <1>1, <1>2, <1>3, <1>4, TypesAre DEF TypeOK, MountedOf, Cells, Sent, Budgets

LEMMA ViewTypesStep == TypeOK /\ [Next]_vars => TypeOK'
PROOF
<1> SUFFICES ASSUME TypeOK, [Next]_vars PROVE TypeOK'
  OBVIOUS
<1> USE TypesAre
<1> DEFINE TypesAfter == /\ comp' \in Comps \cup {None} /\ sel' \in Subjects \cup {None} /\ rev' \in Nat
                     /\ shown' \in [MountedOf(comp') -> Cells] /\ error' \in BOOLEAN
                     /\ flight' \subseteq Sent(Mounted', rev') /\ typing' \subseteq Mounted'
                     /\ budget' \in Budgets
<1>1. TypesAfter => TypeOK'
  BY DEF TypeOK, MountedOf, Cells, Sent, Budgets
<1> HIDE DEF TypesAfter
<1>2. Mounted = MountedOf(comp)
  BY DEF Mounted
<1>3. CASE UNCHANGED vars
  BY <1>1, <1>3 DEF vars, TypesAfter, Mounted
<1>4. ASSUME NEW c \in Comps, NEW s \in Subjects \cup {None}, Mount(c, s) PROVE TypeOK'
  <2>1. /\ comp' = c /\ sel' = s /\ shown' = [v \in ViewsOf[c] |-> None]
        /\ flight' = Asking({v \in ViewsOf[c] : ~View[v].wait}, s)
        /\ typing' = {v \in ViewsOf[c] : View[v].wait}
        /\ budget' = [budget EXCEPT !.visits = @ - 1] /\ budget.visits > 0
        /\ UNCHANGED <<rev, error>>
    BY <1>4 DEF Mount
  <2>2. MountedOf(comp') = ViewsOf[c] /\ Mounted' = ViewsOf[c]
    BY <2>1, CompAssumption DEF MountedOf, Mounted
  <2>3. shown' \in [MountedOf(comp') -> Cells]
    BY <2>1, <2>2 DEF Cells
  <2>4. flight' \subseteq Sent(ViewsOf[c], rev)
    <3>1. flight' \subseteq Sent({v \in ViewsOf[c] : ~View[v].wait}, rev)
      BY <2>1, AskingIsTyped
    <3>2. {v \in ViewsOf[c] : ~View[v].wait} \subseteq ViewsOf[c]
      OBVIOUS
    <3>3. Sent({v \in ViewsOf[c] : ~View[v].wait}, rev) \subseteq Sent(ViewsOf[c], rev)
      BY <3>2, SentGrows
    <3> QED
      BY <3>1, <3>3
  <2> QED
    BY <1>1, <2>1, <2>2, <2>3, <2>4, SpendingViews DEF TypesAfter
<1>5. CASE Unmount
  <2>1. shown' \in [MountedOf(comp') -> Cells]
    BY <1>5 DEF Unmount, MountedOf
  <2> QED
    BY <1>1, <1>5, <2>1 DEF Unmount, TypesAfter
<1>6. ASSUME NEW s \in Subjects, Select(s) \/ SelectFirst(s) PROVE TypeOK'
  BY <1>6, ChooseIsTyped, SpendingViews DEF Select, SelectFirst
<1>7. ASSUME NEW v \in Mounted, Typed(v) \/ Poll(v) \/ Act(v) PROVE TypeOK'
  <2>1. UNCHANGED <<comp, sel, shown, error>> /\ Mounted' = Mounted /\ typing' \subseteq typing
    BY <1>7 DEF Typed, Poll, Act, Mounted
  <2>2. CASE Typed(v) \/ Poll(v)
    <3>1. Asking({v}, sel) \subseteq Sent(Mounted, rev)
      BY AskingIsTyped, SentGrows
    <3> QED
      BY <1>1, <2>1, <2>2, <3>1 DEF Typed, Poll, TypesAfter
  <2>3. CASE Act(v)
    <3>1. /\ rev' = rev + 1 /\ budget' \in Budgets
          /\ flight' = flight \cup {[q EXCEPT !.sent = rev + 1] : q \in Asking(Mounted, sel)}
      BY <2>3, SpendingViews DEF Act
    <3>2. \A q \in Asking(Mounted, sel) : [q EXCEPT !.sent = rev + 1] \in Sent(Mounted, rev + 1)
      BY AskingIsTyped DEF Sent
    <3>3. flight \subseteq Sent(Mounted, rev + 1)
      BY SentGrows
    <3>4. flight' \subseteq Sent(Mounted, rev + 1)
      BY <3>1, <3>2, <3>3
    <3> QED
      BY <1>1, <2>1, <3>1, <3>4 DEF TypesAfter
  <2> QED
    BY <1>7, <2>2, <2>3
<1>8. ASSUME NEW q \in flight, Answer(q) \/ Fail(q) PROVE TypeOK'
  <2>1. UNCHANGED <<comp, sel, rev, typing>> /\ flight' = flight \ {q}
    BY <1>8 DEF Answer, Fail
  <2>2. q.view \in Mounted /\ q.of \in Subjects \cup {Any} /\ q.sent \in Nat
    BY DEF Sent
  <2>3. PICK cell \in Cells : shown' = shown \/ shown' = [shown EXCEPT ![q.view] = cell]
    <3>1. CASE Answer(q)
      <4>1. PICK r \in q.sent..rev : shown' = [shown EXCEPT ![q.view] = [of |-> q.of, at |-> r]]
        BY <3>1 DEF Answer
      <4>2. [of |-> q.of, at |-> r] \in Cells
        BY <2>2, <4>1 DEF Cells, Rows
      <4> QED
        BY <4>1, <4>2
    <3>2. CASE Fail(q)
      BY <3>2 DEF Fail, Cells
    <3> QED
      BY <1>8, <3>1, <3>2
  <2>4. shown' \in [MountedOf(comp') -> Cells] /\ Mounted' = Mounted
    BY <1>2, <2>1, <2>3 DEF Mounted
  <2>5. error' \in BOOLEAN
    BY <1>8 DEF Answer, Fail
  <2>6. budget' \in Budgets
    BY <1>8, SpendingViews DEF Answer, Fail
  <2> QED
    BY <1>1, <2>1, <2>4, <2>5, <2>6 DEF TypesAfter
<1>9. CASE Change
  <2>1. rev' = rev + 1 /\ UNCHANGED <<comp, sel, shown, error, flight, typing>> /\ budget' \in Budgets
    BY <1>9, SpendingViews DEF Change
  <2>2. Mounted' = Mounted /\ flight \subseteq Sent(Mounted, rev + 1)
    BY <2>1, SentGrows DEF Mounted
  <2> QED
    BY <1>1, <2>1, <2>2 DEF TypesAfter
<1>10. CASE ActFails
  BY <1>1, <1>10, SpendingViews DEF ActFails, TypesAfter, Mounted
<1> QED
  BY <1>3, <1>4, <1>5, <1>6, <1>7, <1>8, <1>9, <1>10 DEF Next

-----------------------------------------------------------------------------
(* The buttons that act on a device *)

CameraPage == actPage.kind = "camera"

\* What the page of a camera shows, or has asked for, is the camera in its URL; a
\* page that was left waits for nothing.
PageInv ==
    /\ CameraPage => /\ actPage.device \in {None, actPage.id}
                     /\ actPage.extra \in {None, actPage.device}
    /\ actPage.kind # "none" => actPage.id \in Devices
    /\ \A q \in loads : q.of = actPage.id /\ (CameraPage => q.what = "device")
    /\ actPage.kind = "none" => loads = {}

\* A button that is not as new is drawn; what it asked, and what it ran, is about
\* its own device.
ButtonInv ==
    \A b \in Buttons :
        /\ button[b] # D!Fresh => D!Drawn(actPage, b)
        /\ button[b].at = "confirm" => button[b].asked \in Devices
        /\ CameraPage /\ button[b].at = "confirm" => button[b].asked = actPage.id
        /\ CameraPage /\ button[b].call # 0 => calls[button[b].call].target = actPage.id
        /\ button[b].says # "nothing" => button[b].call # 0
        /\ button[b].says \in {"yes", "no"} => calls[button[b].call].at = "over"
        /\ button[b].says = "yes" => calls[button[b].call].reply = "ok"
        /\ button[b].says = "no" => calls[button[b].call].reply \in {"refused", "error"}

\* How far a call has come, with its row, what became of it and its answer.
CallOK(c) ==
    /\ c.at # "over" => c.reply = "none"
    /\ c.at = "posted" => c.row = "none" /\ ~c.sent
    /\ c.at = "entered" => c.row = "pending" /\ ~c.sent
    /\ c.at = "away" => c.row = "pending"
    /\ c.landed => c.sent
    /\ c.sent => c.row # "none"
    /\ c.row = "refused" => ~c.sent
    /\ c.row = "ok" => c.landed \/ c.button \in D!ByPacketFence
    /\ c.at = "over" => /\ c.row = "pending" => c.reply \in {"error", "lost"}
                        /\ (c.reply = "ok") <=> (c.row = "ok")
                        /\ c.reply = "refused" => ~c.sent
                        /\ c.line = "open" => c.reply \in {"ok", "refused", "unanswered", "error"}

ActionInv ==
    /\ D!TypeOK /\ PageInv /\ ButtonInv /\ D!ActsOnConfirmed
    /\ \A i \in DOMAIN calls : CallOK(calls[i])

\* What no step changes of a call, and its answer stays once it has one.
Kept(c, d) ==
    /\ d.on = c.on /\ d.asked = c.asked /\ d.heading = c.heading /\ d.target = c.target
    /\ c.at = "over" => d.at = "over" /\ d.reply = c.reply

LEMMA UpdateKeepsSeq ==
    ASSUME NEW S, NEW s \in Seq(S), NEW i \in DOMAIN s, NEW e \in S
    PROVE  /\ [s EXCEPT ![i] = e] \in Seq(S)
           /\ Len([s EXCEPT ![i] = e]) = Len(s)
           /\ DOMAIN [s EXCEPT ![i] = e] = DOMAIN s
OBVIOUS

\* One call moves on and nothing else: its handler, or its connection.
Moves(i, d) ==
    /\ d \in D!Calls /\ Kept(calls[i], d) /\ CallOK(d)
    /\ calls' = [calls EXCEPT ![i] = d]
    /\ UNCHANGED <<caps, actPage, loads, button>>

LEMMA HandlerMoves ==
    ASSUME ActionInv, NEW i \in DOMAIN calls, D!Handle(i)
    PROVE  (\E d : Moves(i, d)) /\ actBudget' = actBudget
PROOF
<1> DEFINE c == calls[i]
<1>1. c \in D!Calls /\ CallOK(c)
  BY DEF ActionInv, D!TypeOK
<1>2. UNCHANGED <<caps, actPage, loads, button>> /\ actBudget' = actBudget
  BY DEF D!Handle, D!NotAuthorised, D!Enter, D!Refuse, D!LookupFails, D!Send, D!Accepted,
         D!NotFound, D!Unanswered, D!Unreadable, D!pageVars
<1>3. ASSUME NEW row \in {"none", "ok", "failed", "refused"},
             NEW reply \in {"ok", "refused", "unanswered", "error"}, D!Over(i, row, reply),
             c.at # "over",
             row \in {"none", "refused"} => ~c.sent,
             row = "none" => c.at = "posted",
             (row = "ok") <=> (reply = "ok"),
             row = "ok" => c.landed \/ c.button \in D!ByPacketFence,
             reply = "refused" => ~c.sent
      PROVE  \E d : Moves(i, d)
  <2> DEFINE d == [c EXCEPT !.at = "over", !.row = row, !.reply = reply]
  <2>1. calls' = [calls EXCEPT ![i] = d]
    BY <1>3 DEF D!Over
  <2>2. d \in D!Calls
    BY <1>1 DEF D!Calls
  <2>3. Kept(c, d) /\ CallOK(d)
    BY <1>1, <1>3 DEF Kept, CallOK, D!Calls
  <2> QED
    BY <1>2, <2>1, <2>2, <2>3 DEF Moves
<1>4. CASE D!Enter(i)
  <2> DEFINE d == [c EXCEPT !.at = "entered", !.row = "pending"]
  <2>1. calls' = [calls EXCEPT ![i] = d] /\ c.at = "posted"
    BY <1>4 DEF D!Enter
  <2>2. d \in D!Calls
    BY <1>1 DEF D!Calls
  <2>3. Kept(c, d) /\ CallOK(d)
    BY <1>1, <2>1 DEF Kept, CallOK, D!Calls
  <2> QED
    BY <1>2, <2>1, <2>2, <2>3 DEF Moves
<1>5. CASE D!Send(i)
  <2>1. PICK acts \in BOOLEAN :
            calls' = [calls EXCEPT ![i].at = "away", ![i].sent = TRUE, ![i].landed = acts]
    BY <1>5 DEF D!Send
  <2> DEFINE d == [c EXCEPT !.at = "away", !.sent = TRUE, !.landed = acts]
  <2>2. calls' = [calls EXCEPT ![i] = d] /\ c.at = "entered"
    BY <1>5, <2>1 DEF D!Send
  <2>3. d \in D!Calls
    BY <1>1 DEF D!Calls
  <2>4. Kept(c, d) /\ CallOK(d)
    BY <1>1, <2>2 DEF Kept, CallOK, D!Calls
  <2> QED
    BY <1>2, <2>2, <2>3, <2>4 DEF Moves
<1>6. CASE D!NotAuthorised(i)
  BY <1>1, <1>3, <1>6 DEF D!NotAuthorised, CallOK
<1>7. CASE D!Refuse(i)
  BY <1>1, <1>3, <1>7 DEF D!Refuse, CallOK
<1>8. CASE D!LookupFails(i) \/ D!Unanswered(i)
  BY <1>1, <1>3, <1>8 DEF D!LookupFails, D!Unanswered, CallOK
<1>9. CASE D!Unreadable(i)
  BY <1>1, <1>3, <1>9 DEF D!Unreadable, CallOK
<1>10. CASE D!Accepted(i) \/ D!NotFound(i)
  BY <1>1, <1>3, <1>10 DEF D!Accepted, D!NotFound, CallOK
<1> QED
  BY <1>2, <1>4, <1>5, <1>6, <1>7, <1>8, <1>9, <1>10 DEF D!Handle

LEMMA FaultMoves ==
    ASSUME ActionInv, NEW i \in DOMAIN calls, D!WriteFails(i) \/ D!Drop(i)
    PROVE  (\E d : Moves(i, d)) /\ D!Spend("faults")
PROOF
<1> DEFINE c == calls[i]
<1>1. c \in D!Calls /\ CallOK(c)
  BY DEF ActionInv, D!TypeOK
<1>2. UNCHANGED <<caps, actPage, loads, button>> /\ D!Spend("faults")
  BY DEF D!WriteFails, D!Drop, D!pageVars
<1>3. CASE D!WriteFails(i)
  <2>1. PICK row \in {"none", "pending"} :
            (row = "none" => c.at = "posted") /\ D!Over(i, row, "error")
    BY <1>3 DEF D!WriteFails
  <2> DEFINE d == [c EXCEPT !.at = "over", !.row = row, !.reply = "error"]
  <2>2. calls' = [calls EXCEPT ![i] = d] /\ c.at # "over"
    BY <1>3, <2>1 DEF D!Over, D!WriteFails
  <2>3. d \in D!Calls
    BY <1>1 DEF D!Calls
  <2>4. Kept(c, d) /\ CallOK(d)
    BY <1>1, <2>1, <2>2 DEF Kept, CallOK, D!Calls
  <2> QED
    BY <1>2, <2>2, <2>3, <2>4 DEF Moves
<1>4. CASE D!Drop(i)
  <2>1. PICK at \in {c.at, "over"} :
            /\ at # c.at => c.at = "posted"
            /\ calls' = [calls EXCEPT ![i] = [c EXCEPT !.at = at, !.line = "broken"]]
    BY <1>1, <1>4 DEF D!Drop, D!Calls
  <2> DEFINE d == [c EXCEPT !.at = at, !.line = "broken"]
  <2>2. d \in D!Calls
    BY <1>1 DEF D!Calls
  <2>3. Kept(c, d) /\ CallOK(d)
    BY <1>1, <2>1 DEF Kept, CallOK, D!Calls
  <2> QED
    BY <1>2, <2>1, <2>2, <2>3 DEF Moves
<1> QED
  BY <1>2, <1>3, <1>4

-----------------------------------------------------------------------------
(* The steps of the calls *)

\* A call that moves on keeps what is known of every call and every button.
LEMMA MoveKeeps ==
    ASSUME ActionInv, NEW i \in DOMAIN calls, NEW d, Moves(i, d),
           actBudget' = actBudget \/ D!Spend("faults")
    PROVE  ActionInv'
PROOF
<1>1. calls \in Seq(D!Calls)
  BY DEF ActionInv, D!TypeOK
<1>2. calls' \in Seq(D!Calls) /\ Len(calls') = Len(calls) /\ DOMAIN calls' = DOMAIN calls
  BY <1>1, UpdateKeepsSeq DEF Moves
<1>3. \A j \in DOMAIN calls : Kept(calls[j], calls'[j]) /\ CallOK(calls'[j])
  BY <1>1 DEF Moves, Kept, ActionInv
<1>4. D!TypeOK'
  BY <1>2, PartsAssumption DEF Moves, ActionInv, D!TypeOK, D!Spend, D!BoundAssumption
<1>5. PageInv'
  BY DEF Moves, ActionInv, PageInv, CameraPage
<1>6. ButtonInv'
  <2> SUFFICES ASSUME NEW b \in Buttons
               PROVE  /\ button[b] # D!Fresh => D!Drawn(actPage, b)
                      /\ button[b].at = "confirm" => button[b].asked \in Devices
                      /\ CameraPage /\ button[b].at = "confirm" => button[b].asked = actPage.id
                      /\ CameraPage /\ button[b].call # 0 =>
                             calls'[button[b].call].target = actPage.id
                      /\ button[b].says # "nothing" => button[b].call # 0
                      /\ button[b].says \in {"yes", "no"} => calls'[button[b].call].at = "over"
                      /\ button[b].says = "yes" => calls'[button[b].call].reply = "ok"
                      /\ button[b].says = "no" =>
                             calls'[button[b].call].reply \in {"refused", "error"}
    BY DEF Moves, ButtonInv, CameraPage, D!Fresh, D!Drawn, D!DrawnOn, D!Pages
  <2>1. button[b].call \in 0..Len(calls)
    BY DEF ActionInv, D!TypeOK
  <2>2. button[b].call # 0 => button[b].call \in DOMAIN calls
    BY <1>1, <2>1
  <2> QED
    BY <1>3, <2>2 DEF ActionInv, ButtonInv, Kept
<1>7. D!ActsOnConfirmed'
  BY <1>2, <1>3 DEF ActionInv, D!ActsOnConfirmed, Kept
<1>8. \A j \in DOMAIN calls' : CallOK(calls'[j])
  BY <1>2, <1>3
<1> QED
  BY <1>4, <1>5, <1>6, <1>7, <1>8 DEF ActionInv, CallOK, D!ByPacketFence

\* An answer, or the end of a connection, reaches the button that waits for it.
LEMMA ToldKeeps ==
    ASSUME ActionInv, NEW i \in DOMAIN calls, D!Told(i)
    PROVE  ActionInv'
PROOF
<1> DEFINE c == calls[i]
           d == [c EXCEPT !.line = "closed"]
           says == D!Reading(c)
<1>1. calls \in Seq(D!Calls) /\ c \in D!Calls /\ CallOK(c)
  BY DEF ActionInv, D!TypeOK
<1>2. /\ calls' = [calls EXCEPT ![i] = d]
      /\ UNCHANGED <<caps, actPage, loads, actBudget>>
      /\ c.line = "broken" \/ (c.line = "open" /\ c.at = "over")
  BY DEF D!Told
<1>3. d \in D!Calls /\ Kept(c, d) /\ CallOK(d)
  BY <1>1 DEF D!Calls, Kept, CallOK
<1>4. calls' \in Seq(D!Calls) /\ Len(calls') = Len(calls) /\ DOMAIN calls' = DOMAIN calls
  BY <1>1, <1>2, <1>3, UpdateKeepsSeq
<1>5. \A j \in DOMAIN calls : Kept(calls[j], calls'[j]) /\ CallOK(calls'[j])
  BY <1>1, <1>2, <1>3 DEF Kept, ActionInv
<1>6. /\ says \in {"yes", "no", "maybe"}
      /\ says \in {"yes", "no"} => c.at = "over"
      /\ says = "yes" => c.reply = "ok"
      /\ says = "no" => c.reply \in {"refused", "error"}
  BY <1>1, <1>2 DEF D!Reading, CallOK
<1>7. button' = [b \in Buttons |->
                    IF button[b].call = i
                    THEN [button[b] EXCEPT !.at = IF says = "yes" THEN "done" ELSE "error",
                                           !.says = says]
                    ELSE button[b]]
  BY DEF D!Told
<1> DEFINE R == [at : {"idle", "confirm", "running", "done", "error"},
                 asked : Devices \cup {None}, call : 0..Len(calls),
                 says : {"nothing", "yes", "no", "maybe"}]
<1>8. D!TypeOK'
  <2>1. \A b \in Buttons : button[b] \in R
    BY DEF ActionInv, D!TypeOK
  <2> HIDE DEF says
  <2>2. ASSUME NEW b \in Buttons PROVE button'[b] \in R
    BY <1>6, <1>7, <2>1
  <2>3. button' \in [Buttons -> R]
    BY <1>7, <2>2
  <2> QED
    BY <1>2, <1>4, <2>3 DEF ActionInv, D!TypeOK
<1>9. PageInv'
  BY <1>2 DEF ActionInv, PageInv, CameraPage
<1>10. ButtonInv'
  <2> SUFFICES ASSUME NEW b \in Buttons
               PROVE  /\ button'[b] # D!Fresh => D!Drawn(actPage, b)
                      /\ button'[b].at = "confirm" => button'[b].asked \in Devices
                      /\ CameraPage /\ button'[b].at = "confirm" => button'[b].asked = actPage.id
                      /\ CameraPage /\ button'[b].call # 0 =>
                             calls'[button'[b].call].target = actPage.id
                      /\ button'[b].says # "nothing" => button'[b].call # 0
                      /\ button'[b].says \in {"yes", "no"} => calls'[button'[b].call].at = "over"
                      /\ button'[b].says = "yes" => calls'[button'[b].call].reply = "ok"
                      /\ button'[b].says = "no" =>
                             calls'[button'[b].call].reply \in {"refused", "error"}
    BY <1>2 DEF ButtonInv, CameraPage, D!Fresh, D!Drawn, D!DrawnOn, D!Pages
  <2>1. button[b].call \in 0..Len(calls)
    BY DEF ActionInv, D!TypeOK
  <2>2. button[b].call # 0 => button[b].call \in DOMAIN calls
    BY <1>1, <2>1
  <2>3. CASE button[b].call # i
    <3>1. button'[b] = button[b]
      BY <1>7, <2>3
    <3> QED
      BY <1>5, <2>2, <3>1 DEF ActionInv, ButtonInv, Kept
  <2>4. CASE button[b].call = i
    <3>1. /\ button'[b].at \in {"done", "error"} /\ button'[b].says = says
          /\ button'[b].call = i /\ i # 0
      <4>1. button[b] \in R
        BY DEF ActionInv, D!TypeOK
      <4> HIDE DEF says
      <4>2. i # 0
        BY <1>1
      <4> QED
        BY <1>7, <2>4, <4>1, <4>2
    <3>2. button[b] # D!Fresh
      BY <1>1, <2>4 DEF D!Fresh
    <3> QED
      BY <1>5, <1>6, <2>4, <3>1, <3>2 DEF ActionInv, ButtonInv, Kept
  <2> QED
    BY <2>3, <2>4
<1>11. D!ActsOnConfirmed'
  BY <1>4, <1>5 DEF ActionInv, D!ActsOnConfirmed, Kept
<1>12. \A j \in DOMAIN calls' : CallOK(calls'[j])
  BY <1>4, <1>5
<1> QED
  BY <1>8, <1>9, <1>10, <1>11, <1>12 DEF ActionInv, CallOK, D!ByPacketFence

\* The request that leaves is about the device the page shows, and what was agreed
\* to is what is asked for.
LEMMA RunKeeps ==
    ASSUME ActionInv, NEW b \in Buttons, NEW q \in Devices, D!Drawn(actPage, b),
           CameraPage => q = actPage.id, D!Run(b, q),
           UNCHANGED <<caps, actPage, loads>>, actBudget' = actBudget \/ D!Spend("clicks")
    PROVE  ActionInv'
PROOF
<1> DEFINE c == [button |-> b, on |-> actPage.kind, asked |-> q,
                 heading |-> actPage.device, target |-> D!Target(b),
                 at |-> "posted", line |-> "open", row |-> "none",
                 sent |-> FALSE, landed |-> FALSE, reply |-> "none"]
           n == Len(calls) + 1
           fresh == [D!Fresh EXCEPT !.at = "running", !.call = n]
<1>1. calls' = Append(calls, c) /\ button' = [button EXCEPT ![b] = fresh]
  BY DEF D!Run
<1>2. calls \in Seq(D!Calls) /\ actPage.device \in Devices /\ D!Target(b) \in Devices
      /\ actPage.kind \in D!Pages
  BY PartsAssumption DEF ActionInv, D!TypeOK, D!Drawn, D!Target, D!DeviceAssumption
<1>3. c \in D!Calls /\ CallOK(c)
  BY <1>2 DEF D!Calls, CallOK
<1>4. CameraPage => D!Target(b) = actPage.id /\ actPage.device = actPage.id
  BY <1>2, PartsAssumption DEF ActionInv, PageInv, D!Target, D!DeviceAssumption
<1>5. /\ calls' \in Seq(D!Calls) /\ Len(calls') = n /\ n \in DOMAIN calls' /\ calls'[n] = c
      /\ \A j \in DOMAIN calls : j \in DOMAIN calls' /\ calls'[j] = calls[j]
      /\ \A j \in DOMAIN calls' : j \in DOMAIN calls \/ j = n
  BY <1>1, <1>2, <1>3
<1>6. D!TypeOK'
  <2>1. \A u \in Buttons : button'[u].call \in 0..Len(calls')
    BY <1>1, <1>5 DEF ActionInv, D!TypeOK, D!Fresh
  <2>2. button' \in [Buttons -> [at : {"idle", "confirm", "running", "done", "error"},
                                 asked : Devices \cup {None}, call : 0..Len(calls'),
                                 says : {"nothing", "yes", "no", "maybe"}]]
    BY <1>1, <1>5, <2>1 DEF ActionInv, D!TypeOK, D!Fresh
  <2>3. actBudget' \in [visits : 0..MaxTabs, selects : 0..MaxSelects,
                        clicks : 0..MaxPresses, faults : 0..MaxFaults]
    BY PartsAssumption DEF ActionInv, D!TypeOK, D!Spend, D!BoundAssumption
  <2> HIDE DEF c, n, fresh
  <2> QED
    BY <1>5, <2>2, <2>3 DEF ActionInv, D!TypeOK
<1>7. PageInv'
  BY DEF ActionInv, PageInv, CameraPage
<1>8. ButtonInv'
  <2> SUFFICES ASSUME NEW u \in Buttons
               PROVE  /\ button'[u] # D!Fresh => D!Drawn(actPage, u)
                      /\ button'[u].at = "confirm" => button'[u].asked \in Devices
                      /\ CameraPage /\ button'[u].at = "confirm" => button'[u].asked = actPage.id
                      /\ CameraPage /\ button'[u].call # 0 =>
                             calls'[button'[u].call].target = actPage.id
                      /\ button'[u].says # "nothing" => button'[u].call # 0
                      /\ button'[u].says \in {"yes", "no"} => calls'[button'[u].call].at = "over"
                      /\ button'[u].says = "yes" => calls'[button'[u].call].reply = "ok"
                      /\ button'[u].says = "no" =>
                             calls'[button'[u].call].reply \in {"refused", "error"}
    BY DEF ButtonInv, CameraPage, D!Fresh, D!Drawn, D!DrawnOn, D!Pages
  <2>1. button[u].call \in 0..Len(calls)
    BY DEF ActionInv, D!TypeOK
  <2>2. button[u].call # 0 => button[u].call \in DOMAIN calls
    BY <1>2, <2>1
  <2>3. CASE u # b
    <3>1. button'[u] = button[u]
      BY <1>1, <2>3 DEF ActionInv, D!TypeOK
    <3> QED
      BY <1>5, <2>2, <3>1 DEF ActionInv, ButtonInv
  <2>4. CASE u = b
    <3>1. button'[u] = fresh
      BY <1>1, <2>4 DEF ActionInv, D!TypeOK
    <3>2. fresh.at = "running" /\ fresh.call = n /\ fresh.says = "nothing" /\ n # 0
      BY <1>2 DEF D!Fresh
    <3> QED
      BY <1>4, <1>5, <2>4, <3>1, <3>2
  <2> QED
    BY <2>3, <2>4
<1>9. D!ActsOnConfirmed'
  <2>1. c.on = "camera" => c.asked = c.target /\ c.heading = c.target
    BY <1>4 DEF CameraPage
  <2> QED
    BY <1>5, <2>1 DEF ActionInv, D!ActsOnConfirmed
<1>10. \A j \in DOMAIN calls' : CallOK(calls'[j])
  BY <1>3, <1>5 DEF ActionInv
<1> QED
  BY <1>6, <1>7, <1>8, <1>9, <1>10 DEF ActionInv, CallOK, D!ByPacketFence

-----------------------------------------------------------------------------
(* The steps of the buttons and of their pages *)

LEMMA SpendKeeps ==
    ASSUME D!TypeOK, NEW what \in {"visits", "selects", "clicks", "faults"}, D!Spend(what)
    PROVE  actBudget' \in [visits : 0..MaxTabs, selects : 0..MaxSelects, clicks : 0..MaxPresses,
                           faults : 0..MaxFaults]
PROOF
<1> DEFINE B == [visits : 0..MaxTabs, selects : 0..MaxSelects, clicks : 0..MaxPresses,
                 faults : 0..MaxFaults]
<1>1. MaxTabs \in Nat /\ MaxSelects \in Nat /\ MaxPresses \in Nat /\ MaxFaults \in Nat
  BY PartsAssumption DEF D!BoundAssumption
<1>2. actBudget \in B
  BY DEF D!TypeOK
<1>3. actBudget[what] > 0 /\ actBudget' = [actBudget EXCEPT ![what] = @ - 1]
  BY DEF D!Spend
<1>4. CASE what = "visits"
  BY <1>1, <1>2, <1>3, <1>4
<1>5. CASE what = "selects"
  BY <1>1, <1>2, <1>3, <1>5
<1>6. CASE what = "clicks"
  BY <1>1, <1>2, <1>3, <1>6
<1>7. CASE what = "faults"
  BY <1>1, <1>2, <1>3, <1>7
<1> QED
  BY <1>4, <1>5, <1>6, <1>7

\* A click, and its confirmation or withdrawal.
LEMMA ButtonKeeps ==
    ASSUME ActionInv, NEW b \in Buttons, D!Press(b) \/ D!Confirm(b) \/ D!Cancel(b)
    PROVE  ActionInv'
PROOF
<1> DEFINE R == [at : {"idle", "confirm", "running", "done", "error"},
                 asked : Devices \cup {None}, call : 0..Len(calls),
                 says : {"nothing", "yes", "no", "maybe"}]
<1>1. button \in [Buttons -> R]
  BY DEF ActionInv, D!TypeOK
<1>2. ASSUME D!Drawn(actPage, b)
      PROVE  /\ D!Target(b) \in Devices
             /\ CameraPage => D!Target(b) = actPage.id
  BY <1>2, PartsAssumption DEF ActionInv, D!TypeOK, PageInv, D!Drawn, D!Target, D!DeviceAssumption
<1>3. ASSUME NEW r \in R, button' = [button EXCEPT ![b] = r],
             UNCHANGED <<caps, actPage, loads, calls>>,
             actBudget' = actBudget \/ D!Spend("clicks"),
             D!Drawn(actPage, b), r.call = button[b].call, r.says = button[b].says,
             r.at = "confirm" => r.asked \in Devices /\ (CameraPage => r.asked = actPage.id)
      PROVE  ActionInv'
  <2>1. D!TypeOK'
    <3>1. button' \in [Buttons -> R]
      BY <1>1, <1>3
    <3>2. actBudget' \in [visits : 0..MaxTabs, selects : 0..MaxSelects, clicks : 0..MaxPresses,
                          faults : 0..MaxFaults]
      BY <1>3, SpendKeeps DEF ActionInv, D!TypeOK
    <3> QED
      BY <1>3, <3>1, <3>2 DEF ActionInv, D!TypeOK
  <2>2. PageInv' /\ D!ActsOnConfirmed' /\ \A j \in DOMAIN calls' : CallOK(calls'[j])
    BY <1>3 DEF ActionInv, PageInv, CameraPage, D!ActsOnConfirmed
  <2>3. ButtonInv'
    <3>1. \A u \in Buttons : button'[u] = IF u = b THEN r ELSE button[u]
      BY <1>1, <1>3
    <3> QED
      BY <1>3, <3>1 DEF ActionInv, ButtonInv, CameraPage, D!Fresh, D!Drawn, D!DrawnOn, D!Pages
  <2> QED
    BY <2>1, <2>2, <2>3 DEF ActionInv, CallOK, D!ByPacketFence
<1>4. CASE D!Press(b)
  <2>1. D!Drawn(actPage, b) /\ UNCHANGED <<caps, actPage, loads>> /\ D!Spend("clicks")
    BY <1>4 DEF D!Press
  <2>2. CASE b \in D!Disruptive
    <3> DEFINE r == [button[b] EXCEPT !.at = "confirm", !.asked = D!Target(b)]
    <3>1. button' = [button EXCEPT ![b] = r] /\ calls' = calls
      BY <1>1, <1>4, <2>2 DEF D!Press
    <3>2. r \in R /\ r.asked = D!Target(b) /\ r.call = button[b].call /\ r.says = button[b].says
      BY <1>1, <1>2, <2>1
    <3> QED
      BY <1>2, <1>3, <2>1, <3>1, <3>2
  <2>3. CASE b \notin D!Disruptive
    <3>1. D!Run(b, D!Target(b))
      BY <1>4, <2>3 DEF D!Press
    <3> QED
      BY <1>2, <2>1, <3>1, RunKeeps
  <2> QED
    BY <2>2, <2>3
<1>5. CASE D!Confirm(b) \/ D!Cancel(b)
  <2>1. button[b].at = "confirm" /\ UNCHANGED <<caps, actPage, loads, actBudget>>
    BY <1>5 DEF D!Confirm, D!Cancel
  <2>2. /\ D!Drawn(actPage, b)
        /\ button[b].asked \in Devices
        /\ CameraPage => button[b].asked = actPage.id
    BY <2>1 DEF ActionInv, ButtonInv, D!Fresh
  <2>3. CASE D!Confirm(b)
    BY <2>1, <2>2, <2>3, RunKeeps DEF D!Confirm
  <2>4. CASE D!Cancel(b)
    <3> DEFINE r == [button[b] EXCEPT !.at = "idle", !.asked = None]
    <3>1. button' = [button EXCEPT ![b] = r] /\ calls' = calls
      BY <1>1, <2>4 DEF D!Cancel
    <3>2. r \in R /\ r.at = "idle" /\ r.call = button[b].call /\ r.says = button[b].says
      BY <1>1
    <3> QED
      BY <1>3, <2>1, <2>2, <3>1, <3>2
  <2> QED
    BY <1>5, <2>3, <2>4
<1> QED
  BY <1>4, <1>5

\* Whatever the page becomes, a render leaves what is known of the buttons, if what
\* it draws for a camera was drawn for the same one.
LEMMA RenderKeeps ==
    ASSUME ActionInv, button' = D!Redrawn(actPage'), PageInv', caps' = caps,
           actPage' \in [kind : D!Pages \cup {"none"}, id : Devices \cup {None},
                         device : Devices \cup {None}, extra : Devices \cup {None},
                         error : BOOLEAN],
           loads' \subseteq D!Loads,
           \A b \in Buttons :
               D!Drawn(actPage', b) /\ CameraPage' => CameraPage /\ actPage'.id = actPage.id,
           calls' \in Seq(D!Calls), Len(calls') = Len(calls),
           \A j \in DOMAIN calls : Kept(calls[j], calls'[j]) /\ CallOK(calls'[j]),
           actBudget' = actBudget \/ \E what \in {"visits", "selects", "faults"} : D!Spend(what)
    PROVE  ActionInv'
PROOF
<1> DEFINE R == [at : {"idle", "confirm", "running", "done", "error"},
                 asked : Devices \cup {None}, call : 0..Len(calls),
                 says : {"nothing", "yes", "no", "maybe"}]
<1>1. button \in [Buttons -> R] /\ D!Fresh \in R /\ calls \in Seq(D!Calls)
  BY DEF ActionInv, D!TypeOK, D!Fresh
<1>2. DOMAIN calls' = DOMAIN calls
  BY <1>1
<1>3. \A b \in Buttons : button'[b] = IF D!Drawn(actPage', b) THEN button[b] ELSE D!Fresh
  BY DEF D!Redrawn, D!Drawn, D!Fresh, D!DrawnOn, D!Pages
<1>4. D!TypeOK'
  <2>1. button' \in [Buttons -> R]
    BY <1>1, <1>3 DEF D!Redrawn
  <2>2. actBudget' \in [visits : 0..MaxTabs, selects : 0..MaxSelects, clicks : 0..MaxPresses,
                        faults : 0..MaxFaults]
    BY SpendKeeps DEF ActionInv, D!TypeOK
  <2> QED
    BY <2>1, <2>2 DEF ActionInv, D!TypeOK
<1>5. ButtonInv'
  <2> SUFFICES ASSUME NEW b \in Buttons
               PROVE  /\ button'[b] # D!Fresh => D!Drawn(actPage', b)
                      /\ button'[b].at = "confirm" => button'[b].asked \in Devices
                      /\ CameraPage' /\ button'[b].at = "confirm" =>
                             button'[b].asked = actPage'.id
                      /\ CameraPage' /\ button'[b].call # 0 =>
                             calls'[button'[b].call].target = actPage'.id
                      /\ button'[b].says # "nothing" => button'[b].call # 0
                      /\ button'[b].says \in {"yes", "no"} => calls'[button'[b].call].at = "over"
                      /\ button'[b].says = "yes" => calls'[button'[b].call].reply = "ok"
                      /\ button'[b].says = "no" =>
                             calls'[button'[b].call].reply \in {"refused", "error"}
    BY DEF ButtonInv, CameraPage, D!Fresh, D!Drawn, D!DrawnOn, D!Pages
  <2>1. button[b].call # 0 => button[b].call \in DOMAIN calls
    BY <1>1
  <2>2. CASE ~D!Drawn(actPage', b)
    <3>1. button'[b] = D!Fresh
      BY <1>3, <2>2
    <3> QED
      BY <3>1 DEF D!Fresh
  <2>3. CASE D!Drawn(actPage', b)
    <3>1. button'[b] = button[b]
      BY <1>3, <2>3
    <3> QED
      BY <2>1, <2>3, <3>1 DEF ActionInv, ButtonInv, Kept
  <2> QED
    BY <2>2, <2>3
<1>6. D!ActsOnConfirmed'
  BY <1>2 DEF ActionInv, D!ActsOnConfirmed, Kept
<1>7. \A j \in DOMAIN calls' : CallOK(calls'[j])
  BY <1>2
<1> QED
  BY <1>4, <1>5, <1>6, <1>7 DEF ActionInv, CallOK, D!ByPacketFence

LEMMA ActionStarts == D!Init => ActionInv
PROOF
<1> SUFFICES ASSUME D!Init PROVE ActionInv
  OBVIOUS
<1>1. D!TypeOK
  BY PartsAssumption DEF D!Init, D!TypeOK, D!NoPage, D!Fresh, D!BoundAssumption
<1>2. PageInv /\ ButtonInv
  BY DEF D!Init, D!NoPage, D!Fresh, PageInv, ButtonInv, CameraPage
<1>3. DOMAIN calls = {}
  BY DEF D!Init
<1> QED
  BY <1>1, <1>2, <1>3 DEF ActionInv, D!ActsOnConfirmed

\* Calls are left alone by most of the page's steps.
LEMMA CallsStay ==
    ASSUME ActionInv, calls' = calls
    PROVE  /\ calls' \in Seq(D!Calls) /\ Len(calls') = Len(calls)
           /\ \A j \in DOMAIN calls : Kept(calls[j], calls'[j]) /\ CallOK(calls'[j])
BY DEF ActionInv, D!TypeOK, Kept

PageType == [kind : D!Pages \cup {"none"}, id : Devices \cup {None},
             device : Devices \cup {None}, extra : Devices \cup {None}, error : BOOLEAN]

\* A page is opened, left, or shown for another device.
LEMMA SelectKeeps ==
    ASSUME ActionInv, \/ \E k \in D!Pages, d \in Devices : D!Visit(k, d)
                      \/ D!Leave
                      \/ \E d \in Devices : D!Select(d)
    PROVE  ActionInv'
PROOF
<1>1. actPage \in PageType /\ loads \subseteq D!Loads
  BY DEF ActionInv, D!TypeOK, PageType
<1>2. ASSUME NEW k \in D!Pages, NEW d \in Devices, D!Visit(k, d) PROVE ActionInv'
  <2>1. /\ actPage' = [D!NoPage EXCEPT !.kind = k, !.id = d]
        /\ loads' = {D!Load("device", d)} /\ actPage.kind = "none"
        /\ D!Spend("visits") /\ UNCHANGED <<caps, button, calls>>
    BY <1>2 DEF D!Visit
  <2>2. actPage' \in PageType /\ loads' \subseteq D!Loads /\ PageInv'
    <3>1. actPage' = [kind |-> k, id |-> d, device |-> None, extra |-> None, error |-> FALSE]
      BY <2>1 DEF D!NoPage
    <3>2. loads' \subseteq D!Loads
      BY <2>1 DEF D!Load, D!Loads
    <3>3. actPage' \in PageType
      BY <3>1 DEF PageType
    <3>4. actPage'.kind # "none" /\ actPage'.id = d
      BY <3>1 DEF D!Pages
    <3>5. \A q \in loads' : q.of = d /\ q.what = "device"
      BY <2>1 DEF D!Load
    <3>6. PageInv'
      BY <3>1, <3>4, <3>5 DEF PageInv, CameraPage
    <3> QED
      BY <3>2, <3>3, <3>6
  <2>3. \A b \in Buttons : ~D!Drawn(actPage', b) /\ ~D!Drawn(actPage, b)
    BY <2>1 DEF D!Drawn, D!NoPage, D!Pages
  <2>4. button' = D!Redrawn(actPage')
    BY <2>1, <2>3 DEF ActionInv, D!TypeOK, ButtonInv, D!Redrawn
  <2> QED
    BY <2>1, <2>2, <2>3, <2>4, CallsStay, RenderKeeps DEF PageType
<1>3. CASE D!Leave
  <2>1. /\ actPage' = D!NoPage /\ loads' = {} /\ button' = D!Redrawn(actPage')
        /\ UNCHANGED <<caps, calls, actBudget>>
    BY <1>3 DEF D!Leave
  <2>2. actPage' \in PageType /\ loads' \subseteq D!Loads /\ PageInv' /\ ~CameraPage'
    BY <2>1 DEF PageType, D!NoPage, PageInv, CameraPage, D!Pages
  <2> QED
    BY <2>1, <2>2, CallsStay, RenderKeeps DEF PageType
<1>4. ASSUME NEW d \in Devices, D!Select(d) PROVE ActionInv'
  <2>1. /\ actPage' = IF CameraPage
                      THEN [actPage EXCEPT !.id = d, !.device = None, !.extra = None]
                      ELSE [actPage EXCEPT !.id = d]
        /\ loads' = {D!Load("device", d)} /\ actPage.kind # "none"
        /\ button' = D!Redrawn(actPage')
        /\ D!Spend("selects") /\ UNCHANGED <<caps, calls>>
    BY <1>4 DEF D!Select, CameraPage
  <2>2. actPage' \in PageType /\ loads' \subseteq D!Loads
    <3> loads' \subseteq D!Loads
      BY <2>1 DEF D!Load, D!Loads
    <3>1. CASE CameraPage
      <4>1. actPage' = [actPage EXCEPT !.id = d, !.device = None, !.extra = None]
        BY <2>1, <3>1
      <4> QED
        BY <1>1, <4>1 DEF PageType
    <3>2. CASE ~CameraPage
      BY <1>1, <2>1, <3>2 DEF PageType, D!Load, D!Loads
    <3> QED
      BY <3>1, <3>2
  <2>3. PageInv'
    BY <1>1, <2>1 DEF PageType, D!Load, PageInv, CameraPage
  <2>4. \A b \in Buttons : ~(D!Drawn(actPage', b) /\ CameraPage')
    BY <1>1, <2>1 DEF PageType, D!Drawn, CameraPage
  <2> QED
    BY <2>1, <2>2, <2>3, <2>4, CallsStay, RenderKeeps DEF PageType
<1> QED
  BY <1>2, <1>3, <1>4

\* An answer for the page arrives, or none.
LEMMA LoadKeeps ==
    ASSUME ActionInv, NEW q \in loads, D!DeviceArrives(q) \/ D!ExtraArrives(q) \/ D!LoadFails(q)
    PROVE  ActionInv'
PROOF
<1>1. actPage \in PageType /\ loads \subseteq D!Loads /\ q \in D!Loads
  BY DEF ActionInv, D!TypeOK, PageType
<1>2. q.of = actPage.id /\ actPage.kind # "none" /\ (CameraPage => q.what = "device")
  BY DEF ActionInv, PageInv
<1>3. button' = D!Redrawn(actPage') /\ UNCHANGED <<caps, calls>>
  BY DEF D!DeviceArrives, D!ExtraArrives, D!LoadFails
<1>4. actBudget' = actBudget \/ D!Spend("faults")
  BY DEF D!DeviceArrives, D!ExtraArrives, D!LoadFails
<1>5. /\ loads' \subseteq loads \cup {D!Load("extra", q.of)}
      /\ CameraPage => loads' \subseteq loads
  BY DEF D!DeviceArrives, D!ExtraArrives, D!LoadFails, CameraPage
<1>6. /\ actPage' \in PageType /\ actPage'.kind = actPage.kind /\ actPage'.id = actPage.id
      /\ CameraPage => \/ /\ actPage'.device = q.of
                          /\ actPage'.extra \in {q.of, None}
                       \/ actPage'.device = actPage.device /\ actPage'.extra = actPage.extra
  <2>1. CASE D!DeviceArrives(q)
    <3>1. PICK e \in {q.of, None, actPage.extra} :
              /\ actPage' = [actPage EXCEPT !.device = q.of, !.extra = e]
              /\ CameraPage => e # actPage.extra \/ e \in {q.of, None}
      BY <1>1, <2>1 DEF D!DeviceArrives, CameraPage, PageType
    <3> QED
      BY <1>1, <3>1 DEF PageType, D!Loads
  <2>2. CASE D!ExtraArrives(q)
    BY <1>1, <1>2, <2>2 DEF D!ExtraArrives, PageType, D!Loads
  <2>3. CASE D!LoadFails(q)
    BY <1>1, <2>3 DEF D!LoadFails, PageType
  <2> QED
    BY <2>1, <2>2, <2>3
<1>7. loads' \subseteq D!Loads
  BY <1>1, <1>5 DEF D!Load, D!Loads
<1>8. PageInv'
  BY <1>1, <1>2, <1>5, <1>6 DEF ActionInv, PageInv, CameraPage, D!Load
<1> QED
  BY <1>3, <1>4, <1>6, <1>7, <1>8, CallsStay, RenderKeeps DEF PageType, CameraPage

\* The page asks again, or learns what the server offers.
LEMMA AskKeeps ==
    ASSUME ActionInv, D!Poll \/ D!LearnCaps
    PROVE  ActionInv'
PROOF
<1>1. UNCHANGED <<actPage, button, calls>>
  BY DEF D!Poll, D!LearnCaps
<1>2. ButtonInv' /\ D!ActsOnConfirmed' /\ \A j \in DOMAIN calls' : CallOK(calls'[j])
  BY <1>1 DEF ActionInv, ButtonInv, CameraPage, D!ActsOnConfirmed,
              D!Fresh, D!Drawn, D!DrawnOn, D!Pages
<1>3. CASE D!Poll
  <2>1. /\ CameraPage /\ loads' = loads \cup {D!Load("device", actPage.id)}
        /\ UNCHANGED <<caps, actBudget>>
    BY <1>3 DEF D!Poll, CameraPage
  <2>2. actPage.id \in Devices
    BY <2>1 DEF ActionInv, PageInv, CameraPage
  <2>3. D!TypeOK'
    BY <1>1, <2>1, <2>2 DEF ActionInv, D!TypeOK, D!Load, D!Loads
  <2>4. PageInv'
    BY <1>1, <2>1, <2>2 DEF ActionInv, PageInv, CameraPage, D!Load
  <2> QED
    BY <1>2, <2>3, <2>4 DEF ActionInv, CallOK, D!ByPacketFence
<1>4. CASE D!LearnCaps
  <2>1. /\ caps' \in {"unknown", "on", "off", "lost"} /\ loads' = loads
        /\ actBudget' = actBudget \/ D!Spend("faults")
    BY <1>4 DEF D!LearnCaps
  <2>2. D!TypeOK'
    BY <1>1, <2>1, SpendKeeps DEF ActionInv, D!TypeOK
  <2>3. PageInv'
    BY <1>1, <2>1 DEF ActionInv, PageInv, CameraPage
  <2> QED
    BY <1>2, <2>2, <2>3 DEF ActionInv, CallOK, D!ByPacketFence
<1> QED
  BY <1>3, <1>4

\* A restart of the process ends what was on its way.
LEMMA CrashKeeps ==
    ASSUME ActionInv, D!Crash
    PROVE  ActionInv'
PROOF
<1> DEFINE Lost(c) == [c EXCEPT !.at = "over", !.reply = "lost",
                               !.line = IF @ = "open" THEN "broken" ELSE @]
<1>1. calls \in Seq(D!Calls) /\ \A j \in DOMAIN calls : calls[j] \in D!Calls /\ CallOK(calls[j])
  BY DEF ActionInv, D!TypeOK
<1>2. calls' = [j \in DOMAIN calls |-> IF calls[j].at = "over" THEN calls[j] ELSE Lost(calls[j])]
  BY DEF D!Crash
<1>3. ASSUME NEW c \in D!Calls, CallOK(c), c.at # "over"
      PROVE  Lost(c) \in D!Calls /\ Kept(c, Lost(c)) /\ CallOK(Lost(c))
  <2>1. Lost(c) \in D!Calls /\ Kept(c, Lost(c))
    BY <1>3 DEF D!Calls, Kept
  <2>2. CallOK(Lost(c))
    BY <1>3 DEF D!Calls, CallOK
  <2> QED
    BY <2>1, <2>2
<1>4. /\ calls' \in Seq(D!Calls) /\ Len(calls') = Len(calls)
      /\ \A j \in DOMAIN calls : Kept(calls[j], calls'[j]) /\ CallOK(calls'[j])
  <2> HIDE DEF Lost
  <2>1. \A j \in DOMAIN calls : /\ calls'[j] \in D!Calls
                                /\ Kept(calls[j], calls'[j]) /\ CallOK(calls'[j])
    BY <1>1, <1>2, <1>3 DEF Kept
  <2>2. DOMAIN calls = 1..Len(calls) /\ Len(calls) \in Nat
    BY <1>1
  <2>3. calls' \in [1..Len(calls) -> D!Calls]
    BY <1>2, <2>1, <2>2
  <2>4. calls' \in Seq(D!Calls) /\ Len(calls') = Len(calls)
    BY <2>2, <2>3
  <2> QED
    BY <2>1, <2>4
<1>5. /\ actPage' = [actPage EXCEPT !.error = @ \/ \E q \in loads : q.what = "device"]
      /\ loads' = {} /\ button' = D!Redrawn(actPage') /\ caps' = caps /\ D!Spend("faults")
  BY DEF D!Crash
<1>6. actPage \in PageType
  BY DEF ActionInv, D!TypeOK, PageType
<1>7. /\ actPage' \in PageType /\ actPage'.kind = actPage.kind /\ actPage'.id = actPage.id
      /\ actPage'.device = actPage.device /\ actPage'.extra = actPage.extra
  BY <1>5, <1>6 DEF PageType
<1>8. PageInv'
  BY <1>5, <1>7 DEF ActionInv, PageInv, CameraPage
<1> QED
  BY <1>4, <1>5, <1>7, <1>8, RenderKeeps DEF PageType, CameraPage

LEMMA ActionStep == ActionInv /\ [D!Next]_D!vars => ActionInv'
PROOF
<1> SUFFICES ASSUME ActionInv, [D!Next]_D!vars PROVE ActionInv'
  OBVIOUS
<1>1. CASE UNCHANGED D!vars
  <2>1. UNCHANGED <<caps, actPage, loads, button, calls, actBudget>>
    BY <1>1 DEF D!vars
  <2>2. D!TypeOK'
    BY <2>1 DEF ActionInv, D!TypeOK
  <2>3. PageInv' /\ D!ActsOnConfirmed' /\ \A j \in DOMAIN calls' : CallOK(calls'[j])
    BY <2>1 DEF ActionInv, PageInv, CameraPage, D!ActsOnConfirmed
  <2>4. ButtonInv'
    BY <2>1 DEF ActionInv, ButtonInv, CameraPage, D!Fresh, D!Drawn, D!DrawnOn, D!Pages
  <2> QED
    BY <2>2, <2>3, <2>4 DEF ActionInv, CallOK, D!ByPacketFence
<1>2. ASSUME NEW i \in DOMAIN calls, D!Told(i) \/ D!Drop(i) \/ D!Handle(i) \/ D!WriteFails(i)
      PROVE  ActionInv'
  <2>1. CASE D!Told(i)
    BY <2>1, ToldKeeps
  <2>2. CASE D!Handle(i)
    <3>1. PICK d : Moves(i, d)
      BY <2>2, HandlerMoves
    <3>2. actBudget' = actBudget
      BY <2>2, HandlerMoves
    <3> QED
      BY <3>1, <3>2, MoveKeeps
  <2>3. CASE D!Drop(i) \/ D!WriteFails(i)
    <3>1. PICK d : Moves(i, d)
      BY <2>3, FaultMoves
    <3>2. D!Spend("faults")
      BY <2>3, FaultMoves
    <3> QED
      BY <3>1, <3>2, MoveKeeps
  <2> QED
    BY <1>2, <2>1, <2>2, <2>3
<1> QED
  BY <1>1, <1>2, SelectKeeps, AskKeeps, LoadKeeps, ButtonKeeps, CrashKeeps DEF D!Next

-----------------------------------------------------------------------------
(* The parts *)

\* A step of the console is a step of each part, or leaves it alone.
LEMMA ConsoleStep ==
    [ConsoleNext]_consoleVars =>
        /\ [Next]_vars
        /\ [W!Next]_W!vars
        /\ [O!Next]_O!vars
        /\ [M!Next]_M!vars
        /\ [D!Next]_D!vars
PROOF
<1> SUFFICES ASSUME [ConsoleNext]_consoleVars
             PROVE  /\ [Next]_vars /\ [W!Next]_W!vars /\ [O!Next]_O!vars
                    /\ [M!Next]_M!vars /\ [D!Next]_D!vars
  OBVIOUS
<1>1. Next \/ UNCHANGED vars
  BY DEF ConsoleNext, consoleVars
<1>2. W!Next \/ UNCHANGED W!vars
  BY DEF ConsoleNext, consoleVars, workflowVars, W!vars
<1>3. O!Next \/ UNCHANGED O!vars
  BY DEF ConsoleNext, consoleVars, opsVars, O!vars
<1>4. M!Next \/ UNCHANGED M!vars
  BY DEF ConsoleNext, consoleVars, mapVars, M!vars
<1>5. D!Next \/ UNCHANGED D!vars
  BY DEF ConsoleNext, consoleVars, actionVars, D!vars
<1> QED
  BY <1>1, <1>2, <1>3, <1>4, <1>5

LEMMA ConsoleStarts == ConsoleInit => ViewsInv /\ W!IInv /\ O!IInv /\ M!IInv /\ ActionInv
PROOF
<1> SUFFICES ASSUME ConsoleInit PROVE ViewsInv /\ W!IInv /\ O!IInv /\ M!IInv /\ ActionInv
  OBVIOUS
<1>1. Init /\ W!Init /\ O!Init /\ M!Init /\ D!Init
  BY DEF ConsoleInit
<1>2. ViewsInv
  BY <1>1, InitInv
<1>3. W!IInv
  BY <1>1, PartsAssumption, W!InitInv
<1>4. O!IInv
  BY <1>1, O!InitInv
<1>5. M!IInv
  BY <1>1, PartsAssumption, M!InitInv
<1>6. ActionInv
  BY <1>1, ActionStarts
<1> QED
  BY <1>2, <1>3, <1>4, <1>5, <1>6

LEMMA PartsInvariant == ConsoleSpec => [](ViewsInv /\ W!IInv /\ O!IInv /\ M!IInv /\ ActionInv)
PROOF
<1>1. ViewsInv /\ [Next]_vars => ViewsInv'
  BY StepInv
<1>2. W!IInv /\ [W!Next]_W!vars => W!IInv'
  BY PartsAssumption, W!StepInv
<1>3. O!IInv /\ [O!Next]_O!vars => O!IInv'
  BY O!StepInv
<1>4. M!IInv /\ [M!Next]_M!vars => M!IInv'
  BY PartsAssumption, M!StepInv
<1>5. ActionInv /\ [D!Next]_D!vars => ActionInv'
  BY ActionStep
<1> QED
  BY <1>1, <1>2, <1>3, <1>4, <1>5, ConsoleStarts, ConsoleStep, PTL DEF ConsoleSpec

\* What their types need besides.
LEMMA TypesInvariant == ConsoleSpec => [](TypeOK /\ W!SavingInv /\ O!RowsInv /\ M!ClosedInv)
PROOF
<1>1. ConsoleInit => TypeOK /\ W!SavingInv /\ O!RowsInv /\ M!ClosedInv
  BY ViewTypesInit, W!SavingInit, O!RowsInit, M!ClosedInit, PartsAssumption DEF ConsoleInit
<1>2. TypeOK /\ [Next]_vars => TypeOK'
  BY ViewTypesStep
<1>3. W!IInv /\ W!SavingInv /\ [W!Next]_W!vars => W!SavingInv'
  BY W!SavingStep
<1>4. O!IInv /\ O!RowsInv /\ [O!Next]_O!vars => O!RowsInv'
  BY O!RowsStep, PartsAssumption
<1>5. M!IInv /\ M!ClosedInv /\ [M!Next]_M!vars => M!ClosedInv'
  BY M!ClosedStep
<1> QED
  BY <1>1, <1>2, <1>3, <1>4, <1>5, PartsInvariant, ConsoleStep, PTL DEF ConsoleSpec

-----------------------------------------------------------------------------
(* The theorems *)

\* Every variable of every part keeps its type, for any size of the console: what a
\* view holds is of a subject, an editor says that it is saving just while its save
\* is under way, and what rows and requests refer to is there.
THEOREM TypesHold == ConsoleSpec => []TypesOK
PROOF
<1>1. W!IInv /\ W!SavingInv => W!TypeOK
  BY W!TypesFollow
<1>2. O!IInv /\ O!RowsInv => O!TypeOK
  BY O!TypesFollow
<1>3. M!IInv /\ M!ClosedInv => M!TypeOK
  BY M!TypesFollow
<1>4. ActionInv => D!TypeOK
  BY DEF ActionInv
<1>5. /\ ViewsInv /\ W!IInv /\ O!IInv /\ M!IInv /\ ActionInv
      /\ TypeOK /\ W!SavingInv /\ O!RowsInv /\ M!ClosedInv
      => TypesOK
  BY <1>1, <1>2, <1>3, <1>4 DEF TypesOK
<1> QED
  BY <1>5, PartsInvariant, TypesInvariant, PTL

\* The panels of one device show that device or nothing, however fast another is
\* selected and however late the answers come.
THEOREM ShowsTheSelected == ConsoleSpec => []ShowsSelected
PROOF
<1>1. ViewsInv => ShowsSelected
  BY DEF ViewsInv
<1> QED
  BY <1>1, PartsInvariant, PTL

\* No workflow is stored with another one's graph, for any workflows and however
\* selections, late answers, tab changes and saves interleave.
THEOREM GraphsAreOwn == ConsoleSpec => []SavesOwnGraph
PROOF
<1>1. W!IInv => SavesOwnGraph
  BY DEF SavesOwnGraph, W!IInv, W!GraphInv
<1> QED
  BY <1>1, PartsInvariant, PTL

\* A workflow is out of shadow only if somebody agreed to that, whatever the page
\* believed and whoever else switched meanwhile.
THEOREM LiveWasAsked == ConsoleSpec => []NeverLiveUnasked
PROOF
<1>1. W!IInv => NeverLiveUnasked
  BY DEF NeverLiveUnasked, W!IInv, W!LiveInv
<1> QED
  BY <1>1, PartsInvariant, PTL

\* A batch that may write to cameras is of an image whose dry run came back done,
\* for any cameras, images and batches and any overlap of request chains.
THEOREM LiveWasRehearsed == ConsoleSpec => []LiveIsRehearsed
PROOF
<1>1. O!IInv => LiveIsRehearsed
  BY DEF LiveIsRehearsed, O!IInv, O!SeenInv
<1> QED
  BY <1>1, PartsInvariant, PTL

\* The path the registry has for a link was drawn for that link, whatever links
\* are opened, left, deleted and created, and in whatever order answers come -
\* unless it was saved while the page had no line for the link.
THEOREM PathsAreHome == ConsoleSpec => []PathsStayHome
PROOF
<1>1. M!IInv => PathsStayHome
  BY DEF PathsStayHome, M!IInv, M!SrvInv, M!HomePaths, M!PathsStayHome
<1> QED
  BY <1>1, PartsInvariant, PTL

\* A form that has been filled was filled from the row of the link whose panel is
\* open: a late answer for another link is never applied.
THEOREM FormIsOwn == ConsoleSpec => []FormIsOwnOnceLoaded
PROOF
<1>1. M!IInv => FormIsOwnOnceLoaded
  BY DEF FormIsOwnOnceLoaded, M!IInv, M!FormInv
<1> QED
  BY <1>1, PartsInvariant, PTL

\* The line of the link that is open is drawn with the path being worked on,
\* whatever refreshes and redraws happen meanwhile.
THEOREM LineIsDrawn == ConsoleSpec => []EditedLineIsDrawn
PROOF
<1>1. M!IInv => EditedLineIsDrawn
  BY DEF EditedLineIsDrawn, M!IInv, M!EditInv, M!OpenIsOwn, M!EditedLineIsDrawn, M!Handles,
     M!OpenIs, M!Editing
<1> QED
  BY <1>1, PartsInvariant, PTL

\* The waypoints dragged so far are kept while the link is open, whatever refreshes,
\* late answers and clicks come in between, those that miss an end of it included.
THEOREM PathEditsAreKept == ConsoleSpec => PathEditsSurvive
PROOF
<1> DEFINE EditsKept == \A l \in Links : M!WorksOn(l) /\ M!OpenIs(l)' /\ work'.path # work.path =>
                         mapBudget'.edits < mapBudget.edits
<1>1. M!IInv /\ [M!Next]_M!vars => [EditsKept]_M!vars
  BY PartsAssumption, M!EditsSurviveStep
<1> QED
  BY <1>1, PartsInvariant, ConsoleStep, PTL DEF ConsoleSpec, PathEditsSurvive, M!PathEditsSurvive

\* What was agreed to on a camera's page is done to that camera, and what a button
\* there says is of it, whatever is selected and answered meanwhile (ActionButton).
THEOREM ActionsAreOwn == ConsoleSpec => []ActsOnOwn
PROOF
<1>1. ActionInv => ActsOnOwn
  BY DEF ActionInv, ButtonInv, CameraPage, ActsOnOwn, D!ActsOnOwn, D!ResultIsOwn
<1> QED
  BY <1>1, PartsInvariant, PTL

\* The audit trail tells what happened, for any number of calls and wherever the
\* process, the database or the source gives up.
THEOREM AuditIsTrue == ConsoleSpec => []AuditTellsTruth
PROOF
<1>1. ActionInv => AuditTellsTruth
  <2> SUFFICES ASSUME ActionInv PROVE AuditTellsTruth
    OBVIOUS
  <2>1. \A i \in DOMAIN calls : calls[i] \in D!Calls /\ CallOK(calls[i])
    BY DEF ActionInv, D!TypeOK
  <2> QED
    BY <2>1 DEF AuditTellsTruth, D!AuditTellsTruth, CallOK, D!Calls
<1> QED
  BY <1>1, PartsInvariant, PTL

\* A button agrees with the audit trail, and says "no" only of what was not done,
\* unless the API broke down over the answer.
THEOREM ButtonsAreTrue == ConsoleSpec => []ButtonTellsTruth
PROOF
<1>1. ActionInv => ButtonTellsTruth
  <2> SUFFICES ASSUME ActionInv, NEW b \in Buttons, button[b].says # "nothing"
               PROVE  LET c == calls[button[b].call]
                      IN  /\ button[b].says = "yes" => c.row = "ok"
                          /\ button[b].says = "no" =>
                                 c.row # "ok" /\ (c.landed => c.reply = "error")
    BY DEF ButtonTellsTruth, D!ButtonTellsTruth
  <2>1. button[b].call \in 0..Len(calls) /\ button[b].call # 0 /\ calls \in Seq(D!Calls)
    BY DEF ActionInv, D!TypeOK, ButtonInv
  <2>2. button[b].call \in DOMAIN calls
    BY <2>1
  <2>3. CallOK(calls[button[b].call])
    BY <2>2 DEF ActionInv
  <2> QED
    BY <2>3 DEF ActionInv, ButtonInv, CallOK
<1> QED
  BY <1>1, PartsInvariant, PTL
=============================================================================
