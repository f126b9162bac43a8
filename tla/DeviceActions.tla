---------------------------- MODULE DeviceActions ----------------------------
(***************************************************************************)
(* The buttons that act on a device: the page they are drawn on, the       *)
(* component behind each of them, and the audited handlers that carry the  *)
(* action out.                                                             *)
(*                                                                         *)
(* A button keeps its state for as long as it is drawn in the same place,  *)
(* whatever device it is drawn for by then.  The page of a camera empties  *)
(* itself for another camera, which takes the buttons away; the page of an *)
(* access point does not, and it learns of the access point in two         *)
(* answers, one after the other.                                           *)
(***************************************************************************)
EXTENDS Integers, Sequences

CONSTANTS Devices, None,
          Buttons,    \* those of the actions that are looked at
          MaxVisits, MaxSelects, MaxClicks, MaxFaults    \* bounds of the model

Actions == {"ap_reboot", "reevaluate_access", "restart_port", "poe_cycle"}

DeviceAssumption == None \notin Devices /\ Buttons \subseteq Actions

BoundAssumption ==
    /\ MaxVisits \in Nat /\ MaxSelects \in Nat /\ MaxClicks \in Nat /\ MaxFaults \in Nat

VARIABLES
    caps,       \* the module's cache of what the server offers
    page,       \* the page, the device in its URL, and the answers it shows
    loads,      \* the page's requests on their way
    button,     \* the state of each button
    calls,      \* the requested actions, with their audit rows
    budget      \* what is left of the bounds

vars == <<caps, page, loads, button, calls, budget>>

Pages == {"ap", "camera"}
Disruptive == Actions \ {"reevaluate_access"}
ByPacketFence == {"reevaluate_access", "restart_port"}
DrawnOn == [p \in Pages |-> IF p = "ap" THEN Buttons ELSE Buttons \ {"ap_reboot"}]

\* A reboot needs the device alone, the others its endpoint or its uplink.
Drawn(p, b) ==
    /\ p.kind \in Pages
    /\ b \in DrawnOn[p.kind]
    /\ ~p.error
    /\ p.device # None
    /\ b = "ap_reboot" \/ p.extra # None

Target(b) == IF b = "ap_reboot" THEN page.device ELSE page.extra

Fresh == [at |-> "idle", asked |-> None, call |-> 0, says |-> "nothing"]
NoPage == [kind |-> "none", id |-> None, device |-> None, extra |-> None, error |-> FALSE]

\* What a render leaves of the buttons.
Redrawn(p) == [b \in Buttons |-> IF Drawn(p, b) THEN button[b] ELSE Fresh]

Load(what, d) == [what |-> what, of |-> d]

Spend(what) ==
    /\ budget[what] > 0
    /\ budget' = [budget EXCEPT ![what] = @ - 1]

Init ==
    /\ caps = "unknown"
    /\ page = NoPage
    /\ loads = {}
    /\ button = [b \in Buttons |-> Fresh]
    /\ calls = <<>>
    /\ budget = [visits |-> MaxVisits, selects |-> MaxSelects, clicks |-> MaxClicks,
                 faults |-> MaxFaults]

-----------------------------------------------------------------------------
(* The page *)

Visit(k, d) ==
    /\ page.kind = "none"
    /\ Spend("visits")
    /\ page' = [NoPage EXCEPT !.kind = k, !.id = d]
    /\ loads' = {Load("device", d)}
    /\ UNCHANGED <<caps, button, calls>>

Leave ==
    /\ page.kind # "none"
    /\ page' = NoPage
    /\ loads' = {}
    /\ button' = Redrawn(NoPage)
    /\ UNCHANGED <<caps, calls, budget>>

\* Mutant of Select: the page of a camera goes on showing the last one.
MutantSelect(d) ==
    /\ page.kind # "none"
    /\ d # page.id
    /\ Spend("selects")
    /\ page' = [page EXCEPT !.id = d]
    /\ loads' = {Load("device", d)}
    /\ button' = Redrawn(page')
    /\ UNCHANGED <<caps, calls>>

\* Another device in the URL: the clean-up discards what is on its way, and only
\* the page of a camera forgets what it shows.
Select(d) ==
    /\ page.kind # "none"
    /\ d # page.id
    /\ Spend("selects")
    /\ page' = IF page.kind = "camera"
               THEN [page EXCEPT !.id = d, !.device = None, !.extra = None]
               ELSE [page EXCEPT !.id = d]
    /\ loads' = {Load("device", d)}
    /\ button' = Redrawn(page')
    /\ UNCHANGED <<caps, calls>>

Poll ==
    /\ page.kind = "camera"
    /\ loads' = loads \cup {Load("device", page.id)}
    /\ UNCHANGED <<caps, page, button, calls, budget>>

\* The answer for a camera has its endpoint and uplink with it, when they are known;
\* an access point's are asked for.
DeviceArrives(q) ==
    /\ q.what = "device"
    /\ IF page.kind = "camera"
       THEN /\ \E e \in {q.of, None} : page' = [page EXCEPT !.device = q.of, !.extra = e]
            /\ loads' = loads \ {q}
       ELSE /\ page' = [page EXCEPT !.device = q.of]
            /\ loads' = (loads \ {q}) \cup {Load("extra", q.of)}
    /\ button' = Redrawn(page')
    /\ UNCHANGED <<caps, calls, budget>>

ExtraArrives(q) ==
    /\ q.what = "extra"
    /\ \E e \in {q.of, None} : page' = [page EXCEPT !.extra = e]
    /\ loads' = loads \ {q}
    /\ button' = Redrawn(page')
    /\ UNCHANGED <<caps, calls, budget>>

\* Nothing clears the error of either page; a failure of the second answer of an
\* access point goes unnoticed.
LoadFails(q) ==
    /\ Spend("faults")
    /\ page' = [page EXCEPT !.error = @ \/ q.what = "device"]
    /\ loads' = loads \ {q}
    /\ button' = Redrawn(page')
    /\ UNCHANGED <<caps, calls>>

-----------------------------------------------------------------------------
(* The buttons *)

\* The first button drawn asks what the server offers; a failure is remembered
\* as the answer.
LearnCaps ==
    /\ caps = "unknown"
    /\ \E b \in Buttons : Drawn(page, b)
    /\ \/ caps' \in {"on", "off"} /\ UNCHANGED budget
       \/ caps' = "lost" /\ Spend("faults")
    /\ UNCHANGED <<page, loads, button, calls>>

\* The request goes out with the body of the moment.
Run(b, asked) ==
    /\ calls' = Append(calls, [button |-> b, on |-> page.kind, asked |-> asked,
                               heading |-> page.device, target |-> Target(b),
                               at |-> "posted", line |-> "open", row |-> "none",
                               sent |-> FALSE, landed |-> FALSE, reply |-> "none"])
    /\ button' = [button EXCEPT ![b] = [Fresh EXCEPT !.at = "running",
                                                     !.call = Len(calls) + 1]]

Press(b) ==
    /\ caps = "on"
    /\ Drawn(page, b)
    /\ button[b].at \in {"idle", "done", "error"}
    /\ Spend("clicks")
    /\ IF b \in Disruptive
       THEN /\ button' = [button EXCEPT ![b].at = "confirm", ![b].asked = Target(b)]
            /\ UNCHANGED calls
       ELSE Run(b, Target(b))
    /\ UNCHANGED <<caps, page, loads>>

Confirm(b) ==
    /\ button[b].at = "confirm"
    /\ Run(b, button[b].asked)
    /\ UNCHANGED <<caps, page, loads, budget>>

Cancel(b) ==
    /\ button[b].at = "confirm"
    /\ button' = [button EXCEPT ![b].at = "idle", ![b].asked = None]
    /\ UNCHANGED <<caps, page, loads, calls, budget>>

\* Mutant of Reading: what did not succeed is taken to have failed.
MutantReading(c) == IF c.line = "open" /\ c.reply = "ok" THEN "yes" ELSE "no"

\* A refusal is final; a source that rejected or never answered, and a connection
\* that broke, leave it open whether the action was carried out.
Reading(c) ==
    CASE c.line = "broken" \/ c.reply = "unanswered" -> "maybe"
      [] c.line = "open" /\ c.reply = "ok" -> "yes"
      [] c.line = "open" /\ c.reply \in {"refused", "error"} -> "no"

\* The answer, or the end of the connection, finds the button that asked, if it is
\* still there.
Told(i) ==
    /\ calls[i].line = "broken" \/ (calls[i].line = "open" /\ calls[i].at = "over")
    /\ calls' = [calls EXCEPT ![i].line = "closed"]
    /\ button' = [b \in Buttons |->
                     IF button[b].call = i
                     THEN [button[b] EXCEPT
                             !.at = IF Reading(calls[i]) = "yes" THEN "done" ELSE "error",
                             !.says = Reading(calls[i])]
                     ELSE button[b]]
    /\ UNCHANGED <<caps, page, loads, budget>>

\* The network fails between browser and server: the handler never notices, and a
\* request may not have reached it.
Drop(i) ==
    /\ calls[i].line = "open"
    /\ Spend("faults")
    /\ \/ calls' = [calls EXCEPT ![i].line = "broken"]
       \/ /\ calls[i].at = "posted"
          /\ calls' = [calls EXCEPT ![i].line = "broken", ![i].at = "over"]
    /\ UNCHANGED <<caps, page, loads, button>>

-----------------------------------------------------------------------------
(* The handlers.  Between two awaits a handler is alone, so the audit row's   *)
(* insert and the reading back of its number are one step.                    *)

Over(i, row, reply) ==
    calls' = [calls EXCEPT ![i].at = "over", ![i].row = row, ![i].reply = reply]

pageVars == <<caps, page, loads, button>>

\* The role is looked at before anything is written.
NotAuthorised(i) ==
    /\ calls[i].at = "posted"
    /\ Over(i, "none", "refused")
    /\ UNCHANGED <<pageVars, budget>>

Enter(i) ==
    /\ calls[i].at = "posted"
    /\ calls' = [calls EXCEPT ![i].at = "entered", ![i].row = "pending"]
    /\ UNCHANGED <<pageVars, budget>>

\* Mutant of Refuse: a refusal found out by asking comes after the call.
MutantRefuse(i) ==
    /\ calls[i].at \in {"entered", "away"}
    /\ Over(i, "refused", "refused")
    /\ UNCHANGED <<pageVars, budget>>

\* Switched off, not in the registry, no such port, a source not configured or
\* one that does not know the switch.
Refuse(i) ==
    /\ calls[i].at = "entered"
    /\ Over(i, "refused", "refused")
    /\ UNCHANGED <<pageVars, budget>>

\* The sign-in at PacketFence or the look-up at rConfig fails.
LookupFails(i) ==
    /\ calls[i].at = "entered"
    /\ calls[i].button # "ap_reboot"
    /\ Over(i, "failed", "unanswered")
    /\ UNCHANGED <<pageVars, budget>>

\* The call leaves; the source acts on it or does not, whatever becomes of its answer.
Send(i) ==
    /\ calls[i].at = "entered"
    /\ \E acts \in BOOLEAN :
           calls' = [calls EXCEPT ![i].at = "away", ![i].sent = TRUE, ![i].landed = acts]
    /\ UNCHANGED <<pageVars, budget>>

Accepted(i) ==
    /\ calls[i].at = "away"
    /\ calls[i].landed
    /\ Over(i, "ok", "ok")
    /\ UNCHANGED <<pageVars, budget>>

\* PacketFence says 404 to a node it does not know, which its client reads as an
\* empty answer.
NotFound(i) ==
    /\ calls[i].at = "away"
    /\ ~calls[i].landed
    /\ calls[i].button \in ByPacketFence
    /\ Over(i, "ok", "ok")
    /\ UNCHANGED <<pageVars, budget>>

\* The source rejects the call, or its answer is late or lost.
Unanswered(i) ==
    /\ calls[i].at = "away"
    /\ Over(i, "failed", "unanswered")
    /\ UNCHANGED <<pageVars, budget>>

\* An answer of PacketFence that cannot be read is not an error its client knows.
Unreadable(i) ==
    /\ calls[i].at \in {"entered", "away"}
    /\ calls[i].button \in ByPacketFence
    /\ Over(i, "failed", "error")
    /\ UNCHANGED <<pageVars, budget>>

\* The row cannot be inserted or read back, which ends the request there; or its
\* outcome cannot be written, and the row stays as it was inserted.
WriteFails(i) ==
    /\ calls[i].at \in {"posted", "entered", "away"}
    /\ Spend("faults")
    /\ \E row \in {"none", "pending"} :
           /\ row = "none" => calls[i].at = "posted"
           /\ Over(i, row, "error")
    /\ UNCHANGED pageVars

\* Mutant of Crash: the connections of lost requests are never closed.
MutantCrash ==
    /\ Spend("faults")
    /\ calls' = [i \in DOMAIN calls |->
                    IF calls[i].at = "over" THEN calls[i]
                    ELSE [calls[i] EXCEPT !.at = "over", !.reply = "lost", !.line = "closed"]]
    /\ page' = [page EXCEPT !.error = @ \/ \E q \in loads : q.what = "device"]
    /\ loads' = {}
    /\ button' = Redrawn(page')
    /\ UNCHANGED caps

\* The process is restarted: its handlers are gone, the rows stay, and every
\* connection breaks.
Crash ==
    /\ Spend("faults")
    /\ calls' = [i \in DOMAIN calls |->
                    IF calls[i].at = "over" THEN calls[i]
                    ELSE [calls[i] EXCEPT !.at = "over", !.reply = "lost",
                                          !.line = IF @ = "open" THEN "broken" ELSE @]]
    /\ page' = [page EXCEPT !.error = @ \/ \E q \in loads : q.what = "device"]
    /\ loads' = {}
    /\ button' = Redrawn(page')
    /\ UNCHANGED caps

Handle(i) ==
    \/ NotAuthorised(i) \/ Enter(i) \/ Refuse(i) \/ LookupFails(i) \/ Send(i)
    \/ Accepted(i) \/ NotFound(i) \/ Unanswered(i) \/ Unreadable(i)

Next ==
    \/ \E k \in Pages, d \in Devices : Visit(k, d)
    \/ Leave
    \/ \E d \in Devices : Select(d)
    \/ Poll
    \/ \E q \in loads : DeviceArrives(q) \/ ExtraArrives(q) \/ LoadFails(q)
    \/ LearnCaps
    \/ \E b \in Buttons : Press(b) \/ Confirm(b) \/ Cancel(b)
    \/ \E i \in DOMAIN calls : Told(i) \/ Drop(i) \/ Handle(i) \/ WriteFails(i)
    \/ Crash

Spec == Init /\ [][Next]_vars

\* A source answers within the client's time-out, and the browser hands answers on.
Fairness ==
    /\ WF_vars(\E i \in DOMAIN calls : Handle(i))
    /\ WF_vars(\E i \in DOMAIN calls : Told(i))

LiveSpec == Spec /\ Fairness

-----------------------------------------------------------------------------
(* Properties *)

Loads == [what : {"device", "extra"}, of : Devices]
Calls == [button : Buttons, on : Pages, asked : Devices, heading : Devices, target : Devices,
          at : {"posted", "entered", "away", "over"},
          line : {"open", "broken", "closed"},
          row : {"none", "pending", "ok", "failed", "refused"},
          sent : BOOLEAN, landed : BOOLEAN,
          reply : {"none", "ok", "refused", "unanswered", "error", "lost"}]

TypeOK ==
    /\ caps \in {"unknown", "on", "off", "lost"}
    /\ page \in [kind : Pages \cup {"none"}, id : Devices \cup {None},
                 device : Devices \cup {None}, extra : Devices \cup {None}, error : BOOLEAN]
    /\ loads \subseteq Loads
    /\ button \in [Buttons -> [at : {"idle", "confirm", "running", "done", "error"},
                               asked : Devices \cup {None}, call : 0..Len(calls),
                               says : {"nothing", "yes", "no", "maybe"}]]
    /\ calls \in Seq(Calls)
    /\ budget \in [visits : 0..MaxVisits, selects : 0..MaxSelects, clicks : 0..MaxClicks,
                   faults : 0..MaxFaults]

\* What an operator agreed to on the page of a camera is done to that camera: no
\* selection, poll or late answer puts another one under the question (the
\* confirm of ActionButton, the setCam(null) of CameraDetailPage).
ActsOnConfirmed ==
    \A i \in DOMAIN calls :
        calls[i].on = "camera" => /\ calls[i].asked = calls[i].target
                                  /\ calls[i].heading = calls[i].target

\* What a button of that page says, or is waiting for, is about the camera in the
\* URL, though the answer may come after others were visited.
ResultIsOwn ==
    page.kind = "camera" =>
        \A b \in Buttons : button[b].call # 0 => calls[button[b].call].target = page.id

\* On the page of a camera what was agreed to, what is done and what is reported are
\* of one camera.
ActsOnOwn == ActsOnConfirmed /\ ResultIsOwn

\* The audit trail tells what happened: whatever was sent has a row, a refused row
\* means that nothing was, an ok row that the source acted (but for PacketFence's
\* 404), and a row is left pending only by a restart or a failing write
\* (AuditedAction: "a timeout or crash still leaves evidence").
AuditTellsTruth ==
    \A i \in DOMAIN calls : LET c == calls[i] IN
        /\ c.sent => c.row # "none"
        /\ c.row \in {"none", "refused"} => ~c.sent
        /\ c.row = "ok" => c.landed \/ c.button \in ByPacketFence
        /\ c.row = "pending" /\ c.at = "over" => c.reply \in {"error", "lost"}

\* What a button says agrees with the audit row, and a button that says "no"
\* without a doubt is right, unless the API broke down over the answer; "a
\* timed-out action is reported as unknown rather than assumed failed" (actions.jsx).
ButtonTellsTruth ==
    \A b \in Buttons :
        button[b].says # "nothing" =>
            LET c == calls[button[b].call]
            IN  /\ button[b].says = "yes" => c.row = "ok"
                /\ button[b].says = "no" => c.row # "ok" /\ (c.landed => c.reply = "error")

\* A button does not say "working" for ever, whatever becomes of the page, the
\* process or the source.
WorkingEnds == \A b \in Buttons : []<>(button[b].at # "running")

\* The switch port that is power-cycled from the page of an access point is that
\* of the access point in its heading (ap_detail.jsx: "Cycle PoE targets the
\* switch port the AP is powered from").
PoeTargetsOwnPort ==
    \A i \in DOMAIN calls :
        calls[i].button = "poe_cycle" => calls[i].target = calls[i].heading
=============================================================================
