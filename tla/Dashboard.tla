------------------------------ MODULE Dashboard ------------------------------
(***************************************************************************)
(* One tab with the dashboard: the form of static/dashboard.js, its        *)
(* periodic refresh and its submissions, against a server whose devices    *)
(* come, go and are taken by others.  A handler runs without interruption  *)
(* to its await, and again from there on; between the two the user edits   *)
(* the form and other responses arrive, in any order.                      *)
(***************************************************************************)
EXTENDS Naturals, FiniteSets

CONSTANTS
  Device,
  Suite,
  Supports,        \* Supports[d]: the suites that device d advertises
  Refresh,         \* bound: refreshes that are under way at the same time
  MaxSubmissions   \* bound: how often the user submits

ASSUME Capabilities == Supports \in [Device -> SUBSET Suite]

Submission == 1..MaxSubmissions

VARIABLES
  registered, ready,   \* server: the device rows, and the ones that are online
  inbox,               \* the devices a submission still to be handled asks for
  page,                \* "form", or "run" once a run is opened
  known, shown,        \* the checkboxes, and the ones marked online
  form,                \* what the user has entered, and the state of the button
  fetch,               \* refreshes under way, with the response
  post                 \* of a submission: how far it is for the page

serverVars == <<registered, ready, inbox>>
pageVars   == <<page, known, shown, form, fetch, post>>
vars       == <<serverVars, pageVars>>

-----------------------------------------------------------------------------
(* updateState *)

\* Of the devices marked online, the ones the form f offers.
Offered(f, online) == {d \in online : f.suite \in Supports[d]}

Chosen(f, online) ==
  IF f.scope = "selected" THEN f.checked \cap Offered(f, online) ELSE Offered(f, online)

Hint(f, online) == IF Chosen(f, online) = {} THEN "hint" ELSE "none"

\* Variants: the button depends on the selection only; the message too.
UpdateButton(f, online) ==
  [f EXCEPT !.checked = @ \cap Offered(f, online),
            !.disabled = Chosen(f, online) = {},
            !.message = IF f.creatingRun \/ @ = "error" THEN @ ELSE Hint(f, online)]

UpdateMessage(f, online) ==
  [f EXCEPT !.checked = @ \cap Offered(f, online),
            !.disabled = f.creatingRun \/ Chosen(f, online) = {},
            !.message = IF f.creatingRun THEN @ ELSE Hint(f, online)]

UpdateState(f, online) ==
  [f EXCEPT !.checked = @ \cap Offered(f, online),
            !.disabled = f.creatingRun \/ Chosen(f, online) = {},
            !.message = IF f.creatingRun \/ @ = "error" THEN @ ELSE Hint(f, online)]

\* The form in the page that the server renders, and after the script's first
\* updateState.
Blank(s) == [suite |-> s, scope |-> "all", checked |-> {}, creatingRun |-> FALSE,
             disabled |-> TRUE, message |-> "none"]

Rendered(s, online) == UpdateState(Blank(s), online)

NoFetch == [at |-> "none", rows |-> {}, online |-> {}]

Init ==
  /\ registered \in SUBSET Device /\ ready \in SUBSET registered
  /\ inbox = [n \in Submission |-> {}]
  /\ page = "form" /\ known = registered /\ shown = ready
  /\ \E s \in Suite : form = Rendered(s, ready)
  /\ fetch = [i \in Refresh |-> NoFetch]
  /\ post = [n \in Submission |-> "unused"]

-----------------------------------------------------------------------------
(* The user. *)

\* onSelectionChange, for an edit that makes f of the form.
Edit(f) ==
  /\ page = "form"
  /\ form' = UpdateState([f EXCEPT !.message = IF @ = "error" THEN "none" ELSE @], shown)
  /\ UNCHANGED <<serverVars, page, known, shown, fetch, post>>

ChooseSuite(s) == Edit([form EXCEPT !.suite = s])

ChooseScope(x) == Edit([form EXCEPT !.scope = x])

\* The fieldset is disabled unless devices are to be selected.
Toggle(d) ==
  /\ form.scope = "selected" /\ d \in Offered(form, shown)
  /\ Edit([form EXCEPT !.checked = IF d \in @ THEN @ \ {d} ELSE @ \cup {d}])

SelectAvailable ==
  /\ form.scope = "selected"
  /\ Edit([form EXCEPT !.checked = IF Offered(form, shown) \subseteq @ THEN {}
                                   ELSE Offered(form, shown)])

\* Up to the await of the POST.  A disabled button submits nothing, and the
\* early return for an empty selection is never taken (TypeOK).
Submit(n) ==
  /\ page = "form" /\ ~form.disabled
  /\ post[n] = "unused" /\ \A m \in 1..(n - 1) : post[m] # "unused"
  /\ Chosen(form, shown) # {}
  /\ form' = [form EXCEPT !.creatingRun = TRUE, !.disabled = TRUE, !.message = "progress"]
  /\ post' = [post EXCEPT ![n] = "sent"]
  /\ inbox' = [inbox EXCEPT ![n] = Chosen(form, shown)]
  /\ UNCHANGED <<registered, ready, page, known, shown, fetch>>

UserStep ==
  \/ \E s \in Suite : ChooseSuite(s)
  \/ \E x \in {"all", "selected"} : ChooseScope(x)
  \/ \E d \in Device : Toggle(d)
  \/ SelectAvailable
  \/ \E n \in Submission : Submit(n)

-----------------------------------------------------------------------------
(* The server: the laboratory's devices, and the two handlers. *)

Register(d) ==
  /\ d \notin registered
  /\ registered' = registered \cup {d} /\ ready' = ready \cup {d}
  /\ UNCHANGED <<inbox, pageVars>>

\* A known device goes offline, comes back, is reserved by somebody or released,
\* under conditions that the page cannot tell: at any time.
DeviceChanges(d) ==
  /\ d \in registered
  /\ ready' = IF d \in ready THEN ready \ {d} ELSE ready \cup {d}
  /\ UNCHANGED <<registered, inbox, pageVars>>

\* create_run reserves all requested devices or none.
CreateRun(n) ==
  /\ inbox[n] # {} /\ inbox[n] \subseteq ready
  /\ ready' = ready \ inbox[n]
  /\ inbox' = [inbox EXCEPT ![n] = {}]
  /\ post' = [post EXCEPT ![n] = IF @ = "sent" THEN "created" ELSE @]
  /\ UNCHANGED <<registered, page, known, shown, form, fetch>>

\* 409 or another error.
RefuseRun(n) ==
  /\ inbox[n] # {}
  /\ inbox' = [inbox EXCEPT ![n] = {}]
  /\ post' = [post EXCEPT ![n] = IF @ = "sent" THEN "refused" ELSE @]
  /\ UNCHANGED <<registered, ready, page, known, shown, form, fetch>>

\* GET /devices, from its liveness scan to the response.
ListDevices(i) ==
  /\ fetch[i].at = "sent"
  /\ fetch' = [fetch EXCEPT ![i] = [at |-> "answered", rows |-> registered, online |-> ready]]
  /\ UNCHANGED <<serverVars, page, known, shown, form, post>>

-----------------------------------------------------------------------------
(* The page. *)

\* GET /: what was under way in the old page is forgotten there, not in the
\* server.
Load ==
  /\ known' = registered /\ shown' = ready
  /\ \E s \in Suite : form' = Rendered(s, ready)
  /\ fetch' = [i \in Refresh |-> NoFetch]
  /\ post' = [n \in Submission |-> IF post[n] \in {"sent", "created", "refused"} THEN "over" ELSE post[n]]
  /\ UNCHANGED <<serverVars, page>>

\* refreshDevices up to its await.  A hidden tab does not refresh.
RequestRefresh(i) ==
  /\ page = "form" /\ ~form.creatingRun
  /\ fetch[i] = NoFetch
  /\ fetch' = [fetch EXCEPT ![i].at = "sent"]
  /\ UNCHANGED <<serverVars, page, known, shown, form, post>>

\* No connection, or an error status: nothing is changed.
RefreshFails(i) ==
  /\ fetch[i].at = "sent"
  /\ fetch' = [fetch EXCEPT ![i] = NoFetch]
  /\ UNCHANGED <<serverVars, page, known, shown, form, post>>

ListsUnknown(i) == ~(fetch[i].rows \subseteq known)

\* Variant: the button and the selection are left as they are.
ShowOnly(i) ==
  /\ fetch[i].at = "answered"
  /\ IF ListsUnknown(i)
       THEN Load
       ELSE /\ shown' = fetch[i].online
            /\ fetch' = [fetch EXCEPT ![i] = NoFetch]
            /\ UNCHANGED <<serverVars, page, known, form, post>>

\* The rest of refreshDevices.  It does not look at creatingRun again.
ApplyRefresh(i) ==
  /\ fetch[i].at = "answered"
  /\ IF ListsUnknown(i)
       THEN Load
       ELSE /\ shown' = fetch[i].online
            /\ form' = UpdateState(form, fetch[i].online)
            /\ fetch' = [fetch EXCEPT ![i] = NoFetch]
            /\ UNCHANGED <<serverVars, page, known, post>>

\* The browser gives the request up; the server may still handle it.
ConnectionFails(n) ==
  /\ post[n] = "sent"
  /\ post' = [post EXCEPT ![n] = "refused"]
  /\ UNCHANGED <<serverVars, page, known, shown, form, fetch>>

OpenRun(n) ==
  /\ page = "form" /\ post[n] = "created"
  /\ page' = "run" /\ known' = {} /\ shown' = {} /\ form' = Blank(form.suite)
  /\ post' = [post EXCEPT ![n] = "over"]
  /\ fetch' = [i \in Refresh |-> NoFetch]
  /\ UNCHANGED serverVars

\* Variant: creatingRun is not reset.
ShowErrorOnly(n) ==
  /\ page = "form" /\ post[n] = "refused"
  /\ post' = [post EXCEPT ![n] = "over"]
  /\ form' = [UpdateState(form, shown) EXCEPT !.message = "error"]
  /\ UNCHANGED <<serverVars, page, known, shown, fetch>>

ShowError(n) ==
  /\ page = "form" /\ post[n] = "refused"
  /\ post' = [post EXCEPT ![n] = "over"]
  /\ form' = [UpdateState([form EXCEPT !.creatingRun = FALSE], shown) EXCEPT !.message = "error"]
  /\ UNCHANGED <<serverVars, page, known, shown, fetch>>

-----------------------------------------------------------------------------
ServerStep ==
  \/ \E d \in Device : Register(d) \/ DeviceChanges(d)
  \/ \E n \in Submission : CreateRun(n) \/ RefuseRun(n)
  \/ \E i \in Refresh : ListDevices(i)

PageStep ==
  \/ \E i \in Refresh : RequestRefresh(i) \/ RefreshFails(i) \/ ApplyRefresh(i)
  \/ \E n \in Submission : ConnectionFails(n) \/ OpenRun(n) \/ ShowError(n)

Next == UserStep \/ ServerStep \/ PageStep

Spec == Init /\ [][Next]_vars

\* The tab is visible, so its timer fires; every request ends, and a server
\* that is asked for the devices again and again answers again and again.
Fairness ==
  /\ WF_vars(\E i \in Refresh : RequestRefresh(i))
  /\ SF_vars(\E i \in Refresh : ListDevices(i))
  /\ \A i \in Refresh : WF_vars(RefreshFails(i) \/ ListDevices(i)) /\ WF_vars(ApplyRefresh(i))
  /\ \A n \in Submission : /\ WF_vars(ConnectionFails(n) \/ CreateRun(n) \/ RefuseRun(n))
                           /\ WF_vars(OpenRun(n) \/ ShowError(n))

FairSpec == Spec /\ Fairness

-----------------------------------------------------------------------------
(* Properties. *)

\* Besides the types: after every event the button is enabled exactly when a
\* click would submit something, and no unavailable device is ticked.
TypeOK ==
  /\ ready \subseteq registered /\ registered \subseteq Device
  /\ inbox \in [Submission -> SUBSET Device]
  /\ page \in {"form", "run"} /\ shown \subseteq known /\ known \subseteq registered
  /\ form.suite \in Suite /\ form.scope \in {"all", "selected"}
  /\ form.message \in {"none", "hint", "progress", "error"}
  /\ fetch \in [Refresh -> [at : {"none", "sent", "answered"},
                           rows : SUBSET Device, online : SUBSET Device]]
  /\ post \in [Submission -> {"unused", "sent", "created", "refused", "over"}]
  /\ form.checked \subseteq Offered(form, shown)
  /\ form.disabled <=> form.creatingRun \/ Chosen(form, shown) = {}

Underway == {n \in Submission : post[n] \in {"sent", "created", "refused"}}

\* A click that is being handled is not repeated and not forgotten: the page has
\* one submission under way at most, and stays until it can open the run or show
\* the error.  A refresh that is answered after the click may redraw the form,
\* not free it.  (A reload, for a device the page does not know, drops both the
\* submission and what the page knew of it.)
OneSubmissionAtATime ==
  /\ Cardinality(Underway) <= 1
  /\ IF page = "form" THEN form.creatingRun <=> Underway # {} ELSE Underway = {}

\* Once the page tells why a submission has failed, it does so until the user acts,
\* with one exception: a refresh whose response lists a device that the page does
\* not know reloads the page, and the error is gone.
ErrorsStay ==
  [][form.message = "error" /\ form'.message # "error"
       => UserStep \/ \E i \in Refresh : ListsUnknown(i) /\ ApplyRefresh(i)]_vars

\* docs/architecture.md: the dashboard refreshes device state "so heartbeat-driven
\* offline and reconnect transitions remain authoritative".  A device that stays
\* as it is is shown so in the end, although responses overtake each other and a
\* submission suspends the refresh.
ShownConverges ==
  \A d \in Device :
    /\ <>[](page = "form" /\ d \in ready) => <>[](d \in shown)
    /\ <>[](page = "form" /\ d \in registered \ ready) => <>[](d \in known \ shown)

=============================================================================
