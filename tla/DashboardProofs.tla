--------------------------- MODULE DashboardProofs ---------------------------
(***************************************************************************)
(* For any devices, suites, refreshes and submissions: the page has one    *)
(* submission under way at most, its button is right after every event,    *)
(* and an error stays until the user acts or a new device is listed.       *)
(***************************************************************************)
EXTENDS Dashboard, FiniteSetTheorems, TLAPS

Forms ==
  [suite : Suite, scope : {"all", "selected"}, checked : SUBSET Device, creatingRun : BOOLEAN,
   disabled : BOOLEAN, message : {"none", "hint", "progress", "error"}]

\* No unavailable device is ticked, and the button tells whether a click would
\* submit something.
Consistent(f, online) ==
  /\ f \in Forms /\ f.checked \subseteq Offered(f, online)
  /\ f.disabled <=> f.creatingRun \/ Chosen(f, online) = {}

Types ==
  /\ ready \subseteq registered /\ registered \subseteq Device
  /\ inbox \in [Submission -> SUBSET Device]
  /\ page \in {"form", "run"} /\ shown \subseteq known /\ known \subseteq registered
  /\ fetch \in [Refresh -> [at : {"none", "sent", "answered"}, rows : SUBSET Device, online : SUBSET Device]]
  /\ post \in [Submission -> {"unused", "sent", "created", "refused", "over"}]
  /\ Consistent(form, shown)

\* A response lists registered devices; a run's page asks for none.
Responses ==
  \A i \in Refresh : /\ fetch[i].online \subseteq fetch[i].rows /\ fetch[i].rows \subseteq registered
                     /\ page = "run" => fetch[i].at = "none"

OneUnderway ==
  /\ \A m, n \in Underway : m = n
  /\ IF page = "form" THEN form.creatingRun <=> Underway # {} ELSE Underway = {}
  /\ form.creatingRun => form.message = "progress"

PageInv == Types /\ Responses /\ OneUnderway

-----------------------------------------------------------------------------
(* The form. *)

LEMMA UpdatedForm ==
  ASSUME NEW f \in Forms, NEW online \in SUBSET Device
  PROVE  LET g == UpdateState(f, online) IN
         /\ Consistent(g, online) /\ g.creatingRun = f.creatingRun
         /\ f.creatingRun \/ f.message = "error" => g.message = f.message
<1> DEFINE g == UpdateState(f, online)
<1>1. /\ g.suite = f.suite /\ g.scope = f.scope /\ g.creatingRun = f.creatingRun
      /\ g.checked = f.checked \cap Offered(f, online)
      /\ g.disabled = (f.creatingRun \/ Chosen(f, online) = {})
      /\ g.message = (IF f.creatingRun \/ f.message = "error" THEN f.message ELSE Hint(f, online))
      /\ g \in Forms
  BY DEF UpdateState, Forms, Hint, Offered
<1> HIDE DEF g
<1>2. Offered(g, online) = Offered(f, online)
  BY <1>1 DEF Offered
<1>3. Chosen(g, online) = Chosen(f, online)
  BY <1>1, <1>2 DEF Chosen
<1> QED BY <1>1, <1>2, <1>3 DEF Consistent, g

LEMMA BlankForm ==
  ASSUME NEW s \in Suite, NEW online \in SUBSET Device
  PROVE  /\ Consistent(Rendered(s, online), online) /\ ~Rendered(s, online).creatingRun
         /\ Consistent(Blank(s), {}) /\ ~Blank(s).creatingRun
<1>1. Blank(s) \in Forms /\ ~Blank(s).creatingRun
  BY DEF Blank, Forms
<1>2. Consistent(Blank(s), {})
  BY <1>1 DEF Blank, Consistent, Offered, Chosen
<1> QED BY <1>1, <1>2, UpdatedForm DEF Rendered

-----------------------------------------------------------------------------
(* The steps. *)

LEMMA PageInvInit == Init => PageInv
<1> SUFFICES ASSUME Init PROVE PageInv
  OBVIOUS
<1>1. PICK s \in Suite : form = Rendered(s, ready)
  BY DEF Init
<1>2. ready \in SUBSET Device
  BY DEF Init
<1>3. Consistent(form, shown) /\ ~form.creatingRun
  BY <1>1, <1>2, BlankForm DEF Init
<1>4. Underway = {}
  BY DEF Init, Underway
<1> QED BY <1>3, <1>4 DEF Init, PageInv, Types, Responses, OneUnderway, NoFetch

\* An edit of the form.
LEMMA EditStep ==
  ASSUME PageInv, NEW f \in Forms, f.creatingRun = form.creatingRun, f.message = form.message, Edit(f)
  PROVE  PageInv'
<1> DEFINE g == [f EXCEPT !.message = IF @ = "error" THEN "none" ELSE @]
<1>1. /\ g \in Forms /\ g.creatingRun = f.creatingRun
      /\ f.message # "error" => g.message = f.message
  BY DEF Forms
<1>2. form' = UpdateState(g, shown) /\ UNCHANGED <<serverVars, page, known, shown, fetch, post>>
  BY DEF Edit
<1>3. shown \in SUBSET Device
  BY DEF PageInv, Types
<1> HIDE DEF g
<1>4. /\ Consistent(form', shown) /\ form'.creatingRun = form.creatingRun
      /\ form.creatingRun => form'.message = "progress"
  BY <1>1, <1>2, <1>3, UpdatedForm DEF PageInv, OneUnderway
<1>5. Types'
  BY <1>2, <1>4 DEF PageInv, Types, serverVars
<1> QED BY <1>2, <1>4, <1>5 DEF PageInv, Responses, OneUnderway, Underway, serverVars

LEMMA UserStepInv ==
  ASSUME PageInv, UserStep
  PROVE  PageInv'
<1>f. form \in Forms
  BY DEF PageInv, Types, Consistent
<1>1. ASSUME NEW s \in Suite, ChooseSuite(s) PROVE PageInv'
  <2>1. [form EXCEPT !.suite = s] \in Forms
    BY <1>f DEF Forms
  <2> QED BY <1>f, <1>1, <2>1, EditStep DEF ChooseSuite, Forms
<1>2. ASSUME NEW x \in {"all", "selected"}, ChooseScope(x) PROVE PageInv'
  <2>1. [form EXCEPT !.scope = x] \in Forms
    BY <1>f DEF Forms
  <2> QED BY <1>f, <1>2, <2>1, EditStep DEF ChooseScope, Forms
<1>c. ASSUME NEW C \in SUBSET Device, Edit([form EXCEPT !.checked = C]) PROVE PageInv'
  <2>1. [form EXCEPT !.checked = C] \in Forms
    BY <1>f DEF Forms
  <2> QED BY <1>f, <1>c, <2>1, EditStep DEF Forms
<1>3. ASSUME NEW d \in Device, Toggle(d) PROVE PageInv'
  <2> DEFINE C == IF d \in form.checked THEN form.checked \ {d} ELSE form.checked \cup {d}
  <2>1. Edit([form EXCEPT !.checked = C]) /\ C \in SUBSET Device
    BY <1>f, <1>3 DEF Toggle, Forms
  <2> QED BY <1>c, <2>1
<1>4. CASE SelectAvailable
  <2> DEFINE C == IF Offered(form, shown) \subseteq form.checked THEN {} ELSE Offered(form, shown)
  <2>1. Edit([form EXCEPT !.checked = C])
    BY <1>f, <1>4 DEF SelectAvailable
  <2>2. C \in SUBSET Device
    BY DEF PageInv, Types, Offered
  <2> QED BY <1>c, <2>1, <2>2
<1>5. ASSUME NEW n \in Submission, Submit(n) PROVE PageInv'
  <2>1. /\ page = "form" /\ ~form.disabled /\ post[n] = "unused"
        /\ form' = [form EXCEPT !.creatingRun = TRUE, !.disabled = TRUE, !.message = "progress"]
        /\ post' = [post EXCEPT ![n] = "sent"]
        /\ inbox' = [inbox EXCEPT ![n] = Chosen(form, shown)]
        /\ UNCHANGED <<registered, ready, page, known, shown, fetch>>
    BY <1>5 DEF Submit
  <2>2. ~form.creatingRun /\ Underway = {}
    BY <2>1 DEF PageInv, Types, Consistent, OneUnderway
  <2>3. Underway' = {n}
    BY <2>1, <2>2 DEF Underway, PageInv, Types
  <2>4. /\ form' \in Forms /\ form'.suite = form.suite /\ form'.scope = form.scope /\ form'.checked = form.checked
        /\ form'.creatingRun /\ form'.disabled /\ form'.message = "progress"
    BY <1>f, <2>1 DEF Forms
  <2>5. Consistent(form', shown)
    BY <2>4 DEF PageInv, Types, Consistent, Offered
  <2>6. Chosen(form, shown) \in SUBSET Device
    BY <1>f DEF PageInv, Types, Chosen, Offered
  <2>7. Types'
    BY <2>1, <2>5, <2>6 DEF PageInv, Types
  <2> QED BY <2>1, <2>3, <2>4, <2>7 DEF PageInv, Responses, OneUnderway
<1> QED BY <1>1, <1>2, <1>3, <1>4, <1>5 DEF UserStep

\* A step of the server: what is under way in the page stays so.
LEMMA ServerStepInv ==
  ASSUME PageInv, ServerStep
  PROVE  PageInv' /\ form' = form
<1> USE DEF PageInv, Types, Responses, OneUnderway, Underway, pageVars
<1>1. ASSUME NEW d \in Device, Register(d) \/ DeviceChanges(d) PROVE PageInv' /\ form' = form
  BY <1>1 DEF Register, DeviceChanges
<1>2. ASSUME NEW n \in Submission, CreateRun(n) \/ RefuseRun(n) PROVE PageInv' /\ form' = form
  BY <1>2 DEF CreateRun, RefuseRun
<1>3. ASSUME NEW i \in Refresh, ListDevices(i) PROVE PageInv' /\ form' = form
  BY <1>3 DEF ListDevices, serverVars
<1> QED BY <1>1, <1>2, <1>3 DEF ServerStep

LEMMA LoadStep ==
  ASSUME PageInv, page = "form", Load
  PROVE  PageInv'
<1>1. PICK s \in Suite : form' = Rendered(s, ready)
  BY DEF Load
<1>2. ready \in SUBSET Device
  BY DEF PageInv, Types
<1>3. Consistent(form', ready) /\ ~form'.creatingRun
  BY <1>1, <1>2, BlankForm
<1>4. /\ known' = registered /\ shown' = ready /\ page' = page /\ fetch' = [i \in Refresh |-> NoFetch]
      /\ post' = [n \in Submission |-> IF post[n] \in {"sent", "created", "refused"} THEN "over" ELSE post[n]]
      /\ UNCHANGED <<registered, ready, inbox>>
  BY DEF Load, serverVars
<1>5. Underway' = {}
  BY <1>4 DEF Underway
<1>6. Types'
  BY <1>3, <1>4 DEF PageInv, Types, NoFetch
<1> QED BY <1>3, <1>4, <1>5, <1>6 DEF PageInv, Responses, OneUnderway, NoFetch

LEMMA PageStepInv ==
  ASSUME PageInv, PageStep
  PROVE  /\ PageInv'
         /\ form.message = "error" => \/ form'.message = "error"
                                      \/ \E i \in Refresh : ListsUnknown(i) /\ ApplyRefresh(i)
<1>f. form \in Forms /\ shown \in SUBSET Device
  BY DEF PageInv, Types, Consistent
<1>1. ASSUME NEW i \in Refresh, RequestRefresh(i) \/ RefreshFails(i) PROVE PageInv' /\ form' = form
  BY <1>1 DEF RequestRefresh, RefreshFails, PageInv, Types, Responses, OneUnderway, Underway, serverVars, NoFetch
<1>2. ASSUME NEW i \in Refresh, ApplyRefresh(i)
      PROVE  PageInv' /\ (form.message = "error" => form'.message = "error" \/ ListsUnknown(i))
  <2>1. page = "form"
    BY <1>2 DEF ApplyRefresh, PageInv, Types, Responses
  <2>2. CASE ~ListsUnknown(i)
    <3> DEFINE online == fetch[i].online
    <3>1. /\ shown' = online /\ form' = UpdateState(form, online) /\ fetch' = [fetch EXCEPT ![i] = NoFetch]
          /\ UNCHANGED <<serverVars, page, known, post>>
      BY <1>2, <2>2 DEF ApplyRefresh
    <3>2. online \in SUBSET Device /\ online \subseteq known
      BY <2>2 DEF ListsUnknown, PageInv, Types, Responses
    <3> HIDE DEF online
    <3>3. /\ Consistent(form', online) /\ form'.creatingRun = form.creatingRun
          /\ form.creatingRun \/ form.message = "error" => form'.message = form.message
      BY <1>f, <3>1, <3>2, UpdatedForm
    <3>4. Types'
      BY <3>1, <3>2, <3>3 DEF PageInv, Types, NoFetch, serverVars
    <3> QED BY <3>1, <3>3, <3>4 DEF PageInv, Responses, OneUnderway, Underway, NoFetch, serverVars, Types
  <2>3. CASE ListsUnknown(i)
    <3>1. Load
      BY <1>2, <2>3 DEF ApplyRefresh
    <3> QED BY <2>1, <2>3, <3>1, LoadStep
  <2> QED BY <2>2, <2>3
<1>3. ASSUME NEW n \in Submission, ConnectionFails(n) PROVE PageInv' /\ form' = form
  BY <1>3 DEF ConnectionFails, PageInv, Types, Responses, OneUnderway, Underway, serverVars
<1>4. ASSUME NEW n \in Submission, OpenRun(n) PROVE PageInv' /\ form.message # "error"
  <2>1. /\ page = "form" /\ n \in Underway /\ page' = "run" /\ known' = {} /\ shown' = {}
        /\ form' = Blank(form.suite)
        /\ post' = [post EXCEPT ![n] = "over"] /\ fetch' = [i \in Refresh |-> NoFetch]
        /\ UNCHANGED <<registered, ready, inbox>>
    BY <1>4 DEF OpenRun, Underway, serverVars
  <2>2. Underway' = {}
    BY <2>1 DEF PageInv, Types, OneUnderway, Underway
  <2>3. Consistent(form', {}) /\ ~form'.creatingRun
    BY <1>f, <2>1, BlankForm DEF Forms
  <2>4. Types'
    BY <2>1, <2>3 DEF PageInv, Types, NoFetch
  <2> QED BY <2>1, <2>2, <2>3, <2>4 DEF PageInv, Responses, OneUnderway, NoFetch
<1>5. ASSUME NEW n \in Submission, ShowError(n) PROVE PageInv' /\ form'.message = "error"
  <2> DEFINE f == [form EXCEPT !.creatingRun = FALSE]
             g == UpdateState(f, shown)
  <2>1. /\ page = "form" /\ n \in Underway /\ form' = [g EXCEPT !.message = "error"]
        /\ post' = [post EXCEPT ![n] = "over"]
        /\ UNCHANGED <<serverVars, page, known, shown, fetch>>
    BY <1>5 DEF ShowError, Underway
  <2>2. f \in Forms /\ ~f.creatingRun
    BY <1>f DEF Forms
  <2> HIDE DEF f
  <2>3. Consistent(g, shown) /\ ~g.creatingRun
    BY <1>f, <2>2, UpdatedForm
  <2> HIDE DEF g
  <2>4. Consistent(form', shown) /\ ~form'.creatingRun /\ form'.message = "error"
    BY <2>1, <2>3 DEF Consistent, Forms, Offered, Chosen
  <2>5. Underway' = {}
    BY <2>1 DEF PageInv, Types, OneUnderway, Underway
  <2>6. Types'
    BY <2>1, <2>4 DEF PageInv, Types, serverVars
  <2> QED BY <2>1, <2>4, <2>5, <2>6 DEF PageInv, Responses, OneUnderway, serverVars
<1> QED BY <1>1, <1>2, <1>3, <1>4, <1>5 DEF PageStep

LEMMA PageInvNext == PageInv /\ [Next]_vars => PageInv'
<1>1. ASSUME PageInv, UNCHANGED vars PROVE PageInv'
  BY <1>1 DEF PageInv, Types, Consistent, Offered, Chosen, Responses, OneUnderway, Underway, vars, serverVars, pageVars
<1> QED BY <1>1, UserStepInv, ServerStepInv, PageStepInv DEF Next

LEMMA PageInvAlways == Spec => []PageInv
BY PageInvInit, PageInvNext, PTL DEF Spec

\* After every event, in whatever order responses and edits come, no device is
\* ticked that is not offered, and the button is enabled exactly when a click
\* would submit something: the early return of the handler is never taken.
THEOREM ButtonIsRight == Spec => []TypeOK
<1>1. PageInv => TypeOK
  BY DEF PageInv, Types, Consistent, Forms, TypeOK
<1> QED BY <1>1, PageInvAlways, PTL

\* The page has one submission under way at most, and is busy exactly as long
\* as it has one.
THEOREM NoDoubleSubmission == Spec => []OneSubmissionAtATime
<1>1. PageInv => OneSubmissionAtATime
  <2> SUFFICES ASSUME PageInv PROVE OneSubmissionAtATime
    OBVIOUS
  <2>1. CASE Underway = {}
    BY <2>1, FS_EmptySet DEF PageInv, OneUnderway, OneSubmissionAtATime
  <2>2. CASE Underway # {}
    <3>1. PICK n \in Underway : Underway = {n}
      BY <2>2 DEF PageInv, OneUnderway
    <3>2. Cardinality(Underway) = 1
      BY <3>1, FS_Singleton
    <3> QED BY <3>2 DEF PageInv, OneUnderway, OneSubmissionAtATime
  <2> QED BY <2>1, <2>2
<1> QED BY <1>1, PageInvAlways, PTL

\* A response that arrives after a submission has failed, or one that was asked
\* for before, leaves the error on the page, unless it lists a device that the page
\* does not know, for which the page is loaded again.
THEOREM ErrorsAreKept == Spec => ErrorsStay
<1>1. ASSUME PageInv, [Next]_vars, form.message = "error", form'.message # "error"
      PROVE  UserStep \/ \E i \in Refresh : ListsUnknown(i) /\ ApplyRefresh(i)
  BY <1>1, ServerStepInv, PageStepInv DEF Next, vars, pageVars
<1> QED BY <1>1, PageInvAlways, PTL DEF Spec, ErrorsStay

=============================================================================
