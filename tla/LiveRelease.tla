----------------------------- MODULE LiveRelease -----------------------------
(***************************************************************************)
(* The read session of the dashboard: the hook useLiveRelease              *)
(* (dashboard/src/features/release-decisions/use-live-release.ts), the     *)
(* component that drives it (dashboard/app/release-dashboard.tsx) and the  *)
(* credential vault they share.                                            *)
(*                                                                         *)
(* Every handler runs to its next await in one step.  A request is         *)
(* answered in any order, by data, by a refusal of the credential, by      *)
(* another failure or by data that contradicts the request.  A handler     *)
(* that was superseded still gets its answer and has to drop it.           *)
(***************************************************************************)
EXTENDS Naturals, FiniteSets

CONSTANTS
    Projects,
    Decisions,
    ProjectOf,      \* the project that owns each decision
    GatesOf,        \* the gates of each decision
    FirstGate,      \* the gate a decision opens with: its first failed, or first
    Filters,        \* ReleaseCaseChangeFilter
    All,            \* the filter "all"
    PageCount,      \* pages of cases the API holds for a query
    DisplayLimit,   \* LIVE_CASE_DISPLAY_LIMIT, in pages
    None,
    Pending,        \* a read of loadEvidence that has no answer yet
    Failed,         \* a read that failed, but not on authorization
    Inconsistent,   \* an answer that contradicts its request
    MaxRequests     \* bound: no user action once so many requests were begun

Gates == UNION {GatesOf[d] : d \in Decisions}
Selections == [decision : Decisions, gate : Gates, filter : Filters]
CasePages == [project : Projects, selection : Selections, pages : SUBSET (1 .. PageCount),
              next : 0 .. PageCount]
Reads == [project : Projects, decision : Decisions, gate : Gates]

ASSUME LiveReleaseAssumption ==
    /\ ProjectOf \in [Decisions -> Projects]
    /\ \A d \in Decisions : FirstGate[d] \in GatesOf[d]
    /\ All \in Filters
    /\ PageCount \in Nat \ {0} /\ DisplayLimit \in Nat \ {0} /\ MaxRequests \in Nat
    /\ None \notin Projects \cup Decisions \cup Selections \cup CasePages \cup Reads

VARIABLES
    mode,           \* sourceMode
    credential,     \* the project of the credential in the vault, or None
    project,        \* liveProject
    view,           \* the state of the hook
    ready,          \* readyRef
    generation,     \* generationRef
    calls,          \* the handlers that wait for an answer
    history,        \* the suite history panel: "closed", "reading" or "loaded"
    wanted          \* history variable: the selection asked for last

session == <<mode, credential, project>>
vars == <<mode, credential, project, view, ready, generation, calls, history, wanted>>

\* A decision, one of its gates, and a case filter.
Selection(d, g, f) == [decision |-> d, gate |-> g, filter |-> f]
Opening(d) == Selection(d, FirstGate[d], All)

\* A case page: the query that was sent, the pages merged, and next_cursor (0: null).
CasePage(p, sel, pages, next) ==
    [project |-> p, selection |-> sel, pages |-> pages, next |-> next]
Distributions(p, d, g) == [project |-> p, decision |-> d, gate |-> g]

Cursor(page) == IF page < PageCount THEN page + 1 ELSE 0

\* ReadyRelease
Release(p, recent, sel, cases, dists) ==
    [project |-> p, recent |-> recent, selection |-> sel, cases |-> cases, dists |-> dists]

Releases ==
    [project : Projects, recent : SUBSET Decisions, selection : Selections,
     cases : CasePages \cup {None}, dists : Reads \cup {None}]

\* LiveReleaseState: shown is the value of "ready" and previous of the others.
View(kind, shown, opening) == [kind |-> kind, shown |-> shown, opening |-> opening]

Disconnected == View("disconnected", None, None)

Views ==
    [kind : {"disconnected", "loading", "ready", "empty", "error"},
     shown : Releases \cup {None}, opening : Decisions \cup {None}]

Handlers ==
    [gen : Nat, aborted : BOOLEAN,
     step : {"list", "detail", "evidence", "cases", "distributions", "more"},
     auth : Projects \cup {None}, project : Projects,
     recent : SUBSET Decisions, selection : Selections \cup {None},
     base : Releases \cup {None}, opening : Decisions \cup {None},
     cases : CasePages \cup {Pending, Failed, Inconsistent},
     dists : Reads \cup {Pending, Failed, Inconsistent}]

TypeOK ==
    /\ mode \in {"fixture", "live"}
    /\ credential \in Projects \cup {None} /\ project \in Projects \cup {None}
    /\ view \in Views
    /\ ready \in Releases \cup {None}
    /\ generation \in Nat
    /\ calls \subseteq Handlers
    /\ history \in {"closed", "reading", "loaded"}
    /\ wanted \in Selections \cup {None}

(***************************************************************************)
(* Requests                                                                *)
(***************************************************************************)

\* A handler at its await.  "auth" is the credential the client reads when it sends
\* the request, which the form has put in the vault before it connects; base is the
\* ReadyRelease the handler started from.
Call(gen, step, p, recent, sel, base, opening) ==
    [gen |-> gen, aborted |-> FALSE, step |-> step, auth |-> credential', project |-> p,
     recent |-> recent, selection |-> sel, base |-> base, opening |-> opening,
     cases |-> Pending, dists |-> Pending]

\* Mutant: whatever arrives is used.
CurrentAlways(call) == TRUE

\* currentRequest
Current(call) == call.gen = generation /\ ~call.aborted

Abort(waiting) == {[call EXCEPT !.aborted = TRUE] : call \in waiting}

\* beginRequest and the request that follows it.
BeginRequest(others, step, p, recent, sel, base, opening) ==
    /\ generation' = generation + 1
    /\ calls' = Abort(others)
          \cup {Call(generation + 1, step, p, recent, sel, base, opening)}
    /\ view' = View("loading", base, opening)

\* loadEvidence up to its await.
LoadEvidence(others, p, recent, sel, base, opening) ==
    BeginRequest(others, "evidence", p, recent, sel, base, opening)

\* A new value: readyRef and the state are set together.
Publish(call, value) ==
    /\ ready' = value
    /\ view' = View("ready", value, None)
    /\ calls' = calls \ {call}
    /\ UNCHANGED generation

\* A failure other than of authorization: what was shown stays.
Fail(call) ==
    /\ view' = View("error", call.base, None)
    /\ calls' = calls \ {call}
    /\ UNCHANGED <<ready, generation>>

\* Mutant: the sibling's abort counts as if the request were superseded.
HearsDenialUnaborted(call) ==
    call.gen = generation /\ ~call.aborted /\ call.step # "evidence"

\* In loadEvidence the read that was denied aborts the controller itself, so only
\* the generation is compared; elsewhere the abort comes after the comparison.
HearsDenial(call) == call.gen = generation

\* A read is answered by 401 or 403: clearCredential, and the panel is unmounted.
Deny(call) ==
    /\ HearsDenial(call)
    /\ credential' = None /\ project' = None /\ history' = "closed"
    /\ ready' = None
    /\ view' = View("error", None, None)
    /\ calls' = calls \ {call}
    /\ UNCHANGED <<mode, generation, wanted>>

\* The answer of a superseded handler is dropped.
Drop(call) ==
    /\ ~Current(call) \/ ~HearsDenial(call)
    /\ calls' = calls \ {call}
    /\ UNCHANGED <<session, view, ready, generation, history, wanted>>

(***************************************************************************)
(* Answers                                                                 *)
(***************************************************************************)

\* connect, the list: empty, or its newest decision is read next.
ListAnswered(call) ==
    /\ call.step = "list" /\ call.auth # None
    /\ \/ /\ view' = View("empty", None, None)
          /\ calls' = calls \ {call}
       \/ \E recent \in SUBSET {d \in Decisions : ProjectOf[d] = call.auth} :
             \E newest \in recent :
                /\ calls' = (calls \ {call}) \cup
                      {[call EXCEPT !.step = "detail", !.auth = credential,
                                    !.recent = recent, !.selection = Opening(newest)]}
                /\ UNCHANGED view
    /\ UNCHANGED <<ready, generation>>

\* connect, selectDecision, reviewHistoricalDecision: the decision itself.
DetailAnswered(call) ==
    /\ call.step = "detail" /\ call.auth = ProjectOf[call.selection.decision]
    /\ LoadEvidence(calls \ {call}, call.project, call.recent, call.selection, call.base,
                    call.opening)
    /\ UNCHANGED ready

\* The first page of a query, as the API answers it.
FirstPage(call) == CasePage(call.auth, call.selection, {1}, Cursor(1))

DistributionsOf(call) ==
    Distributions(call.auth, call.selection.decision, call.selection.gate)

\* loadEvidence after both reads are settled: one of the two is enough, and an
\* answer that contradicts the decision is not shown.
Settled(call, cases, dists) ==
    IF cases = Inconsistent \/ dists = Inconsistent \/ (cases = Failed /\ dists = Failed)
    THEN Fail(call)
    ELSE Publish(call, Release(call.project, call.recent, call.selection,
                               IF cases = Failed THEN None ELSE cases,
                               IF dists = Failed THEN None ELSE dists))

\* loadEvidence: one of the two reads is settled, in either order.
EvidenceAnswered(call) ==
    /\ call.step = "evidence" /\ call.auth # None
    /\ \/ \E cases \in {FirstPage(call), Failed, Inconsistent} :
             /\ call.cases = Pending
             /\ IF call.dists = Pending
                THEN /\ calls' = (calls \ {call}) \cup {[call EXCEPT !.cases = cases]}
                     /\ UNCHANGED <<view, ready, generation>>
                ELSE Settled(call, cases, call.dists)
       \/ \E dists \in {DistributionsOf(call), Failed, Inconsistent} :
             /\ call.dists = Pending
             /\ IF call.cases = Pending
                THEN /\ calls' = (calls \ {call}) \cup {[call EXCEPT !.dists = dists]}
                     /\ UNCHANGED <<view, ready, generation>>
                ELSE Settled(call, call.cases, dists)

\* Mutant: the pages of the new filter join those of the old one.
CasesAnsweredMerged(call) ==
    /\ call.step = "cases" /\ call.auth # None
    /\ Publish(call, [call.base EXCEPT !.selection = call.selection,
                                       !.cases = IF @ = None THEN FirstPage(call) ELSE @])

\* loadCaseEvidence: the page replaces the one shown; when the read fails the
\* distributions stay, if there are any.
CasesAnswered(call) ==
    /\ call.step = "cases" /\ call.auth # None
    /\ \/ Publish(call, [call.base EXCEPT !.selection = call.selection,
                                          !.cases = FirstPage(call)])
       \/ IF call.base.dists = None THEN Fail(call)
          ELSE Publish(call, [call.base EXCEPT !.selection = call.selection,
                                               !.cases = None])

\* retryDistributionEvidence: when the read fails the cases stay, if there are
\* any, and otherwise the distributions.
DistributionsAnswered(call) ==
    /\ call.step = "distributions" /\ call.auth # None
    /\ \/ Publish(call, [call.base EXCEPT !.dists = DistributionsOf(call)])
       \/ Publish(call, [call.base EXCEPT !.dists = IF call.base.cases = None THEN @ ELSE None])

\* loadMoreCases: the page is appended to the ones shown.
MoreAnswered(call) ==
    /\ call.step = "more" /\ call.auth # None
    /\ LET shown == call.base.cases
           page == CasePage(call.auth, call.selection, shown.pages \cup {shown.next},
                            Cursor(shown.next))
       IN  Publish(call, [call.base EXCEPT !.cases = page])

\* Any read but those of loadEvidence and of the other projections fails, or is
\* answered by something that fails validation.
ReadFailed(call) == call.step \in {"list", "detail", "more"} /\ Fail(call)

Answer(call) ==
    \/ /\ Current(call)
       /\ UNCHANGED <<session, history, wanted>>
       /\ \/ ListAnswered(call)
          \/ DetailAnswered(call)
          \/ EvidenceAnswered(call)
          \/ CasesAnswered(call)
          \/ DistributionsAnswered(call)
          \/ MoreAnswered(call)
          \/ ReadFailed(call)
    \/ Deny(call)
    \/ Drop(call)

(***************************************************************************)
(* The user                                                                *)
(***************************************************************************)

Asks(sel) ==
    /\ generation < MaxRequests
    /\ wanted' = sel
    /\ UNCHANGED <<session, history>>

\* Controls of the hook are rendered while there is evidence; most are disabled
\* while a request is in flight.
Shown == mode = "live" /\ view.shown # None
Idle == Shown /\ view.kind # "loading"

\* connect, once the list is asked for.
Connects(p) ==
    /\ ready' = None
    /\ BeginRequest(calls, "list", p, {}, None, None, None)

\* The form is submitted: vault.set, setLiveProject, live.connect.
SubmitCredential(p) ==
    /\ mode = "live" /\ generation < MaxRequests
    /\ \/ view.kind = "disconnected"
       \/ view.kind = "error" /\ view.shown = None /\ (project = None \/ credential = None)
    /\ credential' = p /\ project' = p /\ wanted' = None
    /\ Connects(p)
    /\ UNCHANGED <<mode, history>>

\* "Refresh live data" and "Retry live request".
Reconnect ==
    /\ mode = "live" /\ project # None /\ credential # None
    /\ view.kind \in {"empty", "error"} /\ view.shown = None
    /\ Asks(None)
    /\ Connects(project)

SelectDecision(d) ==
    /\ Idle /\ d \in ready.recent /\ d # ready.selection.decision
    /\ Asks(Opening(d))
    /\ BeginRequest(calls, "detail", ready.project, ready.recent, Opening(d), ready, None)
    /\ UNCHANGED ready

\* A row of the history panel; its button is disabled while the panel reads or
\* the row is being opened.
ReviewHistoricalDecision(d) ==
    /\ mode = "live" /\ history = "loaded" /\ ProjectOf[d] = project
    /\ view.opening # d
    /\ Asks(Opening(d))
    /\ BeginRequest(calls, "detail", project,
                    IF ready = None THEN {} ELSE ready.recent, Opening(d), ready, d)
    /\ UNCHANGED ready

\* Gates can be selected while a request is in flight.
SelectGate(g) ==
    /\ Shown /\ g \in GatesOf[ready.selection.decision]
    /\ LET sel == [ready.selection EXCEPT !.gate = g]
       IN  /\ Asks(sel)
           /\ LoadEvidence(calls, ready.project, ready.recent, sel, ready, None)
    /\ UNCHANGED ready

\* A read of one projection of what is shown.
Reload(step, sel) ==
    /\ Asks(sel)
    /\ BeginRequest(calls, step, ready.project, ready.recent, sel, ready, None)
    /\ UNCHANGED ready

SelectCaseChange(f) ==
    /\ Idle /\ f # ready.selection.filter
    /\ Reload("cases", [ready.selection EXCEPT !.filter = f])

RetryCaseEvidence ==
    Idle /\ ready.cases = None /\ Reload("cases", ready.selection)

RetryDistributionEvidence ==
    Idle /\ ready.dists = None /\ Reload("distributions", ready.selection)

LoadMoreCases ==
    /\ Idle /\ ready.cases # None /\ ready.cases.next # 0
    /\ Cardinality(ready.cases.pages) < DisplayLimit
    /\ Reload("more", ready.selection)

\* Mutant: disconnect forgets to supersede what is in flight.
DisconnectInFlight ==
    /\ ready' = None /\ view' = Disconnected
    /\ UNCHANGED <<generation, calls>>

\* disconnect
Disconnect ==
    /\ generation' = generation + 1
    /\ calls' = Abort(calls)
    /\ ready' = None /\ view' = Disconnected

EnterLiveMode ==
    /\ mode = "fixture" /\ generation < MaxRequests
    /\ mode' = "live"
    /\ Disconnect
    /\ UNCHANGED <<credential, project, history, wanted>>

ReturnToFixture ==
    /\ mode = "live"
    /\ mode' = "fixture" /\ credential' = None /\ project' = None /\ history' = "closed"
    /\ Disconnect
    /\ UNCHANGED wanted

(***************************************************************************)
(* The suite history panel, as far as the session is concerned             *)
(***************************************************************************)

ReadHistory ==
    /\ mode = "live" /\ project # None /\ history # "reading"
    /\ history' = "reading"
    /\ UNCHANGED <<session, view, ready, generation, calls, wanted>>

HistoryAnswered ==
    /\ history = "reading"
    /\ history' \in {"loaded", "closed"}
    /\ UNCHANGED <<session, view, ready, generation, calls, wanted>>

\* onAuthenticationFailure of the panel: clearCredential and live.disconnect.
HistoryDenied ==
    /\ history = "reading"
    /\ credential' = None /\ project' = None /\ history' = "closed"
    /\ Disconnect
    /\ UNCHANGED <<mode, wanted>>

Init ==
    /\ mode = "fixture" /\ credential = None /\ project = None
    /\ view = Disconnected /\ ready = None
    /\ generation = 0 /\ calls = {}
    /\ history = "closed" /\ wanted = None

Next ==
    \/ \E call \in calls : Answer(call)
    \/ \E p \in Projects : SubmitCredential(p)
    \/ Reconnect
    \/ \E d \in Decisions : SelectDecision(d) \/ ReviewHistoricalDecision(d)
    \/ \E g \in UNION {GatesOf[d] : d \in Decisions} : SelectGate(g)
    \/ \E f \in Filters : SelectCaseChange(f)
    \/ RetryCaseEvidence \/ RetryDistributionEvidence \/ LoadMoreCases
    \/ EnterLiveMode \/ ReturnToFixture
    \/ ReadHistory \/ HistoryAnswered \/ HistoryDenied

Spec == Init /\ [][Next]_vars

\* A request that was sent is answered, if only by a failure.
RequestsEnd ==
    \A g \in 0 .. MaxRequests + 3 : WF_vars(\E call \in calls : call.gen = g /\ Answer(call))

LiveSpec == Spec /\ RequestsEnd
(***************************************************************************)
(* Properties                                                              *)
(***************************************************************************)

\* The parts of a release were read for one decision of its project, and the case
\* pages are a bounded prefix without gaps.
Together(shown) ==
    /\ ProjectOf[shown.selection.decision] = shown.project
    /\ shown.cases # None \/ shown.dists # None
    /\ shown.cases # None =>
          LET count == Cardinality(shown.cases.pages)
          IN  /\ count <= DisplayLimit
              /\ shown.cases
                    = CasePage(shown.project, shown.selection, 1 .. count, Cursor(count))
    /\ shown.dists # None =>
          shown.dists = Distributions(shown.project, shown.selection.decision,
                                      shown.selection.gate)

\* Whatever is on the screen was read for one decision of the project, for one of
\* its gates and one filter, and the case pages are a bounded prefix without gaps
\* whose cursor goes on where it ends (buildReleaseDashboardModel, loadMoreCases).
EvidenceBelongsTogether == view.shown # None => Together(view.shown)

\* A selection that answers what the user asked for last.
Wants(sel) == IF wanted = None THEN sel = Opening(sel.decision) ELSE sel = wanted

\* When the view is ready it shows what the user asked for last: no answer of an
\* earlier selection wins a race (ADR 0009).
LastSelectionIsShown == view.kind = "ready" => Wants(view.shown.selection)

\* Evidence is on the screen only under a credential of its project: once access
\* is denied or the session disconnected, nothing is left and nothing comes back.
NoEvidenceWithoutCredential ==
    /\ view.shown # None => credential = view.shown.project /\ project = credential
    /\ view.kind \in {"loading", "ready"} => credential # None

\* What a handler that was not superseded works on: what is shown, and what was asked
\* last.
Works(call) ==
    /\ call.step = "list" => wanted = None /\ ready = None
    /\ call.step # "list" => call.selection \in Selections /\ Wants(call.selection)
    /\ call.step \notin {"list", "detail"} => ProjectOf[call.selection.decision] = project
    /\ call.step = "evidence" =>
          /\ call.cases \in {Pending, Failed, Inconsistent, FirstPage(call)}
          /\ call.dists \in {Pending, Failed, Inconsistent, DistributionsOf(call)}
    /\ call.step \in {"cases", "distributions", "more"} =>
          /\ ready # None
          /\ call.selection.decision = ready.selection.decision
          /\ call.selection.gate = ready.selection.gate
    /\ call.step \in {"distributions", "more"} => call.selection = ready.selection
    /\ call.step = "more" =>
          /\ ready.cases # None /\ ready.cases.next # 0
          /\ Cardinality(ready.cases.pages) < DisplayLimit

\* The handler that was not superseded reads with the credential in the vault.
Faithful(call) ==
    /\ ~call.aborted /\ view.kind = "loading"
    /\ call.auth = project /\ call.project = project /\ call.base = ready
    /\ Works(call)

\* The inductive invariant: the vault and the page agree on the project, what is on
\* the screen is readyRef, and one handler at most is not superseded.
IInv ==
    /\ TypeOK
    /\ credential = project /\ view.shown = ready
    /\ ready # None => Together(ready) /\ ready.project = project
    /\ view.kind = "ready" => Wants(ready.selection)
    /\ view.kind \in {"loading", "ready"} => project # None
    /\ \A call \in calls :
          /\ call.gen <= generation
          /\ call.gen = generation => Faithful(call)
    /\ \A call, other \in calls : call.gen = generation /\ other.gen = generation => call = other

\* A view that loads does not load for ever: no answer is dropped that nobody else
\* would make up for.
LoadingEnds == view.kind = "loading" ~> view.kind # "loading"
=============================================================================
