-------------------------- MODULE LiveReleaseProofs --------------------------
(***************************************************************************)
(* Safety proofs for the read session of the dashboard.  The argument is   *)
(* that beginRequest and disconnect leave at most one handler current, and *)
(* that this handler works with the credential in the vault, on what is    *)
(* shown and for what was asked last.  Everything else is dropped.         *)
(***************************************************************************)
EXTENDS LiveRelease, TLAPS, FiniteSetTheorems

(***************************************************************************)
(* The data                                                                *)
(***************************************************************************)

\* The selection a decision opens with is one of its own gates under "all".
LEMMA OpeningIsASelection ==
    ASSUME NEW d \in Decisions
    PROVE  Opening(d) \in Selections /\ Opening(d).decision = d
  <1>1. FirstGate[d] \in Gates
    BY LiveReleaseAssumption DEF Gates
  <1> QED
    BY <1>1, LiveReleaseAssumption DEF Opening, Selection, Selections

\* The first page, as it is answered, is a page.
LEMMA FirstPageIsAPage ==
    ASSUME NEW p \in Projects, NEW sel \in Selections
    PROVE  /\ CasePage(p, sel, {1}, Cursor(1)) \in CasePages
           /\ CasePage(p, sel, {1}, Cursor(1)) # None
           /\ Distributions(p, sel.decision, sel.gate) \in Reads
           /\ Distributions(p, sel.decision, sel.gate) # None
  <1>1. {1} \in SUBSET (1 .. PageCount) /\ Cursor(1) \in 0 .. PageCount
    BY LiveReleaseAssumption DEF Cursor
  <1>2. sel.decision \in Decisions /\ sel.gate \in Gates
    BY DEF Selections
  <1>3. CasePage(p, sel, {1}, Cursor(1)) \in CasePages
    BY <1>1 DEF CasePage, CasePages
  <1>4. Distributions(p, sel.decision, sel.gate) \in Reads
    BY <1>2 DEF Distributions, Reads
  <1> QED
    BY <1>3, <1>4, LiveReleaseAssumption

\* A run of the first pages has as many pages as its last one says.
LEMMA PagesAreCounted ==
    ASSUME NEW n \in Nat
    PROVE  Cardinality(1 .. n) = n
  BY FS_Interval

\* One page is a prefix that can be displayed.
LEMMA OnePage == Cardinality({1}) = 1 /\ {1} = 1 .. 1 /\ 1 <= DisplayLimit
  <1>1. {1} = 1 .. 1
    OBVIOUS
  <1>2. Cardinality(1 .. 1) = 1
    BY PagesAreCounted
  <1>3. 1 <= DisplayLimit
    BY LiveReleaseAssumption
  <1> QED
    BY <1>1, <1>2, <1>3

\* The fields of a page.
LEMMA PageFields ==
    ASSUME NEW p, NEW sel, NEW pages, NEW next
    PROVE  /\ CasePage(p, sel, pages, next).pages = pages
           /\ CasePage(p, sel, pages, next).next = next
  BY DEF CasePage

\* What loadEvidence publishes when one of its two reads succeeded belongs together.
LEMMA EvidenceIsTogether ==
    ASSUME NEW p \in Projects, NEW recent \in SUBSET Decisions, NEW sel \in Selections,
           ProjectOf[sel.decision] = p,
           NEW cases \in {CasePage(p, sel, {1}, Cursor(1)), None},
           NEW dists \in {Distributions(p, sel.decision, sel.gate), None},
           cases # None \/ dists # None
    PROVE  /\ Release(p, recent, sel, cases, dists) \in Releases
           /\ Together(Release(p, recent, sel, cases, dists))
  <1> DEFINE value == Release(p, recent, sel, cases, dists)
  <1>1. /\ value.project = p /\ value.selection = sel
        /\ value.cases = cases /\ value.dists = dists
    BY DEF Release
  <1>2. value \in Releases
    BY FirstPageIsAPage DEF Release, Releases
  <1>3. Cardinality({1}) = 1 /\ {1} = 1 .. 1 /\ 1 <= DisplayLimit
    BY OnePage
  <1>4. cases # None =>
           cases.pages = {1} /\ cases = CasePage(p, sel, 1 .. 1, Cursor(1))
    BY <1>3 DEF CasePage
  <1>5. dists # None => dists = Distributions(p, sel.decision, sel.gate)
    OBVIOUS
  <1> HIDE DEF value
  <1>6. value.cases # None =>
           LET count == Cardinality(value.cases.pages)
           IN  /\ count <= DisplayLimit
               /\ value.cases
                     = CasePage(value.project, value.selection, 1 .. count, Cursor(count))
    BY <1>1, <1>3, <1>4
  <1>7. Together(value)
    BY <1>1, <1>5, <1>6 DEF Together
  <1> QED
    BY <1>2, <1>7 DEF value

\* loadCaseEvidence replaces the pages, or leaves the distributions alone on the
\* screen.
LEMMA CasesAreTogether ==
    ASSUME NEW base \in Releases, Together(base), NEW value \in Releases,
           value.project = base.project, value.dists = base.dists,
           value.selection.decision = base.selection.decision,
           value.selection.gate = base.selection.gate,
           value.cases \in {CasePage(value.project, value.selection, {1}, Cursor(1)), None},
           value.cases # None \/ base.dists # None
    PROVE  Together(value)
  <1>1. value.cases # None =>
           /\ value.cases.pages = {1}
           /\ value.cases = CasePage(value.project, value.selection, 1 .. 1, Cursor(1))
    BY OnePage, PageFields
  <1> QED
    BY <1>1, OnePage DEF Together

\* retryDistributionEvidence replaces the distributions, or drops them when there
\* are cases.
LEMMA DistributionsAreTogether ==
    ASSUME NEW base \in Releases, Together(base),
           NEW dists \in {Distributions(base.project, base.selection.decision,
                                        base.selection.gate), base.dists, None},
           dists # None \/ base.cases # None \/ base.dists = dists
    PROVE  LET value == [base EXCEPT !.dists = dists]
           IN  /\ value \in Releases /\ Together(value)
               /\ value.project = base.project /\ value.selection = base.selection
  <1> DEFINE value == [base EXCEPT !.dists = dists]
  <1>1. base.selection \in Selections /\ base.project \in Projects
        /\ base.dists \in Reads \cup {None}
    BY DEF Releases
  <1>2. /\ value.project = base.project /\ value.selection = base.selection
        /\ value.cases = base.cases /\ value.dists = dists
    BY DEF Releases
  <1>3. dists \in Reads \cup {None}
    BY <1>1, FirstPageIsAPage
  <1>4. value \in Releases
    BY <1>3 DEF Releases
  <1> HIDE DEF value
  <1>5. Together(value)
    BY <1>2 DEF Together
  <1> QED
    BY <1>2, <1>4, <1>5 DEF value

\* loadMoreCases appends the page the cursor names.
LEMMA MoreIsTogether ==
    ASSUME NEW base \in Releases, Together(base),
           base.cases # None, base.cases.next # 0,
           Cardinality(base.cases.pages) < DisplayLimit,
           NEW page,
           page = CasePage(base.project, base.selection,
                           base.cases.pages \cup {base.cases.next}, Cursor(base.cases.next))
    PROVE  LET value == [base EXCEPT !.cases = page]
           IN  /\ value \in Releases /\ Together(value)
               /\ value.project = base.project /\ value.selection = base.selection
  <1> DEFINE value == [base EXCEPT !.cases = page]
             count == Cardinality(base.cases.pages)
  <1>1. /\ base.selection \in Selections /\ base.project \in Projects
        /\ base.cases \in CasePages
    BY DEF Releases
  <1>2. base.cases.pages \in SUBSET (1 .. PageCount)
    BY <1>1 DEF CasePages
  <1>3. count \in Nat
    <2>1. IsFiniteSet(1 .. PageCount)
      BY FS_Interval, LiveReleaseAssumption
    <2>2. IsFiniteSet(base.cases.pages)
      BY <1>2, <2>1, FS_Subset
    <2> QED
      BY <2>2, FS_CardinalityType
  <1>4. base.cases = CasePage(base.project, base.selection, 1 .. count, Cursor(count))
    BY DEF Together
  <1>5. base.cases.pages = 1 .. count /\ base.cases.next = Cursor(count)
    BY <1>4 DEF CasePage
  <1> HIDE DEF count
  <1>6. count < PageCount /\ base.cases.next = count + 1
    BY <1>3, <1>5, LiveReleaseAssumption DEF Cursor
  <1>7. base.cases.pages \cup {base.cases.next} = 1 .. (count + 1)
    BY <1>3, <1>5, <1>6
  <1>8. page = CasePage(base.project, base.selection, 1 .. (count + 1), Cursor(count + 1))
    BY <1>6, <1>7
  <1>9. page \in CasePages
    <2>1. Cursor(count + 1) \in 0 .. PageCount
      BY <1>3, <1>6, LiveReleaseAssumption DEF Cursor
    <2>2. 1 .. (count + 1) \in SUBSET (1 .. PageCount)
      BY <1>3, <1>6, LiveReleaseAssumption
    <2> QED
      BY <1>1, <1>8, <2>1, <2>2 DEF CasePage, CasePages
  <1>10. page.pages = 1 .. (count + 1)
    BY <1>8, PageFields
  <1>11. Cardinality(page.pages) = count + 1
    BY <1>3, <1>10, PagesAreCounted
  <1>12. count + 1 <= DisplayLimit
    BY <1>3, LiveReleaseAssumption DEF count
  <1>13. /\ value.project = base.project /\ value.selection = base.selection
         /\ value.cases = page /\ value.dists = base.dists
    BY DEF Releases
  <1>14. value \in Releases
    BY <1>9 DEF Releases
  <1> HIDE DEF value
  <1>15. Together(value)
    <2>1. page # None
      BY <1>9, LiveReleaseAssumption
    <2> QED
      BY <1>8, <1>11, <1>12, <1>13, <2>1 DEF Together
  <1> QED
    BY <1>13, <1>14, <1>15 DEF value

(***************************************************************************)
(* The generations                                                         *)
(***************************************************************************)

\* An aborted handler is the handler it was.
LEMMA AbortKeeps ==
    ASSUME NEW old \in Handlers
    PROVE  /\ [old EXCEPT !.aborted = TRUE] \in Handlers
           /\ [old EXCEPT !.aborted = TRUE].gen = old.gen
           /\ old.gen \in Nat
  BY DEF Handlers

\* The handler of a request as it is sent.
LEMMA SentHandler ==
    ASSUME NEW gen \in Nat, NEW auth \in Projects, NEW p \in Projects,
           NEW step \in {"list", "detail", "evidence", "cases", "distributions", "more"},
           NEW recent \in SUBSET Decisions, NEW sel \in Selections \cup {None},
           NEW base \in Releases \cup {None}, NEW opening \in Decisions \cup {None}
    PROVE  LET new == [gen |-> gen, aborted |-> FALSE, step |-> step, auth |-> auth,
                       project |-> p, recent |-> recent, selection |-> sel, base |-> base,
                       opening |-> opening, cases |-> Pending, dists |-> Pending]
           IN  new \in Handlers
  BY DEF Handlers

\* beginRequest: of the handlers that wait, the new one alone is current.
LEMMA OneIsCurrent ==
    ASSUME TypeOK, \A call \in calls : call.gen <= generation,
           NEW others \in SUBSET calls,
           NEW new \in Handlers, new.gen = generation + 1,
           generation' = generation + 1,
           calls' = Abort(others) \cup {new}
    PROVE  /\ generation' \in Nat /\ calls' \subseteq Handlers
           /\ \A call \in calls' :
                 call.gen <= generation' /\ (call.gen = generation' => call = new)
  <1>1. generation \in Nat /\ calls \subseteq Handlers
    BY DEF TypeOK
  <1>2. \A call \in Abort(others) : call \in Handlers /\ call.gen <= generation
    <2>1. SUFFICES ASSUME NEW old \in others
                   PROVE  /\ [old EXCEPT !.aborted = TRUE] \in Handlers
                          /\ [old EXCEPT !.aborted = TRUE].gen <= generation
      BY DEF Abort
    <2>2. old \in Handlers /\ old.gen <= generation
      BY <1>1
    <2> QED
      BY <2>2, AbortKeeps
  <1>3. \A call \in Abort(others) : call.gen \in Nat /\ call.gen # generation + 1
    <2>1. \A call \in Abort(others) : call.gen \in Nat
      BY <1>2, AbortKeeps
    <2> QED
      BY <1>1, <1>2, <2>1
  <1> QED
    BY <1>1, <1>2, <1>3

\* Every request that is begun keeps the invariant, if its handler is faithful.
LEMMA BegunRequest ==
    ASSUME IInv, NEW others \in SUBSET calls,
           NEW new \in Handlers, new.gen = generation + 1, ~new.aborted,
           generation' = generation + 1,
           calls' = Abort(others) \cup {new},
           view' = View("loading", new.base, new.opening),
           ready' = new.base,
           ready' # None => Together(ready') /\ ready'.project = project',
           mode' \in {"fixture", "live"},
           project' \in Projects, credential' = project',
           new.auth = project', new.project = project',
           history' \in {"closed", "reading", "loaded"},
           wanted' \in Selections \cup {None},
           Works(new)'
    PROVE  IInv'
  <1>1. /\ generation' \in Nat /\ calls' \subseteq Handlers
        /\ \A call \in calls' :
              call.gen <= generation' /\ (call.gen = generation' => call = new)
    BY OneIsCurrent DEF IInv
  <1>2. /\ new.base \in Releases \cup {None} /\ new.opening \in Decisions \cup {None}
    BY DEF Handlers
  <1>3. /\ view'.kind = "loading" /\ view'.shown = ready'
        /\ view' \in Views
    BY <1>2 DEF View, Views
  <1>4. TypeOK'
    BY <1>1, <1>2, <1>3 DEF TypeOK
  <1>5. Faithful(new)'
    BY <1>3 DEF Faithful
  <1>6. project' # None
    BY LiveReleaseAssumption
  <1> QED
    BY <1>1, <1>3, <1>4, <1>5, <1>6 DEF IInv

\* A value that the current handler publishes.
LEMMA PublishedValue ==
    ASSUME IInv, NEW call \in calls, call.gen = generation,
           NEW value \in Releases, Together(value), value.project = project,
           Wants(value.selection),
           ready' = value, view' = View("ready", value, None),
           calls' = calls \ {call},
           UNCHANGED <<generation, mode, credential, project, history, wanted>>
    PROVE  IInv'
  <1>1. /\ view'.kind = "ready" /\ view'.shown = ready' /\ view' \in Views
    BY DEF View, Views
  <1>2. TypeOK'
    BY <1>1 DEF IInv, TypeOK
  <1>3. \A other \in calls' : other.gen <= generation' /\ other.gen # generation'
    BY DEF IInv
  <1>4. Wants(ready.selection)'
    BY DEF Wants
  <1>5. project' # None
    <2>1. value.project \in Projects
      BY DEF Releases
    <2> QED
      BY <2>1, LiveReleaseAssumption
  <1> QED
    BY <1>1, <1>2, <1>3, <1>4, <1>5 DEF IInv

\* The current handler ends without a value.
LEMMA EndedRequest ==
    ASSUME IInv, NEW call \in calls, call.gen = generation,
           NEW kind \in {"error", "empty"},
           view' = View(kind, ready', None),
           calls' = calls \ {call},
           \/ UNCHANGED <<ready, project, credential>>
           \/ ready' = None /\ project' = None /\ credential' = None,
           history' \in {"closed", "reading", "loaded"},
           UNCHANGED <<generation, mode, wanted>>
    PROVE  IInv'
  <1>1. ready' \in Releases \cup {None}
    BY DEF IInv, TypeOK
  <1>2. /\ view'.kind = kind /\ view'.shown = ready' /\ view' \in Views
    BY <1>1 DEF View, Views
  <1>3. TypeOK'
    BY <1>1, <1>2 DEF IInv, TypeOK
  <1>4. \A other \in calls' : other.gen <= generation' /\ other.gen # generation'
    BY DEF IInv
  <1>5. ready' # None => Together(ready') /\ ready'.project = project'
    BY DEF IInv
  <1>6. credential' = project'
    BY DEF IInv
  <1> QED
    BY <1>2, <1>3, <1>4, <1>5, <1>6 DEF IInv

\* disconnect: no handler is current any more.
LEMMA DisconnectedSession ==
    ASSUME IInv, Disconnect,
           mode' \in {"fixture", "live"},
           project' \in Projects \cup {None}, credential' = project',
           history' \in {"closed", "reading", "loaded"},
           UNCHANGED wanted
    PROVE  IInv'
  <1>1. view' \in Views /\ view'.kind = "disconnected" /\ view'.shown = None /\ ready' = None
    BY DEF Disconnect, Disconnected, View, Views
  <1>2. generation \in Nat /\ calls \subseteq Handlers /\ generation' = generation + 1
    BY DEF IInv, TypeOK, Disconnect
  <1>3. \A call \in calls' : call \in Handlers /\ call.gen <= generation
    <2>1. SUFFICES ASSUME NEW old \in calls
                   PROVE  /\ [old EXCEPT !.aborted = TRUE] \in Handlers
                          /\ [old EXCEPT !.aborted = TRUE].gen <= generation
      BY DEF Disconnect, Abort
    <2>2. old \in Handlers /\ old.gen <= generation
      BY <1>2 DEF IInv
    <2> QED
      BY <2>2, AbortKeeps
  <1>4. \A call \in calls' : call.gen <= generation' /\ call.gen # generation'
    <2>1. \A call \in calls' : call.gen \in Nat
      BY <1>3, AbortKeeps
    <2> QED
      BY <1>2, <1>3, <2>1
  <1>5. TypeOK'
    BY <1>1, <1>2, <1>3 DEF IInv, TypeOK
  <1> QED
    BY <1>1, <1>4, <1>5 DEF IInv

\* Handlers that are dropped and what happens in the history panel disturb nothing.
LEMMA UndisturbedSession ==
    ASSUME IInv, calls' \subseteq calls,
           \A call \in calls \ calls' : call.gen # generation \/ call.aborted,
           history' \in {"closed", "reading", "loaded"},
           UNCHANGED <<session, view, ready, generation, wanted>>
    PROVE  IInv'
  <1>1. TypeOK'
    BY DEF IInv, TypeOK, session
  <1>2. \A call \in calls' : call.gen = generation' => Faithful(call)'
    <2>1. SUFFICES ASSUME NEW call \in calls', call.gen = generation
                   PROVE  Faithful(call)'
      OBVIOUS
    <2>2. Faithful(call)
      BY <2>1 DEF IInv
    <2> QED
      BY <2>2 DEF Faithful, Works, Wants, session
  <1> QED
    BY <1>1, <1>2 DEF IInv, session, Wants

(***************************************************************************)
(* Answers                                                                 *)
(***************************************************************************)

\* What the invariant says of the handler that is current.
LEMMA CurrentHandler ==
    ASSUME IInv, NEW call \in calls, Current(call)
    PROVE  /\ call \in Handlers /\ call.gen = generation
           /\ Works(call) /\ call.base = ready
           /\ call.auth = project /\ call.project = project /\ credential = project
           /\ project \in Projects
           /\ ready \in Releases \cup {None}
           /\ ready # None => Together(ready) /\ ready.project = project
  <1>1. call \in Handlers /\ call.gen = generation /\ Faithful(call)
    BY DEF IInv, TypeOK, Current
  <1>2. project \in Projects
    BY <1>1 DEF IInv, TypeOK, Faithful
  <1> QED
    BY <1>1, <1>2 DEF IInv, TypeOK, Faithful

\* An answer that the current handler waits on.
LEMMA UpdatedHandler ==
    ASSUME IInv, NEW call \in calls, call.gen = generation,
           NEW new \in Handlers, new.gen = generation, ~new.aborted,
           new.auth = project, new.project = project, new.base = ready, Works(new),
           calls' = (calls \ {call}) \cup {new},
           UNCHANGED <<mode, credential, project, view, ready, generation, history, wanted>>
    PROVE  IInv'
  <1>1. \A other \in calls' :
           /\ other \in Handlers /\ other.gen <= generation
           /\ other.gen = generation => other = new
    BY DEF IInv, TypeOK
  <1>2. view.kind = "loading"
    BY DEF IInv, Faithful
  <1>3. Faithful(new)'
    BY <1>2 DEF Faithful, Works, Wants
  <1>4. TypeOK'
    BY <1>1 DEF IInv, TypeOK
  <1> QED
    BY <1>1, <1>3, <1>4 DEF IInv, Wants

\* A failure keeps what is shown.
LEMMA FailedAnswer ==
    ASSUME IInv, NEW call \in calls, Current(call), Fail(call),
           UNCHANGED <<session, history, wanted>>
    PROVE  IInv'
  <1>1. call.gen = generation /\ call.base = ready
    BY CurrentHandler
  <1>2. history' \in {"closed", "reading", "loaded"}
    BY DEF IInv, TypeOK
  <1> QED
    BY <1>1, <1>2, EndedRequest DEF Fail, session

\* The list: it is empty, or the newest of its decisions is asked for.
LEMMA ListAnswer ==
    ASSUME IInv, NEW call \in calls, Current(call), ListAnswered(call),
           UNCHANGED <<session, history, wanted>>
    PROVE  IInv'
  <1>1. /\ call \in Handlers /\ call.gen = generation
        /\ Works(call) /\ call.base = ready
        /\ call.auth = project /\ call.project = project /\ credential = project
        /\ project \in Projects
    BY CurrentHandler
  <1>2. call.step = "list" /\ wanted = None /\ ready = None
    BY <1>1 DEF ListAnswered, Works
  <1>3. CASE view' = View("empty", None, None) /\ calls' = calls \ {call}
    <2>1. history' \in {"closed", "reading", "loaded"}
      BY DEF IInv, TypeOK
    <2> QED
      BY <1>1, <1>2, <1>3, <2>1, EndedRequest DEF ListAnswered, session
  <1>4. CASE \E recent \in SUBSET {d \in Decisions : ProjectOf[d] = call.auth} :
             \E newest \in recent :
                /\ calls' = (calls \ {call}) \cup
                      {[call EXCEPT !.step = "detail", !.auth = credential,
                                    !.recent = recent, !.selection = Opening(newest)]}
                /\ UNCHANGED view
    <2> PICK recent \in SUBSET {d \in Decisions : ProjectOf[d] = call.auth} :
             \E newest \in recent :
                /\ calls' = (calls \ {call}) \cup
                      {[call EXCEPT !.step = "detail", !.auth = credential,
                                    !.recent = recent, !.selection = Opening(newest)]}
                /\ UNCHANGED view
      BY <1>4
    <2>1. PICK newest \in recent :
                /\ calls' = (calls \ {call}) \cup
                      {[call EXCEPT !.step = "detail", !.auth = credential,
                                    !.recent = recent, !.selection = Opening(newest)]}
                /\ UNCHANGED view
      OBVIOUS
    <2>2. Opening(newest) \in Selections /\ Opening(newest).decision = newest
      BY OpeningIsASelection
    <2>3. PICK new \in Handlers :
             /\ new = [call EXCEPT !.step = "detail", !.auth = credential,
                                   !.recent = recent, !.selection = Opening(newest)]
             /\ new.step = "detail" /\ new.auth = project /\ new.selection = Opening(newest)
             /\ new.gen = call.gen /\ new.aborted = call.aborted
             /\ new.project = call.project /\ new.base = call.base
      <3>1. [call EXCEPT !.step = "detail", !.auth = credential,
                         !.recent = recent, !.selection = Opening(newest)] \in Handlers
        BY <1>1, <2>2 DEF Handlers
      <3>2. PICK new \in Handlers :
               new = [call EXCEPT !.step = "detail", !.auth = credential,
                                  !.recent = recent, !.selection = Opening(newest)]
        BY <3>1
      <3>3. /\ new.step = "detail" /\ new.auth = project /\ new.selection = Opening(newest)
            /\ new.gen = call.gen /\ new.aborted = call.aborted
            /\ new.project = call.project /\ new.base = call.base
        BY <1>1, <3>2 DEF Handlers
      <3> QED
        BY <3>2, <3>3
    <2>4. calls' = (calls \ {call}) \cup {new}
      BY <2>1, <2>3
    <2>5. UNCHANGED <<mode, credential, project, view, ready, generation, history, wanted>>
      BY <2>1 DEF ListAnswered, session
    <2>6. ~new.aborted
      BY <2>3 DEF Current
    <2>7. Works(new)
      BY <1>2, <2>2, <2>3 DEF Works, Wants
    <2> QED
      BY <1>1, <2>3, <2>4, <2>5, <2>6, <2>7, UpdatedHandler
  <1> QED
    BY <1>3, <1>4 DEF ListAnswered

\* The decision itself: its two projections are read under the vault's credential.
LEMMA DetailAnswer ==
    ASSUME IInv, NEW call \in calls, Current(call), DetailAnswered(call),
           UNCHANGED <<session, history, wanted>>
    PROVE  IInv'
  <1>1. /\ call \in Handlers /\ call.gen = generation
        /\ Works(call) /\ call.base = ready
        /\ call.auth = project /\ call.project = project /\ credential = project
        /\ project \in Projects
        /\ ready # None => Together(ready) /\ ready.project = project
    BY CurrentHandler
  <1>2. /\ call.step = "detail" /\ call.selection \in Selections /\ Wants(call.selection)
        /\ project = ProjectOf[call.selection.decision]
    BY <1>1 DEF DetailAnswered, Works
  <1>3. PICK new \in Handlers :
           /\ new = [gen |-> generation + 1, aborted |-> FALSE, step |-> "evidence",
                     auth |-> credential', project |-> call.project,
                     recent |-> call.recent, selection |-> call.selection,
                     base |-> call.base, opening |-> call.opening,
                     cases |-> Pending, dists |-> Pending]
    <2>1. generation + 1 \in Nat /\ credential' \in Projects
      BY <1>1 DEF IInv, TypeOK, session
    <2>2. /\ call.recent \in SUBSET Decisions /\ call.base \in Releases \cup {None}
          /\ call.opening \in Decisions \cup {None}
      BY <1>1 DEF Handlers
    <2> QED
      BY <1>1, <1>2, <2>1, <2>2, SentHandler
  <1>4. /\ generation' = generation + 1
        /\ calls' = Abort(calls \ {call}) \cup {new}
        /\ view' = View("loading", new.base, new.opening)
        /\ ready' = new.base
    BY <1>1, <1>3 DEF DetailAnswered, LoadEvidence, BeginRequest, Call
  <1>5. /\ new.gen = generation + 1 /\ ~new.aborted /\ new.step = "evidence"
        /\ new.auth = project' /\ new.project = project'
        /\ new.selection = call.selection /\ new.cases = Pending /\ new.dists = Pending
    BY <1>1, <1>3 DEF session
  <1>6. Works(new)'
    BY <1>2, <1>5 DEF Works, Wants, session
  <1>7. mode' \in {"fixture", "live"} /\ history' \in {"closed", "reading", "loaded"}
        /\ wanted' \in Selections \cup {None} /\ project' \in Projects
        /\ credential' = project'
    BY <1>1 DEF IInv, TypeOK, session
  <1>8. ready' # None => Together(ready') /\ ready'.project = project'
    BY <1>1, <1>4, <1>3 DEF session
  <1> QED
    BY <1>4, <1>5, <1>6, <1>7, <1>8, BegunRequest

\* The two projections: what one of them says is kept until both are settled, and
\* then either the answers are published or what was shown stays.
LEMMA EvidenceAnswer ==
    ASSUME IInv, NEW call \in calls, Current(call), EvidenceAnswered(call),
           UNCHANGED <<session, history, wanted>>
    PROVE  IInv'
  <1> DEFINE Paged == {FirstPage(call), Failed, Inconsistent}
             Read == {DistributionsOf(call), Failed, Inconsistent}
  <1>1. /\ call \in Handlers /\ call.gen = generation /\ ~call.aborted
        /\ Works(call) /\ call.base = ready
        /\ call.auth = project /\ call.project = project
        /\ project \in Projects
    BY CurrentHandler DEF Current
  <1>2. /\ call.step = "evidence" /\ call.selection \in Selections /\ Wants(call.selection)
        /\ ProjectOf[call.selection.decision] = project
        /\ call.cases \in Paged \cup {Pending} /\ call.dists \in Read \cup {Pending}
    BY <1>1 DEF EvidenceAnswered, Works
  <1>3. /\ FirstPage(call) \in CasePages /\ FirstPage(call) # None
        /\ DistributionsOf(call) \in Reads /\ DistributionsOf(call) # None
    BY <1>1, <1>2, FirstPageIsAPage DEF FirstPage, DistributionsOf
  <1>4. UNCHANGED <<mode, credential, project, history, wanted>>
    BY DEF session
  <1>5. ASSUME NEW cases \in Paged, NEW dists \in Read, Settled(call, cases, dists)
        PROVE  IInv'
    <2>1. CASE cases = Inconsistent \/ dists = Inconsistent
                  \/ (cases = Failed /\ dists = Failed)
      BY <1>5, <2>1, FailedAnswer DEF Settled
    <2>2. CASE ~(cases = Inconsistent \/ dists = Inconsistent
                    \/ (cases = Failed /\ dists = Failed))
      <3> DEFINE paged == IF cases = Failed THEN None ELSE cases
                 read == IF dists = Failed THEN None ELSE dists
      <3>1. /\ paged \in {CasePage(project, call.selection, {1}, Cursor(1)), None}
            /\ read \in {Distributions(project, call.selection.decision,
                                       call.selection.gate), None}
            /\ paged # None \/ read # None
        BY <1>1, <1>3, <2>2 DEF FirstPage, DistributionsOf
      <3>2. call.recent \in SUBSET Decisions
        BY <1>1 DEF Handlers
      <3>3. /\ ready' = Release(project, call.recent, call.selection, paged, read)
            /\ view' = View("ready", ready', None)
            /\ calls' = calls \ {call} /\ UNCHANGED generation
        BY <1>1, <1>5, <2>2 DEF Settled, Publish
      <3> HIDE DEF paged, read
      <3>4. /\ Release(project, call.recent, call.selection, paged, read) \in Releases
            /\ Together(Release(project, call.recent, call.selection, paged, read))
        BY <1>1, <1>2, <3>1, <3>2, EvidenceIsTogether
      <3>5. PICK value \in Releases :
               /\ value = Release(project, call.recent, call.selection, paged, read)
               /\ value.project = project /\ value.selection = call.selection
        BY <3>4 DEF Release
      <3> QED
        BY <1>1, <1>2, <1>4, <3>3, <3>4, <3>5, PublishedValue
    <2> QED
      BY <2>1, <2>2
  <1>6. ASSUME NEW cases \in Paged,
               calls' = (calls \ {call}) \cup {[call EXCEPT !.cases = cases]},
               UNCHANGED <<view, ready, generation>>
        PROVE  IInv'
    <2>1. PICK new \in Handlers : new = [call EXCEPT !.cases = cases]
      BY <1>1, <1>3 DEF Handlers
    <2>2. /\ new.gen = call.gen /\ new.aborted = call.aborted /\ new.step = call.step
          /\ new.auth = call.auth /\ new.project = call.project /\ new.base = call.base
          /\ new.selection = call.selection /\ new.cases = cases /\ new.dists = call.dists
      BY <1>1, <2>1 DEF Handlers
    <2>3. FirstPage(new) = FirstPage(call) /\ DistributionsOf(new) = DistributionsOf(call)
      BY <2>2 DEF FirstPage, DistributionsOf
    <2>4. Works(new)
      BY <1>2, <2>2, <2>3 DEF Works
    <2> QED
      BY <1>1, <1>4, <1>6, <2>1, <2>2, <2>4, UpdatedHandler
  <1>7. ASSUME NEW dists \in Read,
               calls' = (calls \ {call}) \cup {[call EXCEPT !.dists = dists]},
               UNCHANGED <<view, ready, generation>>
        PROVE  IInv'
    <2>1. PICK new \in Handlers : new = [call EXCEPT !.dists = dists]
      BY <1>1, <1>3 DEF Handlers
    <2>2. /\ new.gen = call.gen /\ new.aborted = call.aborted /\ new.step = call.step
          /\ new.auth = call.auth /\ new.project = call.project /\ new.base = call.base
          /\ new.selection = call.selection /\ new.cases = call.cases /\ new.dists = dists
      BY <1>1, <2>1 DEF Handlers
    <2>3. FirstPage(new) = FirstPage(call) /\ DistributionsOf(new) = DistributionsOf(call)
      BY <2>2 DEF FirstPage, DistributionsOf
    <2>4. Works(new)
      BY <1>2, <2>2, <2>3 DEF Works
    <2> QED
      BY <1>1, <1>4, <1>7, <2>1, <2>2, <2>4, UpdatedHandler
  <1>8. \/ \E cases \in Paged :
             /\ call.cases = Pending
             /\ IF call.dists = Pending
                THEN /\ calls' = (calls \ {call}) \cup {[call EXCEPT !.cases = cases]}
                     /\ UNCHANGED <<view, ready, generation>>
                ELSE Settled(call, cases, call.dists)
        \/ \E dists \in Read :
             /\ call.dists = Pending
             /\ IF call.cases = Pending
                THEN /\ calls' = (calls \ {call}) \cup {[call EXCEPT !.dists = dists]}
                     /\ UNCHANGED <<view, ready, generation>>
                ELSE Settled(call, call.cases, dists)
    BY DEF EvidenceAnswered
  <1>9. CASE \E cases \in Paged :
             /\ call.cases = Pending
             /\ IF call.dists = Pending
                THEN /\ calls' = (calls \ {call}) \cup {[call EXCEPT !.cases = cases]}
                     /\ UNCHANGED <<view, ready, generation>>
                ELSE Settled(call, cases, call.dists)
    <2> PICK cases \in Paged :
             IF call.dists = Pending
             THEN /\ calls' = (calls \ {call}) \cup {[call EXCEPT !.cases = cases]}
                  /\ UNCHANGED <<view, ready, generation>>
             ELSE Settled(call, cases, call.dists)
      BY <1>9
    <2>1. CASE call.dists = Pending
      BY <1>6, <2>1
    <2>2. CASE call.dists # Pending
      <3>1. call.dists \in Read /\ Settled(call, cases, call.dists)
        BY <1>2, <2>2
      <3> QED
        BY <1>5, <3>1
    <2> QED
      BY <2>1, <2>2
  <1>10. CASE \E dists \in Read :
             /\ call.dists = Pending
             /\ IF call.cases = Pending
                THEN /\ calls' = (calls \ {call}) \cup {[call EXCEPT !.dists = dists]}
                     /\ UNCHANGED <<view, ready, generation>>
                ELSE Settled(call, call.cases, dists)
    <2> PICK dists \in Read :
             IF call.cases = Pending
             THEN /\ calls' = (calls \ {call}) \cup {[call EXCEPT !.dists = dists]}
                  /\ UNCHANGED <<view, ready, generation>>
             ELSE Settled(call, call.cases, dists)
      BY <1>10
    <2>1. CASE call.cases = Pending
      BY <1>7, <2>1
    <2>2. CASE call.cases # Pending
      <3>1. call.cases \in Paged /\ Settled(call, call.cases, dists)
        BY <1>2, <2>2
      <3> QED
        BY <1>5, <3>1
    <2> QED
      BY <2>1, <2>2
  <1> QED
    BY <1>8, <1>9, <1>10

\* What the invariant says of a handler that replaces one projection.
LEMMA ReloadedProjection ==
    ASSUME IInv, NEW call \in calls, Current(call),
           call.step \in {"cases", "distributions", "more"}
    PROVE  /\ call.gen = generation /\ call.base = ready
           /\ call.auth = project /\ call.project = project /\ project \in Projects
           /\ ready \in Releases /\ Together(ready) /\ ready.project = project
           /\ call.selection \in Selections /\ Wants(call.selection)
           /\ call.selection.decision = ready.selection.decision
           /\ call.selection.gate = ready.selection.gate
           /\ call.step # "cases" => call.selection = ready.selection
  <1>1. Works(call)
    BY CurrentHandler
  <1>2. /\ ready # None
        /\ call.selection \in Selections /\ Wants(call.selection)
        /\ call.selection.decision = ready.selection.decision
        /\ call.selection.gate = ready.selection.gate
        /\ call.step # "cases" => call.selection = ready.selection
    BY <1>1 DEF Works
  <1> QED
    BY <1>2, CurrentHandler

\* The case page: it replaces the one shown, or is withdrawn.
LEMMA CasesAnswer ==
    ASSUME IInv, NEW call \in calls, Current(call), CasesAnswered(call),
           UNCHANGED <<session, history, wanted>>
    PROVE  IInv'
  <1>1. /\ call.gen = generation /\ call.base = ready
        /\ call.auth = project /\ call.project = project /\ project \in Projects
        /\ ready \in Releases /\ Together(ready) /\ ready.project = project
        /\ call.selection \in Selections /\ Wants(call.selection)
        /\ call.selection.decision = ready.selection.decision
        /\ call.selection.gate = ready.selection.gate
    BY ReloadedProjection DEF CasesAnswered
  <1>2. UNCHANGED <<mode, credential, project, history, wanted>>
    BY DEF session
  <1>4. ASSUME NEW cases \in {CasePage(project, call.selection, {1}, Cursor(1)), None},
               cases # None \/ ready.dists # None,
               ready' = [ready EXCEPT !.selection = call.selection, !.cases = cases],
               view' = View("ready", ready', None),
               calls' = calls \ {call}, UNCHANGED generation
        PROVE  IInv'
    <2>1. /\ ready' \in Releases
          /\ ready'.project = ready.project /\ ready'.selection = call.selection
          /\ ready'.cases = cases /\ ready'.dists = ready.dists
      <3>1. cases \in CasePages \cup {None}
        BY <1>1, FirstPageIsAPage
      <3>2. ASSUME NEW base \in Releases, NEW sel \in Selections
            PROVE  LET new == [base EXCEPT !.selection = sel, !.cases = cases]
                   IN  /\ new \in Releases
                       /\ new.project = base.project /\ new.selection = sel
                       /\ new.cases = cases /\ new.dists = base.dists
        BY <3>1 DEF Releases
      <3> QED
        BY <1>1, <1>4, <3>2
    <2>2. PICK value \in Releases : value = ready'
      BY <2>1
    <2>3. /\ value.selection.decision = ready.selection.decision
          /\ value.selection.gate = ready.selection.gate
          /\ value.cases \in {CasePage(value.project, value.selection, {1}, Cursor(1)), None}
          /\ value.project = ready.project /\ value.dists = ready.dists
          /\ value.cases # None \/ ready.dists # None
      BY <1>1, <1>4, <2>1, <2>2
    <2>4. Together(value)
      BY <1>1, <2>3, CasesAreTogether
    <2>5. value.project = project /\ Wants(value.selection)
      BY <1>1, <2>1, <2>2
    <2> QED
      BY <1>1, <1>2, <1>4, <2>2, <2>4, <2>5, PublishedValue
  <1>5. CASE Publish(call, [call.base EXCEPT !.selection = call.selection,
                                             !.cases = FirstPage(call)])
    <2>1. /\ FirstPage(call) = CasePage(project, call.selection, {1}, Cursor(1))
          /\ FirstPage(call) # None
      BY <1>1, FirstPageIsAPage DEF FirstPage
    <2> QED
      BY <1>1, <1>4, <1>5, <2>1 DEF Publish
  <1>6. CASE call.base.dists = None /\ Fail(call)
    BY <1>6, FailedAnswer
  <1>7. CASE /\ call.base.dists # None
             /\ Publish(call, [call.base EXCEPT !.selection = call.selection,
                                                !.cases = None])
    BY <1>1, <1>4, <1>7 DEF Publish
  <1> QED
    BY <1>5, <1>6, <1>7 DEF CasesAnswered

\* The distributions: they replace the ones shown, or are withdrawn when there are
\* cases.
LEMMA DistributionsAnswer ==
    ASSUME IInv, NEW call \in calls, Current(call), DistributionsAnswered(call),
           UNCHANGED <<session, history, wanted>>
    PROVE  IInv'
  <1>1. /\ call.gen = generation /\ call.base = ready
        /\ call.auth = project /\ call.project = project /\ project \in Projects
        /\ ready \in Releases /\ Together(ready) /\ ready.project = project
        /\ Wants(call.selection) /\ call.selection = ready.selection
    BY ReloadedProjection DEF DistributionsAnswered
  <1>2. UNCHANGED <<mode, credential, project, history, wanted>>
    BY DEF session
  <1>3. ASSUME NEW dists \in {Distributions(project, ready.selection.decision,
                                            ready.selection.gate), ready.dists, None},
               dists # None \/ ready.cases # None \/ ready.dists = dists,
               ready' = [ready EXCEPT !.dists = dists],
               view' = View("ready", ready', None),
               calls' = calls \ {call}, UNCHANGED generation
        PROVE  IInv'
    <2>1. PICK value \in Releases :
             /\ value = [ready EXCEPT !.dists = dists]
             /\ Together(value) /\ value.project = project
             /\ value.selection = call.selection
      <3>1. /\ [ready EXCEPT !.dists = dists] \in Releases
            /\ Together([ready EXCEPT !.dists = dists])
            /\ [ready EXCEPT !.dists = dists].project = ready.project
            /\ [ready EXCEPT !.dists = dists].selection = ready.selection
        <4>1. dists \in {Distributions(ready.project, ready.selection.decision,
                                       ready.selection.gate), ready.dists, None}
          BY <1>1, <1>3
        <4>2. dists # None \/ ready.cases # None \/ ready.dists = dists
          BY <1>3
        <4> QED
          BY <1>1, <4>1, <4>2, DistributionsAreTogether
      <3> QED
        BY <1>1, <3>1
    <2> QED
      BY <1>1, <1>2, <1>3, <2>1, PublishedValue
  <1>4. CASE Publish(call, [call.base EXCEPT !.dists = DistributionsOf(call)])
    <2>1. /\ DistributionsOf(call)
                = Distributions(project, ready.selection.decision, ready.selection.gate)
          /\ DistributionsOf(call) # None
      <3>1. ready.selection \in Selections
        BY <1>1 DEF Releases
      <3> QED
        BY <1>1, <3>1, FirstPageIsAPage DEF DistributionsOf
    <2> QED
      BY <1>1, <1>3, <1>4, <2>1 DEF Publish
  <1>5. CASE Publish(call, [call.base EXCEPT
                              !.dists = IF call.base.cases = None THEN @ ELSE None])
    <2>1. CASE ready.cases = None
      <3>1. ready' = [ready EXCEPT !.dists = ready.dists]
        BY <1>1, <1>5, <2>1 DEF Publish
      <3> QED
        BY <1>3, <1>5, <3>1 DEF Publish
    <2>2. CASE ready.cases # None
      <3>1. ready' = [ready EXCEPT !.dists = None]
        BY <1>1, <1>5, <2>2 DEF Publish
      <3> QED
        BY <1>3, <1>5, <2>2, <3>1 DEF Publish
    <2> QED
      BY <2>1, <2>2
  <1> QED
    BY <1>4, <1>5 DEF DistributionsAnswered

\* One more page joins the ones shown.
LEMMA MoreAnswer ==
    ASSUME IInv, NEW call \in calls, Current(call), MoreAnswered(call),
           UNCHANGED <<session, history, wanted>>
    PROVE  IInv'
  <1>1. /\ call.gen = generation /\ call.base = ready
        /\ call.auth = project /\ call.project = project /\ project \in Projects
        /\ ready \in Releases /\ Together(ready) /\ ready.project = project
        /\ Wants(call.selection) /\ call.selection = ready.selection
    BY ReloadedProjection DEF MoreAnswered
  <1>2. /\ ready.cases # None /\ ready.cases.next # 0
        /\ Cardinality(ready.cases.pages) < DisplayLimit
    <2>1. Works(call)
      BY CurrentHandler
    <2> QED
      BY <2>1 DEF Works, MoreAnswered
  <1>3. UNCHANGED <<mode, credential, project, history, wanted>>
    BY DEF session
  <1>4. PICK page : page = CasePage(ready.project, ready.selection,
                                    ready.cases.pages \cup {ready.cases.next},
                                    Cursor(ready.cases.next))
    OBVIOUS
  <1>5. /\ ready' = [ready EXCEPT !.cases = page]
        /\ view' = View("ready", ready', None)
        /\ calls' = calls \ {call} /\ UNCHANGED generation
    BY <1>1, <1>4 DEF MoreAnswered, Publish
  <1>6. PICK value \in Releases :
           /\ value = [ready EXCEPT !.cases = page]
           /\ Together(value) /\ value.project = project
           /\ value.selection = call.selection
    <2>1. /\ [ready EXCEPT !.cases = page] \in Releases
          /\ Together([ready EXCEPT !.cases = page])
          /\ [ready EXCEPT !.cases = page].project = ready.project
          /\ [ready EXCEPT !.cases = page].selection = ready.selection
      BY <1>1, <1>2, <1>4, MoreIsTogether
    <2> QED
      BY <1>1, <2>1
  <1> QED
    BY <1>1, <1>3, <1>5, <1>6, PublishedValue

\* 401 or 403 to the current handler ends the session.
LEMMA DeniedAnswer ==
    ASSUME IInv, NEW call \in calls, Deny(call)
    PROVE  IInv'
  <1>1. call.gen = generation
    BY DEF Deny, HearsDenial
  <1>2. view' = View("error", ready', None)
    BY DEF Deny
  <1> QED
    BY <1>1, <1>2, EndedRequest DEF Deny

\* Every answer keeps the invariant.
LEMMA Answered ==
    ASSUME IInv, NEW call \in calls, Answer(call)
    PROVE  IInv'
  <1>1. CASE /\ Current(call)
             /\ UNCHANGED <<session, history, wanted>>
             /\ \/ ListAnswered(call)
                \/ DetailAnswered(call)
                \/ EvidenceAnswered(call)
                \/ CasesAnswered(call)
                \/ DistributionsAnswered(call)
                \/ MoreAnswered(call)
                \/ ReadFailed(call)
    <2>1. CASE ListAnswered(call)
      BY <1>1, <2>1, ListAnswer
    <2>2. CASE DetailAnswered(call)
      BY <1>1, <2>2, DetailAnswer
    <2>3. CASE EvidenceAnswered(call)
      BY <1>1, <2>3, EvidenceAnswer
    <2>4. CASE CasesAnswered(call)
      BY <1>1, <2>4, CasesAnswer
    <2>5. CASE DistributionsAnswered(call)
      BY <1>1, <2>5, DistributionsAnswer
    <2>6. CASE MoreAnswered(call)
      BY <1>1, <2>6, MoreAnswer
    <2>7. CASE ReadFailed(call)
      BY <1>1, <2>7, FailedAnswer DEF ReadFailed
    <2> QED
      BY <1>1, <2>1, <2>2, <2>3, <2>4, <2>5, <2>6, <2>7
  <1>2. CASE Deny(call)
    BY <1>2, DeniedAnswer
  <1>3. CASE Drop(call)
    <2>1. call.gen # generation \/ call.aborted
      BY <1>3 DEF Drop, Current, HearsDenial
    <2>2. history' \in {"closed", "reading", "loaded"}
      BY <1>3 DEF Drop, IInv, TypeOK
    <2> QED
      BY <1>3, <2>1, <2>2, UndisturbedSession DEF Drop
  <1> QED
    BY <1>1, <1>2, <1>3 DEF Answer

(***************************************************************************)
(* The user                                                                *)
(***************************************************************************)

\* A request the user asks for keeps the invariant: what was wanted before is
\* superseded together with the handler that read it.
LEMMA AskedRequest ==
    ASSUME IInv,
           NEW step \in {"list", "detail", "evidence", "cases", "distributions", "more"},
           NEW recent \in SUBSET Decisions, NEW sel \in Selections \cup {None},
           NEW base \in Releases \cup {None}, NEW opening \in Decisions \cup {None},
           generation' = generation + 1,
           calls' = Abort(calls) \cup
              {[gen |-> generation + 1, aborted |-> FALSE, step |-> step,
                auth |-> credential', project |-> project', recent |-> recent,
                selection |-> sel, base |-> base, opening |-> opening,
                cases |-> Pending, dists |-> Pending]},
           view' = View("loading", base, opening),
           ready' = base, wanted' = sel,
           base # None => Together(base) /\ base.project = project',
           mode' \in {"fixture", "live"},
           project' \in Projects, credential' = project',
           history' \in {"closed", "reading", "loaded"},
           step = "list" => sel = None /\ base = None,
           step # "list" => sel \in Selections,
           step \notin {"list", "detail"} =>
              base # None /\ sel.decision = base.selection.decision,
           step \in {"cases", "distributions", "more"} =>
              sel.decision = base.selection.decision /\ sel.gate = base.selection.gate,
           step \in {"distributions", "more"} => sel = base.selection,
           step = "more" =>
              /\ base.cases # None /\ base.cases.next # 0
              /\ Cardinality(base.cases.pages) < DisplayLimit
    PROVE  IInv'
  <1>1. generation + 1 \in Nat /\ credential' \in Projects
    BY DEF IInv, TypeOK
  <1>2. PICK new \in Handlers :
           new = [gen |-> generation + 1, aborted |-> FALSE, step |-> step,
                  auth |-> credential', project |-> project', recent |-> recent,
                  selection |-> sel, base |-> base, opening |-> opening,
                  cases |-> Pending, dists |-> Pending]
    BY <1>1, SentHandler
  <1>3. /\ new.gen = generation + 1 /\ ~new.aborted /\ new.step = step
        /\ new.auth = credential' /\ new.project = project' /\ new.selection = sel
        /\ new.base = base /\ new.opening = opening
        /\ new.cases = Pending /\ new.dists = Pending
    BY <1>2
  <1>4. calls' = Abort(calls) \cup {new}
    BY <1>2
  <1>5. wanted' \in Selections \cup {None} /\ ready' # None => Together(ready')
    OBVIOUS
  <1>6. step # "list" => Wants(sel)'
    BY LiveReleaseAssumption DEF Wants
  <1>7. step \notin {"list", "detail"} => ProjectOf[sel.decision] = project'
    BY DEF Together
  <1>8. Works(new)'
    <2>1. step # "list" => Wants(new.selection)'
      BY <1>3, <1>6 DEF Wants
    <2> QED
      BY <1>3, <1>7, <2>1 DEF Works
  <1> QED
    BY <1>3, <1>4, <1>8, BegunRequest

\* The form is submitted: the vault and the page name the project of the credential
\* before the list is asked for.
LEMMA SubmitCredentialStep ==
    ASSUME IInv, NEW p \in Projects, SubmitCredential(p)
    PROVE  IInv'
  <1>1. /\ generation' = generation + 1
        /\ calls' = Abort(calls) \cup
              {[gen |-> generation + 1, aborted |-> FALSE, step |-> "list",
                auth |-> credential', project |-> project', recent |-> {},
                selection |-> None, base |-> None, opening |-> None,
                cases |-> Pending, dists |-> Pending]}
        /\ view' = View("loading", None, None) /\ ready' = None /\ wanted' = None
    BY DEF SubmitCredential, Connects, BeginRequest, Call
  <1>2. /\ mode' \in {"fixture", "live"} /\ project' \in Projects /\ credential' = project'
        /\ history' \in {"closed", "reading", "loaded"}
    BY DEF SubmitCredential, IInv, TypeOK
  <1> QED
    BY <1>1, <1>2, AskedRequest

\* The list is asked for again.
LEMMA ReconnectStep ==
    ASSUME IInv, Reconnect
    PROVE  IInv'
  <1>1. UNCHANGED <<mode, credential, project, history>>
    BY DEF Reconnect, Asks, session
  <1>2. /\ mode' \in {"fixture", "live"} /\ project' \in Projects /\ credential' = project'
        /\ history' \in {"closed", "reading", "loaded"}
    BY <1>1 DEF Reconnect, IInv, TypeOK
  <1>3. /\ generation' = generation + 1
        /\ calls' = Abort(calls) \cup
              {[gen |-> generation + 1, aborted |-> FALSE, step |-> "list",
                auth |-> credential', project |-> project', recent |-> {},
                selection |-> None, base |-> None, opening |-> None,
                cases |-> Pending, dists |-> Pending]}
        /\ view' = View("loading", None, None) /\ ready' = None /\ wanted' = None
    BY <1>1 DEF Reconnect, Asks, Connects, BeginRequest, Call
  <1> QED
    BY <1>2, <1>3, AskedRequest

\* What is shown when the controls of the hook are rendered.
LEMMA ShownRelease ==
    ASSUME IInv, Shown
    PROVE  /\ ready \in Releases /\ ready # None /\ Together(ready)
           /\ ready.project = project /\ project \in Projects /\ credential = project
           /\ ready.recent \in SUBSET Decisions /\ ready.selection \in Selections
           /\ ready.selection.decision \in Decisions
  <1>1. ready \in Releases /\ ready # None /\ Together(ready) /\ ready.project = project
    BY DEF IInv, TypeOK, Shown
  <1>2. /\ ready.project \in Projects /\ ready.recent \in SUBSET Decisions
        /\ ready.selection \in Selections
    BY <1>1 DEF Releases
  <1> QED
    BY <1>1, <1>2 DEF IInv, Selections

\* A recent decision is selected.
LEMMA SelectDecisionStep ==
    ASSUME IInv, NEW d \in Decisions, SelectDecision(d)
    PROVE  IInv'
  <1>1. /\ ready \in Releases /\ ready # None /\ Together(ready)
        /\ ready.project = project /\ project \in Projects /\ credential = project
        /\ ready.recent \in SUBSET Decisions
    BY ShownRelease DEF SelectDecision, Idle
  <1>2. UNCHANGED <<mode, credential, project, history>>
    BY DEF SelectDecision, Asks, session
  <1>3. /\ mode' \in {"fixture", "live"} /\ project' \in Projects /\ credential' = project'
        /\ history' \in {"closed", "reading", "loaded"}
    BY <1>1, <1>2 DEF IInv, TypeOK
  <1>4. Opening(d) \in Selections
    BY OpeningIsASelection
  <1>5. PICK sel \in Selections : sel = Opening(d)
    BY <1>4
  <1>6. /\ generation' = generation + 1
        /\ calls' = Abort(calls) \cup
              {[gen |-> generation + 1, aborted |-> FALSE, step |-> "detail",
                auth |-> credential', project |-> project', recent |-> ready.recent,
                selection |-> sel, base |-> ready, opening |-> None,
                cases |-> Pending, dists |-> Pending]}
        /\ view' = View("loading", ready, None) /\ ready' = ready /\ wanted' = sel
    BY <1>1, <1>2, <1>5 DEF SelectDecision, Asks, BeginRequest, Call
  <1> QED
    BY <1>1, <1>2, <1>3, <1>6, AskedRequest

\* A decision of the history panel is opened; it is of the project of the session.
LEMMA ReviewHistoricalDecisionStep ==
    ASSUME IInv, NEW d \in Decisions, ReviewHistoricalDecision(d)
    PROVE  IInv'
  <1>1. /\ ready \in Releases \cup {None} /\ project \in Projects /\ credential = project
        /\ ready # None => Together(ready) /\ ready.project = project
    BY LiveReleaseAssumption DEF ReviewHistoricalDecision, IInv, TypeOK
  <1>2. UNCHANGED <<mode, credential, project, history>>
    BY DEF ReviewHistoricalDecision, Asks, session
  <1>3. /\ mode' \in {"fixture", "live"} /\ project' \in Projects /\ credential' = project'
        /\ history' \in {"closed", "reading", "loaded"}
    BY <1>1, <1>2 DEF IInv, TypeOK
  <1>4. PICK sel \in Selections : sel = Opening(d)
    BY OpeningIsASelection
  <1>5. PICK recent \in SUBSET Decisions :
           recent = IF ready = None THEN {} ELSE ready.recent
    BY <1>1 DEF Releases
  <1>6. /\ generation' = generation + 1
        /\ calls' = Abort(calls) \cup
              {[gen |-> generation + 1, aborted |-> FALSE, step |-> "detail",
                auth |-> credential', project |-> project', recent |-> recent,
                selection |-> sel, base |-> ready, opening |-> d,
                cases |-> Pending, dists |-> Pending]}
        /\ view' = View("loading", ready, d) /\ ready' = ready /\ wanted' = sel
    BY <1>2, <1>4, <1>5 DEF ReviewHistoricalDecision, Asks, BeginRequest, Call
  <1> QED
    BY <1>1, <1>2, <1>3, <1>6, AskedRequest

\* Another gate is selected, possibly while a request is in flight.
LEMMA SelectGateStep ==
    ASSUME IInv, NEW g, SelectGate(g)
    PROVE  IInv'
  <1>1. /\ ready \in Releases /\ ready # None /\ Together(ready)
        /\ ready.project = project /\ project \in Projects /\ credential = project
        /\ ready.recent \in SUBSET Decisions /\ ready.selection \in Selections
        /\ ready.selection.decision \in Decisions
    BY ShownRelease DEF SelectGate
  <1>2. UNCHANGED <<mode, credential, project, history>>
    BY DEF SelectGate, Asks, session
  <1>3. /\ mode' \in {"fixture", "live"} /\ project' \in Projects /\ credential' = project'
        /\ history' \in {"closed", "reading", "loaded"}
    BY <1>1, <1>2 DEF IInv, TypeOK
  <1>4. PICK sel \in Selections :
           sel = [ready.selection EXCEPT !.gate = g] /\ sel.decision = ready.selection.decision
    <2>1. g \in Gates
      BY <1>1 DEF SelectGate, Gates
    <2>2. ASSUME NEW old \in Selections
          PROVE  /\ [old EXCEPT !.gate = g] \in Selections
                 /\ [old EXCEPT !.gate = g].decision = old.decision
      BY <2>1 DEF Selections
    <2> QED
      BY <1>1, <2>2
  <1>5. /\ generation' = generation + 1
        /\ calls' = Abort(calls) \cup
              {[gen |-> generation + 1, aborted |-> FALSE, step |-> "evidence",
                auth |-> credential', project |-> project', recent |-> ready.recent,
                selection |-> sel, base |-> ready, opening |-> None,
                cases |-> Pending, dists |-> Pending]}
        /\ view' = View("loading", ready, None) /\ ready' = ready /\ wanted' = sel
    BY <1>1, <1>2, <1>4 DEF SelectGate, Asks, LoadEvidence, BeginRequest, Call
  <1>6. /\ ready \in Releases /\ ready.recent \in SUBSET Decisions /\ ready # None
        /\ Together(ready) /\ ready.project = project'
    BY <1>1, <1>2
  <1>7. sel.decision = ready.selection.decision
    BY <1>4
  <1> QED
    BY <1>3, <1>5, <1>6, <1>7, AskedRequest

\* A projection of what is shown is read again.
LEMMA ReloadStep ==
    ASSUME IInv, Idle, NEW step \in {"cases", "distributions", "more"},
           NEW sel \in Selections, Reload(step, sel),
           sel.decision = ready.selection.decision, sel.gate = ready.selection.gate,
           step \in {"distributions", "more"} => sel = ready.selection,
           step = "more" =>
              /\ ready.cases # None /\ ready.cases.next # 0
              /\ Cardinality(ready.cases.pages) < DisplayLimit
    PROVE  IInv'
  <1>1. /\ ready \in Releases /\ ready # None /\ Together(ready)
        /\ ready.project = project /\ project \in Projects /\ credential = project
        /\ ready.recent \in SUBSET Decisions /\ ready.selection \in Selections
    BY ShownRelease DEF Idle
  <1>2. UNCHANGED <<mode, credential, project, history>>
    BY DEF Reload, Asks, session
  <1>3. /\ mode' \in {"fixture", "live"} /\ project' \in Projects /\ credential' = project'
        /\ history' \in {"closed", "reading", "loaded"}
    BY <1>1, <1>2 DEF IInv, TypeOK
  <1>5. /\ generation' = generation + 1
        /\ calls' = Abort(calls) \cup
              {[gen |-> generation + 1, aborted |-> FALSE, step |-> step,
                auth |-> credential', project |-> project', recent |-> ready.recent,
                selection |-> sel, base |-> ready, opening |-> None,
                cases |-> Pending, dists |-> Pending]}
        /\ view' = View("loading", ready, None) /\ ready' = ready /\ wanted' = sel
    BY <1>1, <1>2 DEF Reload, Asks, BeginRequest, Call
  <1>6. /\ ready \in Releases /\ ready.recent \in SUBSET Decisions /\ ready # None
        /\ Together(ready) /\ ready.project = project'
    BY <1>1, <1>2
  <1>7. /\ step \in {"list", "detail", "evidence", "cases", "distributions", "more"}
        /\ step # "list" /\ step \notin {"list", "detail"}
    OBVIOUS
  <1> QED
    BY <1>3, <1>5, <1>6, <1>7, AskedRequest

\* The four controls that read one projection again.
LEMMA ReloadSteps ==
    ASSUME IInv,
           \/ \E f \in Filters : SelectCaseChange(f)
           \/ RetryCaseEvidence \/ RetryDistributionEvidence \/ LoadMoreCases
    PROVE  IInv'
  <1>1. ready.selection \in Selections /\ Idle
    BY ShownRelease DEF SelectCaseChange, RetryCaseEvidence, RetryDistributionEvidence,
                        LoadMoreCases, Idle
  <1>3. PICK shown \in Selections : shown = ready.selection
    BY <1>1
  <1>4. ASSUME NEW f \in Filters, SelectCaseChange(f)
        PROVE  IInv'
    <2>1. PICK sel \in Selections :
             /\ sel = [ready.selection EXCEPT !.filter = f]
             /\ sel.decision = ready.selection.decision
             /\ sel.gate = ready.selection.gate
      <3>1. ASSUME NEW old \in Selections
            PROVE  /\ [old EXCEPT !.filter = f] \in Selections
                   /\ [old EXCEPT !.filter = f].decision = old.decision
                   /\ [old EXCEPT !.filter = f].gate = old.gate
        BY DEF Selections
      <3> QED
        BY <1>1, <3>1
    <2>2. Reload("cases", sel)
      BY <1>4, <2>1 DEF SelectCaseChange, Reload, Asks, BeginRequest, Call
    <2> QED
      BY <1>1, <2>1, <2>2, ReloadStep
  <1>5. CASE RetryCaseEvidence
    <2>1. Reload("cases", shown)
      BY <1>3, <1>5 DEF RetryCaseEvidence, Reload, Asks, BeginRequest, Call
    <2> QED
      BY <1>1, <1>3, <2>1, ReloadStep
  <1>6. CASE RetryDistributionEvidence
    <2>1. Reload("distributions", shown)
      BY <1>3, <1>6 DEF RetryDistributionEvidence, Reload, Asks, BeginRequest, Call
    <2> QED
      BY <1>1, <1>3, <2>1, ReloadStep
  <1>7. CASE LoadMoreCases
    <2>1. /\ Reload("more", shown)
          /\ ready.cases # None /\ ready.cases.next # 0
          /\ Cardinality(ready.cases.pages) < DisplayLimit
      BY <1>3, <1>7 DEF LoadMoreCases, Reload, Asks, BeginRequest, Call
    <2> QED
      BY <1>1, <1>3, <2>1, ReloadStep
  <1> QED
    BY <1>4, <1>5, <1>6, <1>7

\* Entering and leaving live mode, and a denial in the history panel, disconnect.
LEMMA DisconnectingSteps ==
    ASSUME IInv, EnterLiveMode \/ ReturnToFixture \/ HistoryDenied
    PROVE  IInv'
  <1>1. Disconnect /\ UNCHANGED wanted
    BY DEF EnterLiveMode, ReturnToFixture, HistoryDenied
  <1>2. /\ mode' \in {"fixture", "live"} /\ credential' = project'
        /\ project' \in Projects \cup {None} /\ history' \in {"closed", "reading", "loaded"}
    BY DEF EnterLiveMode, ReturnToFixture, HistoryDenied, IInv, TypeOK
  <1> QED
    BY <1>1, <1>2, DisconnectedSession

(***************************************************************************)
(* The theorems                                                            *)
(***************************************************************************)

\* The page starts in fixture mode without a credential.
LEMMA InitialSession == Init => IInv
  <1> SUFFICES ASSUME Init PROVE IInv
    OBVIOUS
  <1>1. view \in Views /\ view.kind = "disconnected" /\ view.shown = None
    BY DEF Init, Disconnected, View, Views
  <1>2. TypeOK
    BY <1>1 DEF Init, TypeOK
  <1> QED
    BY <1>1, <1>2 DEF Init, IInv

\* Every step of the session keeps the invariant.
LEMMA InductiveSession == IInv /\ [Next]_vars => IInv'
  <1> SUFFICES ASSUME IInv, [Next]_vars PROVE IInv'
    OBVIOUS
  <1>1. CASE \E call \in calls : Answer(call)
    BY <1>1, Answered
  <1>2. CASE \E p \in Projects : SubmitCredential(p)
    BY <1>2, SubmitCredentialStep
  <1>3. CASE Reconnect
    BY <1>3, ReconnectStep
  <1>4. CASE \E d \in Decisions : SelectDecision(d) \/ ReviewHistoricalDecision(d)
    BY <1>4, SelectDecisionStep, ReviewHistoricalDecisionStep
  <1>5. CASE \E g \in UNION {GatesOf[d] : d \in Decisions} : SelectGate(g)
    BY <1>5, SelectGateStep
  <1>6. CASE \/ \E f \in Filters : SelectCaseChange(f)
             \/ RetryCaseEvidence \/ RetryDistributionEvidence \/ LoadMoreCases
    BY <1>6, ReloadSteps
  <1>7. CASE EnterLiveMode \/ ReturnToFixture \/ HistoryDenied
    BY <1>7, DisconnectingSteps
  <1>8. CASE ReadHistory \/ HistoryAnswered \/ UNCHANGED vars
    <2>1. /\ UNCHANGED <<session, view, ready, generation, calls, wanted>>
          /\ history' \in {"closed", "reading", "loaded"}
      BY <1>8 DEF ReadHistory, HistoryAnswered, vars, session, IInv, TypeOK
    <2> QED
      BY <2>1, UndisturbedSession
  <1> QED
    BY <1>1, <1>2, <1>3, <1>4, <1>5, <1>6, <1>7, <1>8 DEF Next

\* Handlers and answers come in any order, for any number of requests, projects,
\* decisions and pages: one handler at most is current, and it is faithful.
THEOREM InvariantHolds == Spec => []IInv
  BY InitialSession, InductiveSession, PTL DEF Spec

\* Whatever useLiveRelease shows was read for one decision of the project, for one of
\* its gates and one filter, and its case pages are a prefix without gaps.
THEOREM ScreenIsConsistent == Spec => []EvidenceBelongsTogether
  <1>1. IInv => EvidenceBelongsTogether
    BY DEF IInv, EvidenceBelongsTogether
  <1> QED
    BY <1>1, InvariantHolds, PTL

\* No answer of an earlier selection wins a race: a ready view shows what the user
\* asked for last.
THEOREM LastAskedIsShown == Spec => []LastSelectionIsShown
  <1>1. IInv => LastSelectionIsShown
    BY DEF IInv, LastSelectionIsShown
  <1> QED
    BY <1>1, InvariantHolds, PTL

\* Evidence is on the screen under a credential of its own project only: clearing the
\* vault leaves nothing, and no late answer brings anything back.
THEOREM CredentialGuardsEvidence == Spec => []NoEvidenceWithoutCredential
  <1>1. IInv => NoEvidenceWithoutCredential
    BY DEF IInv, NoEvidenceWithoutCredential
  <1> QED
    BY <1>1, InvariantHolds, PTL
=============================================================================
