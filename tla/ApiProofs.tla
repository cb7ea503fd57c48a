------------------------------ MODULE ApiProofs ------------------------------
(***************************************************************************)
(* Proofs about what stands behind an endpoint of the API.  ApiBoundary:   *)
(* for every number of requests, every set of principals with any scopes,  *)
(* and every limit of a body.  History, the list operations: for any       *)
(* tables, filters, page sizes and cursors.  That a page is a prefix of    *)
(* what is left and that it has a last item are facts about finite sets in *)
(* a linear order: the predecessors of an element, ordered by inclusion,   *)
(* take the place of an induction.                                         *)
(***************************************************************************)
EXTENDS ApiBoundary, History, FiniteSetTheorems, WellFoundedInduction, TLAPS

RequestRows ==
    [pc : {"new", "authorize", "headers", "body", "route", "finish", "raise",
           "unhandled", "done"},
     path : Paths \cup {None}, method : Methods \cup {None},
     principal : Principals \cup {None}, auth : AuthOutcomes \cup {None},
     code : Codes \cup {None}, received : Nat, whole : BOOLEAN]

Responses ==
    [status : Nat, code : Codes \cup {None}, headers : SUBSET BoundaryHeaders]

\* What the invariant says of one request.
Permitted(r) ==
    \A operation \in ran[r] \ {"health"} :
        /\ request[r].principal # None
        /\ operation \in ScopesOf[request[r].principal]

Bounded(r) ==
    /\ ran[r] \cap {"write", "cancel"} # {} => request[r].whole
    /\ request[r].received <= Limit

Typed(r) ==
    /\ request[r] \in RequestRows
    /\ response[r] \in Responses \cup {None}
    /\ ran[r] \in SUBSET (Scopes \cup {"health"})

Sound(r) == Typed(r) /\ Decided(r) /\ Permitted(r) /\ Bounded(r)

\* A step is the step of one request; nothing of another one changes.
Others(r) ==
    \A q \in Requests \ {r} :
        request'[q] = request[q] /\ response'[q] = response[q] /\ ran'[q] = ran[q]

\* The variables stay functions on the requests.
Shapes ==
    /\ request' = [q \in Requests |-> request'[q]]
    /\ response' = [q \in Requests |-> response'[q]]
    /\ ran' = [q \in Requests |-> ran'[q]]

\* A step between the telemetry's two: the metrics do not change.
Serves(r) ==
    /\ request[r].pc \in {"authorize"} \cup Serving
    /\ request'[r].pc \in Serving \cup {"finish", "raise"}
    /\ UNCHANGED metrics

(***************************************************************************)
(* ApiBoundary: the steps of one request                                   *)
(***************************************************************************)

\* A response from inside of both middlewares.
LEMMA ReplyRows ==
    ASSUME TypeOK, NEW r \in Requests, NEW number \in Nat, NEW code \in Codes \cup {None},
           Reply(r, number, code)
    PROVE  /\ \A q \in Requests \ {r} : request'[q] = request[q] /\ response'[q] = response[q]
           /\ request' = [q \in Requests |-> request'[q]]
           /\ response' = [q \in Requests |-> response'[q]]
           /\ request'[r] \in RequestRows /\ response'[r] \in Responses
           /\ request'[r].pc = "finish" /\ request'[r].code = code
           /\ response'[r].code = code
           /\ request'[r].path = request[r].path /\ request'[r].method = request[r].method
           /\ request'[r].principal = request[r].principal
           /\ request'[r].auth = request[r].auth
           /\ request'[r].received = request[r].received
           /\ request'[r].whole = request[r].whole
  <1>1. request \in [Requests -> RequestRows] /\ response \in [Requests -> Responses \cup {None}]
    BY DEF TypeOK, RequestRows, Responses
  <1>2. request'[r] = [request[r] EXCEPT !.pc = "finish", !.code = code]
    BY <1>1 DEF Reply
  <1>3. /\ response'[r] = [status |-> number, code |-> code, headers |-> BoundaryHeaders]
        /\ \A q \in Requests \ {r} : request'[q] = request[q] /\ response'[q] = response[q]
        /\ request' = [q \in Requests |-> request'[q]]
        /\ response' = [q \in Requests |-> response'[q]]
    BY <1>1 DEF Reply
  <1>4. response'[r] \in Responses /\ response'[r].code = code
    BY <1>3 DEF Responses
  <1>5. ASSUME NEW old \in RequestRows
        PROVE  LET row == [old EXCEPT !.pc = "finish", !.code = code]
               IN  /\ row \in RequestRows
                   /\ row.pc = "finish" /\ row.code = code
                   /\ row.path = old.path /\ row.method = old.method
                   /\ row.principal = old.principal /\ row.auth = old.auth
                   /\ row.received = old.received /\ row.whole = old.whole
    BY DEF RequestRows
  <1>6. request[r] \in RequestRows
    BY <1>1
  <1> QED
    BY <1>2, <1>3, <1>4, <1>5, <1>6

\* A step of a request to another place.
LEMMA GotoRows ==
    ASSUME TypeOK, NEW r \in Requests,
           NEW pc \in {"headers", "body", "route", "raise", "unhandled", "done"}, Goto(r, pc)
    PROVE  /\ \A q \in Requests \ {r} : request'[q] = request[q]
           /\ response' = response
           /\ request' = [q \in Requests |-> request'[q]]
           /\ request'[r] \in RequestRows
           /\ request'[r].pc = pc /\ request'[r].code = request[r].code
           /\ request'[r].path = request[r].path /\ request'[r].method = request[r].method
           /\ request'[r].principal = request[r].principal
           /\ request'[r].auth = request[r].auth
           /\ request'[r].received = request[r].received
           /\ request'[r].whole = request[r].whole
  <1>1. request \in [Requests -> RequestRows]
    BY DEF TypeOK, RequestRows
  <1>2. /\ request'[r] = [request[r] EXCEPT !.pc = pc]
        /\ \A q \in Requests \ {r} : request'[q] = request[q]
        /\ request' = [q \in Requests |-> request'[q]]
        /\ response' = response
    BY <1>1 DEF Goto
  <1>3. ASSUME NEW old \in RequestRows
        PROVE  LET row == [old EXCEPT !.pc = pc]
               IN  /\ row \in RequestRows
                   /\ row.pc = pc /\ row.code = old.code
                   /\ row.path = old.path /\ row.method = old.method
                   /\ row.principal = old.principal /\ row.auth = old.auth
                   /\ row.received = old.received /\ row.whole = old.whole
    BY DEF RequestRows
  <1>4. request[r] \in RequestRows
    BY <1>1
  <1> QED
    BY <1>2, <1>3, <1>4

\* What a step keeps of what a request asked for and was granted.
Keeps(r) ==
    /\ request'[r].path = request[r].path /\ request'[r].method = request[r].method
    /\ request'[r].principal = request[r].principal
    /\ request'[r].auth = request[r].auth
    /\ request'[r].received = request[r].received
    /\ request'[r].whole = request[r].whole

\* A response of another kind than a refusal of the credential.
LEMMA ReplySound ==
    ASSUME TypeOK, NEW r \in Requests, Sound(r), ran' = ran, UNCHANGED metrics,
           NEW number \in Nat,
           NEW code \in (Codes \cup {None}) \ {"authentication_required", "permission_denied"},
           request[r].pc \in Serving, Reply(r, number, code)
    PROVE  Others(r) /\ Shapes /\ Sound(r)' /\ Serves(r)
  <1>1. /\ Others(r) /\ Shapes /\ Keeps(r) /\ Typed(r)' /\ Serves(r)
        /\ request'[r].pc = "finish" /\ request'[r].code = code /\ response'[r].code = code
    BY ReplyRows DEF Others, Shapes, Keeps, Typed, Serves, Sound, TypeOK
  <1>2. Permitted(r)' /\ Bounded(r)'
    BY <1>1 DEF Keeps, Sound, Permitted, Bounded
  <1>3. request[r].auth \in {"allowed", None}
    BY DEF Sound, Decided, Cleared, Serving
  <1>4. None \notin AuthOutcomes
    BY ApiBoundaryAssumption
  <1>5. Decided(r)'
    BY <1>1, <1>3, <1>4 DEF Sound, Decided, Keeps, Serving, AuthOutcomes
  <1> QED
    BY <1>1, <1>2, <1>5 DEF Sound

\* A step to another place before the end.
LEMMA GotoSound ==
    ASSUME TypeOK, NEW r \in Requests, Sound(r), ran' = ran, UNCHANGED metrics,
           request[r].pc \in {"authorize"} \cup Serving,
           NEW pc \in Serving, Goto(r, pc),
           request[r].pc = "authorize" => Cleared(r),
           pc = "route" /\ request[r].method = "POST" => request[r].whole
    PROVE  Others(r) /\ Shapes /\ Sound(r)' /\ Serves(r)
  <1>1. /\ Others(r) /\ Shapes /\ Keeps(r) /\ Typed(r)' /\ Serves(r)
        /\ request'[r].pc = pc
    BY GotoRows DEF Others, Shapes, Keeps, Typed, Serves, Sound, TypeOK, Serving
  <1>2. Permitted(r)' /\ Bounded(r)'
    BY <1>1 DEF Keeps, Sound, Permitted, Bounded
  <1>3. Cleared(r)
    BY DEF Sound, Decided
  <1>4. Cleared(r)'
    BY <1>1, <1>3 DEF Cleared, Keeps
  <1>5. Decided(r)'
    BY <1>1, <1>4 DEF Sound, Decided, Keeps, Serving
  <1> QED
    BY <1>1, <1>2, <1>5 DEF Sound

(***************************************************************************)
(* ApiBoundary: its actions                                                *)
(***************************************************************************)

\* A request arrives.
LEMMA ArriveSound ==
    ASSUME TypeOK, NEW r \in Requests, Sound(r), NEW path \in Paths, NEW method \in Methods,
           Arrive(r, path, method)
    PROVE  Others(r) /\ Shapes /\ Sound(r)' /\ request'[r].pc = "authorize"
  <1>1. request \in [Requests -> RequestRows]
    BY DEF TypeOK, RequestRows
  <1>2. request[r] \in RequestRows
    BY <1>1
  <1>3. /\ request'[r] = [request[r] EXCEPT !.pc = "authorize", !.path = path, !.method = method]
        /\ Others(r) /\ Shapes /\ response' = response /\ ran' = ran /\ request[r].pc = "new"
    BY <1>1 DEF Arrive, Others, Shapes, TypeOK
  <1>4. ASSUME NEW old \in RequestRows
        PROVE  LET row == [old EXCEPT !.pc = "authorize", !.path = path, !.method = method]
               IN  /\ row \in RequestRows
                   /\ row.pc = "authorize" /\ row.path = path /\ row.method = method
                   /\ row.principal = old.principal /\ row.auth = old.auth
                   /\ row.received = old.received /\ row.whole = old.whole
    BY DEF RequestRows
  <1>5. /\ request'[r] \in RequestRows
        /\ request'[r].pc = "authorize" /\ request'[r].path = path /\ request'[r].method = method
        /\ request'[r].principal = request[r].principal /\ request'[r].auth = request[r].auth
        /\ request'[r].received = request[r].received /\ request'[r].whole = request[r].whole
    BY <1>3, <1>4, <1>2
  <1>6. Typed(r)' /\ Permitted(r)' /\ Bounded(r)'
    BY <1>3, <1>5 DEF Sound, Typed, Permitted, Bounded
  <1>7. Decided(r)'
    BY <1>3, <1>5 DEF Sound, Decided, Serving
  <1> QED
    BY <1>3, <1>5, <1>6, <1>7 DEF Sound

\* authenticate and authorize: whoever passes has the scope that is required.
LEMMA AuthorizeSound ==
    ASSUME TypeOK, NEW r \in Requests, Sound(r), NEW p \in Principals \cup {None},
           NEW project \in BOOLEAN, Authorize(r, p, project)
    PROVE  Others(r) /\ Shapes /\ Sound(r)' /\ Serves(r)
  <1>1. /\ request \in [Requests -> RequestRows] /\ response \in [Requests -> Responses \cup {None}]
        /\ request[r] \in RequestRows
    BY DEF TypeOK, RequestRows, Responses
  <1>2. /\ request[r].pc = "authorize" /\ ran' = ran /\ UNCHANGED metrics
        /\ request[r].auth = None /\ request[r].principal = None /\ ran[r] = {}
    BY ApiBoundaryAssumption DEF Authorize, Sound, Decided, AuthOutcomes
  <1> DEFINE need == RequiredScope(request[r].path, request[r].method)
  <1>3. CASE need = None /\ Goto(r, Passed(r))
    <2>1. Cleared(r)
      BY <1>2, <1>3 DEF Cleared
    <2>2. Passed(r) \in Serving /\ (Passed(r) = "route" => request[r].method # "POST")
      BY DEF Passed, Serving, HasBody
    <2> QED
      BY <1>2, <1>3, <2>1, <2>2, GotoSound
  <1>4. ASSUME NEW outcome \in {"invalid", "denied"}, NEW number \in Nat,
               NEW code \in {"authentication_required", "permission_denied"},
               outcome = "invalid" <=> code = "authentication_required",
               response' = [response EXCEPT ![r] =
                  [status |-> number, code |-> code, headers |-> BoundaryHeaders]],
               request' = [request EXCEPT ![r].pc = "finish", ![r].auth = outcome,
                                          ![r].code = code]
        PROVE  Others(r) /\ Shapes /\ Sound(r)' /\ Serves(r)
    <2> DEFINE Refused(old) == [old EXCEPT !.pc = "finish", !.auth = outcome, !.code = code]
    <2>1. /\ request'[r] = Refused(request[r])
          /\ response'[r] = [status |-> number, code |-> code, headers |-> BoundaryHeaders]
          /\ Others(r) /\ Shapes
      BY <1>1, <1>2, <1>4 DEF Others, Shapes, TypeOK
    <2>2. ASSUME NEW old \in RequestRows
          PROVE  LET row == Refused(old)
                 IN  /\ row \in RequestRows
                     /\ row.pc = "finish" /\ row.auth = outcome /\ row.code = code
                     /\ row.path = old.path /\ row.method = old.method
                     /\ row.principal = old.principal
                     /\ row.received = old.received /\ row.whole = old.whole
      BY DEF RequestRows, AuthOutcomes, Codes
    <2> HIDE DEF Refused
    <2>3. /\ request'[r] \in RequestRows
          /\ request'[r].pc = "finish" /\ request'[r].auth = outcome /\ request'[r].code = code
          /\ request'[r].path = request[r].path /\ request'[r].method = request[r].method
          /\ request'[r].principal = request[r].principal
          /\ request'[r].received = request[r].received /\ request'[r].whole = request[r].whole
      BY ONLY <1>1, <2>1, <2>2
    <2>4. response'[r] \in Responses /\ response'[r].code = code
      BY <2>1 DEF Responses, Codes
    <2>5. Typed(r)' /\ Permitted(r)' /\ Bounded(r)' /\ Serves(r)
      BY <1>2, <2>3, <2>4 DEF Sound, Typed, Permitted, Bounded, Serves
    <2>6. Decided(r)'
      BY <1>2, <1>4, <2>3, <2>4 DEF Sound, Decided, Serving
    <2> QED
      BY <2>1, <2>5, <2>6 DEF Sound
  <1>5. CASE /\ need # None /\ p # None /\ need \in ScopesOf[p]
             /\ request' = [request EXCEPT ![r].pc = Passed(r), ![r].auth = "allowed",
                                           ![r].principal = p]
             /\ UNCHANGED response
    <2>1. PICK pc \in Serving :
             pc = Passed(r) /\ (pc = "route" => request[r].method # "POST")
      BY DEF Passed, Serving, HasBody
    <2> DEFINE Admitted(old) == [old EXCEPT !.pc = pc, !.auth = "allowed", !.principal = p]
    <2>2. /\ request'[r] = Admitted(request[r])
          /\ Others(r) /\ Shapes
      BY <1>1, <1>2, <1>5, <2>1 DEF Others, Shapes, TypeOK
    <2>3. ASSUME NEW old \in RequestRows
          PROVE  LET row == Admitted(old)
                 IN  /\ row \in RequestRows
                     /\ row.pc = pc /\ row.auth = "allowed" /\ row.principal = p
                     /\ row.path = old.path /\ row.method = old.method
                     /\ row.received = old.received /\ row.whole = old.whole
      BY DEF RequestRows, AuthOutcomes, Serving
    <2> HIDE DEF Admitted
    <2>4. /\ request'[r] \in RequestRows
          /\ request'[r].pc = pc /\ request'[r].auth = "allowed"
          /\ request'[r].principal = p
          /\ request'[r].path = request[r].path /\ request'[r].method = request[r].method
          /\ request'[r].received = request[r].received /\ request'[r].whole = request[r].whole
      BY ONLY <1>1, <2>2, <2>3
    <2>5. Typed(r)' /\ Permitted(r)' /\ Bounded(r)' /\ Serves(r)
      BY <1>2, <1>5, <2>1, <2>4 DEF Sound, Typed, Permitted, Bounded, Serves
    <2>6. Cleared(r)'
      BY <1>5, <2>4 DEF Cleared
    <2>7. Decided(r)'
      BY <1>2, <1>5, <2>1, <2>4, <2>6 DEF Sound, Decided, Serving
    <2> QED
      BY <2>2, <2>5, <2>7 DEF Sound
  <1>6. \/ need = None /\ Goto(r, Passed(r))
        \/ /\ need # None /\ p # None /\ need \in ScopesOf[p]
           /\ request' = [request EXCEPT ![r].pc = Passed(r), ![r].auth = "allowed",
                                         ![r].principal = p]
           /\ UNCHANGED response
        \/ /\ response' = [response EXCEPT ![r] =
                 [status |-> 401, code |-> "authentication_required",
                  headers |-> BoundaryHeaders]]
           /\ request' = [request EXCEPT ![r].pc = "finish", ![r].auth = "invalid",
                                         ![r].code = "authentication_required"]
        \/ /\ response' = [response EXCEPT ![r] =
                 [status |-> 403, code |-> "permission_denied", headers |-> BoundaryHeaders]]
           /\ request' = [request EXCEPT ![r].pc = "finish", ![r].auth = "denied",
                                         ![r].code = "permission_denied"]
    BY DEF Authorize
  <1>7. CASE /\ response' = [response EXCEPT ![r] =
                   [status |-> 401, code |-> "authentication_required",
                    headers |-> BoundaryHeaders]]
             /\ request' = [request EXCEPT ![r].pc = "finish", ![r].auth = "invalid",
                                           ![r].code = "authentication_required"]
    <2>1. /\ "invalid" \in {"invalid", "denied"} /\ 401 \in Nat
          /\ "authentication_required" \in {"authentication_required", "permission_denied"}
          /\ "invalid" = "invalid" <=> "authentication_required" = "authentication_required"
      OBVIOUS
    <2> QED
      BY ONLY <1>4, <1>7, <2>1, Zenon
  <1>8. CASE /\ response' = [response EXCEPT ![r] =
                   [status |-> 403, code |-> "permission_denied",
                    headers |-> BoundaryHeaders]]
             /\ request' = [request EXCEPT ![r].pc = "finish", ![r].auth = "denied",
                                           ![r].code = "permission_denied"]
    <2>1. /\ "denied" \in {"invalid", "denied"} /\ 403 \in Nat
          /\ "permission_denied" \in {"authentication_required", "permission_denied"}
          /\ "denied" = "invalid" <=> "permission_denied" = "authentication_required"
      OBVIOUS
    <2> QED
      BY ONLY <1>4, <1>8, <2>1, Zenon
  <1> QED
    BY <1>3, <1>5, <1>6, <1>7, <1>8

\* The checks of the headers that announce a body.
LEMMA CheckHeadersSound ==
    ASSUME TypeOK, NEW r \in Requests, Sound(r), CheckHeaders(r)
    PROVE  Others(r) /\ Shapes /\ Sound(r)' /\ Serves(r)
  <1>1. request[r].pc \in Serving /\ ran' = ran /\ UNCHANGED metrics
    BY DEF CheckHeaders, Serving
  <1>2. CASE Goto(r, "body")
    BY <1>1, <1>2, GotoSound DEF CheckHeaders, Serving
  <1>3. ASSUME NEW number \in {400, 413, 415},
               NEW code \in {"invalid_request", "request_body_too_large",
                             "unsupported_content_encoding", "unsupported_media_type"},
               Reply(r, number, code)
        PROVE  Others(r) /\ Shapes /\ Sound(r)' /\ Serves(r)
    BY <1>1, <1>3, ReplySound DEF Codes
  <1> QED
    BY <1>2, <1>3 DEF CheckHeaders

\* A piece of the body.
LEMMA ReceiveSound ==
    ASSUME TypeOK, NEW r \in Requests, Sound(r), NEW size \in Nat, NEW more \in BOOLEAN,
           Receive(r, size, more)
    PROVE  Others(r) /\ Shapes /\ Sound(r)' /\ Serves(r)
  <1>1. /\ request[r].pc \in Serving /\ request[r].pc = "body"
        /\ ran' = ran /\ UNCHANGED metrics
    BY DEF Receive, Serving
  <1>2. /\ request \in [Requests -> RequestRows] /\ response \in [Requests -> Responses \cup {None}]
        /\ request[r].received \in Nat /\ request[r].whole \in BOOLEAN
    BY DEF TypeOK, RequestRows, Responses
  <1>3. request[r] \in RequestRows
    BY <1>2
  <1>4. ASSUME NEW number \in {413, 400}, NEW code \in {"request_body_too_large", "invalid_json"},
               Reply(r, number, code)
        PROVE  Others(r) /\ Shapes /\ Sound(r)' /\ Serves(r)
    BY <1>1, <1>4, ReplySound DEF Codes
  <1>5. ASSUME \A q \in Requests \ {r} : request'[q] = request[q],
               request' = [q \in Requests |-> request'[q]],
               response' = response,
               request'[r] \in RequestRows, request'[r].pc \in {"body", "route"},
               request'[r].received <= Limit,
               request'[r].pc = "route" => request'[r].whole,
               request'[r].path = request[r].path, request'[r].method = request[r].method,
               request'[r].principal = request[r].principal,
               request'[r].auth = request[r].auth
        PROVE  Others(r) /\ Shapes /\ Sound(r)' /\ Serves(r)
    <2>1. Others(r) /\ Shapes
      BY <1>1, <1>2, <1>5 DEF Others, Shapes, TypeOK
    <2>2. Typed(r)' /\ Serves(r)
      BY <1>1, <1>5 DEF Sound, Typed, Serves, Serving
    <2>3. ran[r] = {}
      BY <1>1 DEF Sound, Decided
    <2>4. Permitted(r)' /\ Bounded(r)'
      BY <1>1, <1>5, <2>3 DEF Permitted, Bounded
    <2>5. Cleared(r)'
      BY <1>1, <1>5 DEF Sound, Decided, Cleared
    <2>6. Decided(r)'
      BY <1>1, <1>5, <2>3, <2>5 DEF Sound, Decided, Serving
    <2> QED
      BY <2>1, <2>2, <2>4, <2>6 DEF Sound
  <1>6. PICK received \in Nat : received = request[r].received + size
    BY <1>2
  <1>7. CASE /\ received <= Limit
             /\ request' = [request EXCEPT ![r].received = received]
             /\ UNCHANGED response
    <2> DEFINE Kept(old) == [old EXCEPT !.received = received]
    <2>1. ASSUME NEW old \in RequestRows
          PROVE  LET row == Kept(old)
                 IN  /\ row \in RequestRows /\ row.received = received /\ row.pc = old.pc
                     /\ row.path = old.path /\ row.method = old.method
                     /\ row.principal = old.principal /\ row.auth = old.auth
      BY DEF RequestRows
    <2>2. request'[r] = Kept(request[r])
      BY <1>2, <1>7
    <2> HIDE DEF Kept
    <2>3. /\ request'[r] \in RequestRows /\ request'[r].received = received
          /\ request'[r].pc = "body"
          /\ request'[r].path = request[r].path /\ request'[r].method = request[r].method
          /\ request'[r].principal = request[r].principal
          /\ request'[r].auth = request[r].auth
      BY ONLY <1>1, <1>3, <2>1, <2>2
    <2>4. /\ \A q \in Requests \ {r} : request'[q] = request[q]
          /\ request' = [q \in Requests |-> request'[q]]
      BY <1>2, <1>7
    <2> QED
      BY <1>5, <1>7, <2>3, <2>4
  <1>8. CASE /\ received <= Limit
             /\ request' = [request EXCEPT ![r].received = received,
                                           ![r].whole = TRUE, ![r].pc = "route"]
             /\ UNCHANGED response
    <2> DEFINE Kept(old) == [old EXCEPT !.received = received, !.whole = TRUE, !.pc = "route"]
    <2>1. ASSUME NEW old \in RequestRows
          PROVE  LET row == Kept(old)
                 IN  /\ row \in RequestRows /\ row.received = received
                     /\ row.pc = "route" /\ row.whole
                     /\ row.path = old.path /\ row.method = old.method
                     /\ row.principal = old.principal /\ row.auth = old.auth
      BY DEF RequestRows
    <2>2. request'[r] = Kept(request[r])
      BY <1>2, <1>8
    <2> HIDE DEF Kept
    <2>3. /\ request'[r] \in RequestRows /\ request'[r].received = received
          /\ request'[r].pc = "route" /\ request'[r].whole
          /\ request'[r].path = request[r].path /\ request'[r].method = request[r].method
          /\ request'[r].principal = request[r].principal
          /\ request'[r].auth = request[r].auth
      BY ONLY <1>1, <1>3, <2>1, <2>2
    <2>4. /\ \A q \in Requests \ {r} : request'[q] = request[q]
          /\ request' = [q \in Requests |-> request'[q]]
      BY <1>2, <1>8
    <2> QED
      BY <1>5, <1>8, <2>3, <2>4
  <1> QED
    BY <1>4, <1>6, <1>7, <1>8 DEF Receive

\* The client goes away.
LEMMA DisconnectSound ==
    ASSUME TypeOK, NEW r \in Requests, Sound(r), Disconnect(r)
    PROVE  Others(r) /\ Shapes /\ Sound(r)' /\ Serves(r)
  <1>1. /\ request[r].pc \in Serving /\ ran' = ran /\ UNCHANGED metrics
        /\ Reply(r, 400, "invalid_request")
    BY DEF Disconnect, Serving
  <1> QED
    BY <1>1, ReplySound DEF Codes

\* The router's refusals and those of the request's validation.
LEMMA RefusalSound ==
    ASSUME TypeOK, NEW r \in Requests, Sound(r), NoOperation(r) \/ Invalid(r)
    PROVE  Others(r) /\ Shapes /\ Sound(r)' /\ Serves(r)
  <1>1. /\ request[r].pc \in Serving /\ ran' = ran /\ UNCHANGED metrics
        /\ \/ Reply(r, 404, "route_not_found") \/ Reply(r, 405, "method_not_allowed")
           \/ Reply(r, 422, "invalid_request")
    BY DEF NoOperation, Invalid, Serving
  <1> QED
    BY <1>1, ReplySound DEF Codes

\* The path of an operation is one whose required scope is the operation's.
LEMMA ScopeOfOperation ==
    ASSUME NEW path \in Paths, NEW method \in Methods,
           path # "/v1/jobs/{invalid}/cancellation",
           Routed(path, method) \notin {"404", "405"}
    PROVE  /\ Routed(path, method) \in Scopes \cup {"health"}
           /\ Routed(path, method) # "health" =>
                 /\ RequiredScope(path, method) = Routed(path, method)
                 /\ RequiredScope(path, method) # None
           /\ Routed(path, method) \in {"write", "cancel"} => method = "POST"
  <1>1. /\ Scopes = {"read", "write", "cancel", "observability"} /\ None \notin Scopes
        /\ method \in {"GET", "POST", "DELETE"}
    BY ApiBoundaryAssumption DEF Scopes, Methods
  <1>2. CASE path = "/health/ready"
    BY <1>1, <1>2 DEF Routed, RequiredScope
  <1>3. CASE path = "/metrics"
    BY <1>1, <1>3 DEF Routed, RequiredScope
  <1>4. CASE path = "/v1/jobs"
    BY <1>1, <1>4 DEF Routed, RequiredScope
  <1>5. CASE path = "/v1/jobs/{job_id}/cancellation"
    BY <1>1, <1>5 DEF Routed, RequiredScope
  <1>6. CASE path = "/v1/elsewhere"
    BY <1>6 DEF Routed
  <1> QED
    BY <1>2, <1>3, <1>4, <1>5, <1>6 DEF Paths

\* The handler: what it answers, and that it runs for whom it may.
LEMMA HandleSound ==
    ASSUME TypeOK, NEW r \in Requests, Sound(r), Handle(r)
    PROVE  Others(r) /\ Shapes /\ Sound(r)' /\ Serves(r)
  <1>1. /\ request[r].pc = "route" /\ UNCHANGED metrics
        /\ Operation(r) \notin {"404", "405"} /\ ValidPath(r)
        /\ ran' = [ran EXCEPT ![r] = @ \cup {Operation(r)}]
    BY DEF Handle
  <1>2. /\ request[r].path \in Paths /\ request[r].method \in Methods
        /\ Cleared(r) /\ ran[r] = {} /\ request[r].received <= Limit
        /\ request[r].method = "POST" => request[r].whole
        /\ request[r].auth = "allowed" <=> request[r].principal # None
    BY <1>1 DEF Sound, Decided, Serving, Bounded
  <1>3. /\ Operation(r) \in Scopes \cup {"health"}
        /\ Operation(r) # "health" =>
              /\ RequiredScope(request[r].path, request[r].method) = Operation(r)
              /\ RequiredScope(request[r].path, request[r].method) # None
        /\ Operation(r) \in {"write", "cancel"} => request[r].method = "POST"
    BY <1>1, <1>2, ScopeOfOperation DEF Operation, ValidPath
  <1>4. request[r].auth \in {"allowed", None}
    BY <1>2 DEF Cleared
  <1>5. /\ ran'[r] = {Operation(r)} /\ ran' = [q \in Requests |-> ran'[q]]
        /\ \A q \in Requests \ {r} : ran'[q] = ran[q]
    BY <1>1, <1>2 DEF TypeOK
  <1>6. Operation(r) # "health" =>
            request[r].principal # None /\ Operation(r) \in ScopesOf[request[r].principal]
    BY <1>2, <1>3 DEF Cleared
  <1>7. None \notin AuthOutcomes
    BY ApiBoundaryAssumption
  <1>8. ASSUME NEW number \in Nat,
               NEW code \in (Codes \cup {None}) \ {"authentication_required", "permission_denied"},
               Reply(r, number, code)
        PROVE  Others(r) /\ Shapes /\ Sound(r)' /\ Serves(r)
    <2>1. /\ Others(r) /\ Shapes /\ Keeps(r) /\ Serves(r)
          /\ request'[r] \in RequestRows /\ response'[r] \in Responses
          /\ request'[r].pc = "finish" /\ request'[r].code = code /\ response'[r].code = code
      BY <1>1, <1>5, <1>8, ReplyRows DEF Others, Shapes, Keeps, Serves, Serving
    <2>2. Typed(r)'
      BY <1>3, <1>5, <2>1 DEF Typed
    <2>3. Permitted(r)' /\ Bounded(r)'
      BY <1>2, <1>3, <1>5, <1>6, <2>1 DEF Keeps, Permitted, Bounded
    <2>4. Decided(r)'
      BY <1>2, <1>4, <1>7, <2>1 DEF Decided, Keeps, Serving, AuthOutcomes
    <2> QED
      BY <2>1, <2>2, <2>3, <2>4 DEF Sound
  <1>9. CASE Goto(r, "raise")
    <2>1. /\ Others(r) /\ Shapes /\ Keeps(r) /\ Serves(r)
          /\ request'[r] \in RequestRows /\ response'[r] = response[r]
          /\ request'[r].pc = "raise"
      BY <1>1, <1>5, <1>9, GotoRows DEF Others, Shapes, Keeps, Serves, Serving, TypeOK
    <2>2. Typed(r)'
      BY <1>3, <1>5, <2>1 DEF Sound, Typed
    <2>3. Permitted(r)' /\ Bounded(r)'
      BY <1>2, <1>3, <1>5, <1>6, <2>1 DEF Keeps, Permitted, Bounded
    <2>4. Decided(r)'
      BY <1>2, <1>4, <1>7, <2>1 DEF Decided, Keeps, Serving, AuthOutcomes
    <2> QED
      BY <2>1, <2>2, <2>3, <2>4 DEF Sound
  <1>10. CASE Reply(r, 200, None)
    <2>1. None \in (Codes \cup {None}) \ {"authentication_required", "permission_denied"}
      BY ApiBoundaryAssumption DEF Codes
    <2> QED
      BY <1>8, <1>10, <2>1
  <1>11. CASE Reply(r, 503, "readiness_unavailable")
    BY <1>8, <1>11 DEF Codes
  <1>12. CASE \E e \in ServiceErrors : Reply(r, e[1], e[2])
    <2>1. PICK e \in ServiceErrors : Reply(r, e[1], e[2])
      BY <1>12
    <2>2. /\ e[1] \in Nat
          /\ e[2] \in (Codes \cup {None}) \ {"authentication_required", "permission_denied"}
      BY <2>1 DEF ServiceErrors, Codes
    <2> QED
      BY <1>8, <2>1, <2>2
  <1> QED
    BY <1>9, <1>10, <1>11, <1>12 DEF Handle

\* The end of the telemetry.
LEMMA FinishSound ==
    ASSUME TypeOK, NEW r \in Requests, Sound(r), Finish(r)
    PROVE  /\ Others(r) /\ Shapes /\ Sound(r)'
           /\ request'[r].pc \in {"unhandled", "done"} /\ Answered(r)' \in Codes \cup {None}
           /\ Answered(r)' = IF request[r].pc = "raise" THEN "internal_error"
                             ELSE request[r].code
           /\ request'[r].principal = request[r].principal
           /\ request'[r].auth = request[r].auth
  <1>1. PICK pc \in {"unhandled", "done"} :
          /\ pc = IF request[r].pc = "raise" THEN "unhandled" ELSE "done"
          /\ Goto(r, pc) /\ ran' = ran
    BY DEF Finish
  <1>2. request[r].pc \in {"finish", "raise"}
    BY DEF Finish
  <1>3. /\ Others(r) /\ Shapes /\ Keeps(r)
        /\ request'[r] \in RequestRows /\ response'[r] = response[r]
        /\ request'[r].pc = pc /\ request'[r].code = request[r].code
    BY <1>1, GotoRows DEF Others, Shapes, Keeps, TypeOK
  <1>4. Typed(r)' /\ Permitted(r)' /\ Bounded(r)'
    BY <1>1, <1>3 DEF Keeps, Sound, Typed, Permitted, Bounded
  <1>5. Decided(r)'
    BY <1>1, <1>2, <1>3 DEF Keeps, Sound, Decided, Serving
  <1>6. /\ Answered(r)' = IF request[r].pc = "raise" THEN "internal_error"
                          ELSE request[r].code
        /\ request[r].code \in Codes \cup {None}
    BY <1>1, <1>2, <1>3 DEF Answered, Sound, Decided, Typed, RequestRows
  <1>7. Answered(r)' \in Codes \cup {None}
    BY <1>6 DEF Codes
  <1> QED
    BY <1>1, <1>3, <1>4, <1>5, <1>6, <1>7 DEF Sound, Keeps

\* The framework's handler of an exception that passed the telemetry.
LEMMA AnswerUnhandledSound ==
    ASSUME TypeOK, NEW r \in Requests, Sound(r), AnswerUnhandled(r)
    PROVE  /\ Others(r) /\ Shapes /\ Sound(r)' /\ UNCHANGED metrics
           /\ request[r].pc = "unhandled" /\ request'[r].pc = "done"
           /\ Answered(r)' = Answered(r)
           /\ request'[r].principal = request[r].principal
  <1>1. /\ request \in [Requests -> RequestRows] /\ response \in [Requests -> Responses \cup {None}]
    BY DEF TypeOK, RequestRows, Responses
  <1>2. request[r] \in RequestRows
    BY <1>1
  <1> DEFINE Ended(old) == [old EXCEPT !.pc = "done", !.code = "internal_error"]
  <1>3. /\ request'[r] = Ended(request[r])
        /\ response'[r] = [status |-> 500, code |-> "internal_error", headers |-> {}]
        /\ ran' = ran /\ UNCHANGED metrics /\ request[r].pc = "unhandled"
        /\ Others(r)
    BY <1>1 DEF AnswerUnhandled, Others
  <1>4. Shapes
    BY <1>1 DEF AnswerUnhandled, Shapes, TypeOK
  <1>5. ASSUME NEW old \in RequestRows
        PROVE  LET row == Ended(old)
               IN  /\ row \in RequestRows /\ row.pc = "done" /\ row.code = "internal_error"
                   /\ row.path = old.path /\ row.method = old.method
                   /\ row.principal = old.principal /\ row.auth = old.auth
                   /\ row.received = old.received /\ row.whole = old.whole
    BY DEF RequestRows, Codes
  <1> HIDE DEF Ended
  <1>6. /\ request'[r] \in RequestRows
        /\ request'[r].pc = "done" /\ request'[r].code = "internal_error" /\ Keeps(r)
    BY <1>2, <1>3, <1>5 DEF Keeps
  <1>7. response'[r] \in Responses /\ response'[r].code = "internal_error"
    BY <1>3 DEF Responses, Codes
  <1>8. Typed(r)' /\ Permitted(r)' /\ Bounded(r)'
    BY <1>3, <1>6, <1>7 DEF Keeps, Sound, Typed, Permitted, Bounded
  <1>9. Decided(r)'
    BY <1>3, <1>6, <1>7 DEF Keeps, Sound, Decided, Serving
  <1>10. Answered(r)' = Answered(r)
    BY <1>3, <1>6, <1>7 DEF Answered, Keeps
  <1> QED
    BY <1>3, <1>6, <1>8, <1>9, <1>10, <1>4 DEF Sound, Keeps

(***************************************************************************)
(* ApiBoundary: counting                                                   *)
(***************************************************************************)

\* One request more in a set of requests.
LEMMA OneMore ==
    ASSUME NEW S \in SUBSET Requests, NEW r \in Requests, r \notin S
    PROVE  Cardinality(S) \in Nat /\ Cardinality(S \cup {r}) = Cardinality(S) + 1
  <1>1. IsFiniteSet(S)
    BY ApiBoundaryAssumption, FS_Subset
  <1> QED
    BY <1>1, FS_AddElement, FS_CardinalityType

\* The requests that were recorded with a property grow by the one that is recorded now,
\* if it has the property.
LEMMA CountRecorded ==
    ASSUME NEW r \in Requests, NEW S \in SUBSET Requests, NEW T \in SUBSET Requests,
           NEW hit \in BOOLEAN, r \notin S,
           \A q \in Requests \ {r} : q \in T <=> q \in S,
           r \in T <=> hit
    PROVE  Cardinality(T) = Cardinality(S) + (IF hit THEN 1 ELSE 0)
  <1>0. Cardinality(S) \in Nat
    BY OneMore
  <1>1. CASE hit
    <2>1. T = S \cup {r}
      BY <1>1
    <2> QED
      BY <1>0, <1>1, <2>1, OneMore
  <1>2. CASE ~hit
    <2>1. T = S
      BY <1>2
    <2> QED
      BY <1>0, <1>2, <2>1
  <1> QED
    BY <1>1, <1>2

\* The requests that were recorded with an answer, and those with a principal.
RecordedWith(c) == {r \in Recorded : Answered(r) = c}
RecordedFor == {r \in Recorded : request[r].principal # None}

\* A step of a request that stays between the telemetry's two, or stays recorded with what
\* it was answered.
LEMMA StaysCounted ==
    ASSUME MetricsAgree, UNCHANGED metrics, NEW r \in Requests, Others(r),
           r \in Active <=> r \in Active', r \in Recorded <=> r \in Recorded',
           r \in Recorded => /\ Answered(r)' = Answered(r)
                             /\ request'[r].principal = request[r].principal
    PROVE  MetricsAgree'
  <1>1. Active' = Active
    BY DEF Active, Others
  <1>2. Recorded' = Recorded
    BY DEF Recorded, Others
  <1>3. ASSUME NEW q \in Recorded
        PROVE  Answered(q)' = Answered(q) /\ request'[q].principal = request[q].principal
    <2>1. CASE q = r
      BY <1>3, <2>1
    <2>2. CASE q # r
      <3>1. request'[q] = request[q] /\ response'[q] = response[q]
        BY <2>2 DEF Others, Recorded
      <3> QED
        BY <3>1 DEF Answered
    <2> QED
      BY <2>1, <2>2
  <1>4. ASSUME NEW c
        PROVE  RecordedWith(c)' = RecordedWith(c)
    BY <1>2, <1>3 DEF RecordedWith
  <1>5. RecordedFor' = RecordedFor
    BY <1>2, <1>3 DEF RecordedFor
  <1> QED
    BY <1>1, <1>4, <1>5 DEF MetricsAgree, metrics, RecordedWith, RecordedFor

\* A request arrives and is in progress.
LEMMA ArriveCounted ==
    ASSUME TypeOK, MetricsAgree, NEW r \in Requests, Others(r),
           NEW path, NEW method, Arrive(r, path, method), request'[r].pc = "authorize"
    PROVE  MetricsAgree'
  <1>1. /\ request[r].pc = "new" /\ inProgress' = inProgress + 1
        /\ errors' = errors /\ decisions' = decisions
    BY DEF Arrive
  <1>2. Active' = Active \cup {r} /\ r \notin Active /\ Active \in SUBSET Requests
    BY <1>1 DEF Active, Others
  <1>3. inProgress' = Cardinality(Active')
    BY <1>1, <1>2, OneMore DEF MetricsAgree
  <1>4. Recorded' = Recorded /\ r \notin Recorded
    BY <1>1 DEF Recorded, Others
  <1>5. ASSUME NEW q \in Recorded
        PROVE  Answered(q)' = Answered(q) /\ request'[q].principal = request[q].principal
    <2>1. request'[q] = request[q] /\ response'[q] = response[q]
      BY <1>4 DEF Others, Recorded
    <2> QED
      BY <2>1 DEF Answered
  <1>6. ASSUME NEW c
        PROVE  RecordedWith(c)' = RecordedWith(c)
    BY <1>4, <1>5 DEF RecordedWith
  <1>7. RecordedFor' = RecordedFor
    BY <1>4, <1>5 DEF RecordedFor
  <1> QED
    BY <1>1, <1>3, <1>6, <1>7 DEF MetricsAgree, RecordedWith, RecordedFor

\* A request is recorded, once, with what it was answered and decided.
LEMMA FinishCounted ==
    ASSUME TypeOK, MetricsAgree, NEW r \in Requests, Sound(r), Finish(r)
    PROVE  MetricsAgree'
  <1> DEFINE label == IF request[r].pc = "raise" THEN "internal_error" ELSE request[r].code
             auth == request[r].auth
  <1>1. /\ request[r].pc \in {"finish", "raise"} /\ inProgress' = inProgress - 1
        /\ errors' = Add(errors, label) /\ decisions' = Add(decisions, auth)
    BY DEF Finish
  <1>2. /\ Others(r) /\ request'[r].pc \in {"unhandled", "done"} /\ Answered(r)' = label
        /\ request'[r].principal = request[r].principal
        /\ auth = "allowed" <=> request[r].principal # None
        /\ label = "authentication_required" <=> auth = "invalid"
        /\ label = "permission_denied" <=> auth = "denied"
    <2>1. /\ request[r].pc = "raise" => auth \notin {"invalid", "denied"}
          /\ request[r].pc = "finish" =>
                /\ request[r].code = "authentication_required" <=> auth = "invalid"
                /\ request[r].code = "permission_denied" <=> auth = "denied"
          /\ auth = "allowed" <=> request[r].principal # None
      BY DEF Sound, Decided
    <2> QED
      BY <1>1, <2>1, FinishSound
  <1>3. /\ Active = Active' \cup {r} /\ r \notin Active' /\ Active' \in SUBSET Requests
    BY <1>1, <1>2 DEF Active, Others
  <1>4. inProgress' = Cardinality(Active')
    <2>1. Cardinality(Active') \in Nat /\ Cardinality(Active) = Cardinality(Active') + 1
      BY <1>3, OneMore
    <2> QED
      BY <1>1, <2>1 DEF MetricsAgree
  <1>5. Recorded' = Recorded \cup {r} /\ r \notin Recorded /\ Recorded \in SUBSET Requests
    BY <1>1, <1>2 DEF Recorded, Others
  <1>6. ASSUME NEW q \in Requests \ {r}
        PROVE  Answered(q)' = Answered(q) /\ request'[q].principal = request[q].principal
    <2>1. request'[q] = request[q] /\ response'[q] = response[q]
      BY <1>2 DEF Others
    <2> QED
      BY <2>1 DEF Answered
  <1> HIDE DEF label, auth
  <1>7. ASSUME NEW c
        PROVE  Cardinality(RecordedWith(c)') =
                   Cardinality(RecordedWith(c)) + (IF c = label THEN 1 ELSE 0)
    <2>1. /\ RecordedWith(c) \in SUBSET Requests /\ RecordedWith(c)' \in SUBSET Requests
          /\ r \notin RecordedWith(c) /\ (r \in RecordedWith(c)' <=> c = label)
      BY <1>2, <1>5 DEF RecordedWith
    <2>2. \A q \in Requests \ {r} : q \in RecordedWith(c)' <=> q \in RecordedWith(c)
      BY <1>5, <1>6 DEF RecordedWith
    <2> QED
      BY <2>1, <2>2, CountRecorded
  <1>8. Cardinality(RecordedFor') =
            Cardinality(RecordedFor) + (IF auth = "allowed" THEN 1 ELSE 0)
    <2>1. /\ RecordedFor \in SUBSET Requests /\ RecordedFor' \in SUBSET Requests
          /\ r \notin RecordedFor /\ (r \in RecordedFor' <=> auth = "allowed")
      BY <1>2, <1>5 DEF RecordedFor
    <2>2. \A q \in Requests \ {r} : q \in RecordedFor' <=> q \in RecordedFor
      BY <1>5, <1>6 DEF RecordedFor
    <2> QED
      BY <2>1, <2>2, CountRecorded
  <1>9. /\ \A c \in Codes : errors'[c] = errors[c] + (IF c = label THEN 1 ELSE 0)
        /\ \A o \in AuthOutcomes : decisions'[o] = decisions[o] + (IF o = auth THEN 1 ELSE 0)
    BY <1>1 DEF TypeOK, Add
  <1>10. /\ \A c \in Codes : errors[c] = Cardinality(RecordedWith(c))
         /\ decisions["invalid"] = Cardinality(RecordedWith("authentication_required"))
         /\ decisions["denied"] = Cardinality(RecordedWith("permission_denied"))
         /\ decisions["allowed"] = Cardinality(RecordedFor)
    BY DEF MetricsAgree, RecordedWith, RecordedFor
  <1>11. \A c \in Codes : errors'[c] = Cardinality(RecordedWith(c)')
    BY <1>7, <1>9, <1>10
  <1>12. decisions'["invalid"] = Cardinality(RecordedWith("authentication_required")')
    BY <1>2, <1>7, <1>9, <1>10 DEF AuthOutcomes
  <1>13. decisions'["denied"] = Cardinality(RecordedWith("permission_denied")')
    BY <1>2, <1>7, <1>9, <1>10 DEF AuthOutcomes
  <1>14. decisions'["allowed"] = Cardinality(RecordedFor')
    BY <1>8, <1>9, <1>10 DEF AuthOutcomes
  <1> QED
    BY <1>4, <1>11, <1>12, <1>13, <1>14 DEF MetricsAgree, RecordedWith, RecordedFor

(***************************************************************************)
(* ApiBoundary: the theorems                                               *)
(***************************************************************************)

\* The invariant, request by request.
LEMMA SoundEverywhere ==
    IInv <=> /\ TypeOK /\ MetricsAgree
             /\ \A r \in Requests : Sound(r)
  <1>1. TypeOK => \A r \in Requests : Typed(r)
    BY DEF TypeOK, Typed, RequestRows, Responses
  <1>2. OperationsArePermitted <=> \A r \in Requests : Permitted(r)
    BY DEF OperationsArePermitted, Permitted
  <1>3. BodiesAreWhole <=> \A r \in Requests : Bounded(r)
    BY DEF BodiesAreWhole, Bounded
  <1> QED
    BY <1>1, <1>2, <1>3 DEF IInv, Sound

\* A step that is sound for its request and keeps the count is sound for all.
LEMMA StepPreserves ==
    ASSUME IInv, NEW r \in Requests, Others(r), Shapes, Sound(r)', MetricsAgree',
           errors' \in [Codes -> Nat], decisions' \in [AuthOutcomes -> Nat]
    PROVE  IInv'
  <1>1. ASSUME NEW q \in Requests
        PROVE  Sound(q)'
    <2>1. CASE q = r
      BY <2>1
    <2>2. CASE q # r
      <3>1. request'[q] = request[q] /\ response'[q] = response[q] /\ ran'[q] = ran[q]
        BY <2>2 DEF Others
      <3>2. Sound(q)
        BY SoundEverywhere
      <3> QED
        BY <3>1, <3>2 DEF Sound, Typed, Decided, Cleared, Permitted, Bounded
    <2> QED
      BY <2>1, <2>2
  <1>2. inProgress' \in Nat
    <2>1. Active' \in SUBSET Requests
      BY DEF Active
    <2>2. IsFiniteSet(Active')
      BY <2>1, ApiBoundaryAssumption, FS_Subset
    <2> QED
      BY <2>2, FS_CardinalityType DEF MetricsAgree
  <1>3. /\ request' \in [Requests -> RequestRows]
        /\ response' \in [Requests -> Responses \cup {None}]
        /\ ran' \in [Requests -> SUBSET (Scopes \cup {"health"})]
    <2>1. \A q \in Requests :
             /\ request'[q] \in RequestRows /\ response'[q] \in Responses \cup {None}
             /\ ran'[q] \in SUBSET (Scopes \cup {"health"})
      BY <1>1 DEF Sound, Typed
    <2> QED
      BY <2>1 DEF Shapes
  <1>4. TypeOK'
    BY <1>2, <1>3 DEF TypeOK, RequestRows, Responses
  <1>5. OperationsArePermitted'
    BY <1>1 DEF Sound, Permitted, OperationsArePermitted
  <1>6. BodiesAreWhole'
    BY <1>1 DEF Sound, Bounded, BodiesAreWhole
  <1> QED
    BY <1>1, <1>4, <1>5, <1>6 DEF IInv, Sound

\* Nothing has arrived at first.
LEMMA InitInvariant == Init => IInv
  <1> SUFFICES ASSUME Init
               PROVE  IInv
    OBVIOUS
  <1>1. TypeOK
    BY DEF Init, TypeOK, NewRequest
  <1>2. ASSUME NEW r \in Requests
        PROVE  Decided(r) /\ ran[r] = {} /\ request[r].received = 0 /\ request[r].pc = "new"
    <2>1. /\ request[r].pc = "new" /\ request[r].auth = None /\ request[r].principal = None
          /\ request[r].received = 0 /\ ran[r] = {}
      BY <1>2 DEF Init, NewRequest
    <2>2. None # "allowed"
      BY ApiBoundaryAssumption DEF AuthOutcomes
    <2> QED
      BY <2>1, <2>2 DEF Decided, Serving
  <1>3. OperationsArePermitted /\ BodiesAreWhole
    BY <1>2, ApiBoundaryAssumption DEF OperationsArePermitted, BodiesAreWhole
  <1>4. Active = {} /\ Recorded = {}
    BY <1>2 DEF Active, Recorded
  <1>5. ASSUME NEW c
        PROVE  RecordedWith(c) = {}
    BY <1>4 DEF RecordedWith
  <1>6. RecordedFor = {}
    BY <1>4 DEF RecordedFor
  <1>7. MetricsAgree
    BY <1>4, <1>5, <1>6, FS_EmptySet
       DEF MetricsAgree, RecordedWith, RecordedFor, Init, AuthOutcomes
  <1> QED
    BY <1>1, <1>2, <1>3, <1>7 DEF IInv

\* Every step preserves the invariant.
LEMMA NextInvariant == IInv /\ [Next]_vars => IInv'
  <1> SUFFICES ASSUME IInv, [Next]_vars
               PROVE  IInv'
    OBVIOUS
  <1>1. /\ TypeOK /\ MetricsAgree
        /\ errors \in [Codes -> Nat] /\ decisions \in [AuthOutcomes -> Nat]
    BY DEF IInv, TypeOK
  <1>2. ASSUME NEW r \in Requests, Others(r), Shapes, Sound(r)', Serves(r)
        PROVE  IInv'
    <2>1. errors' = errors /\ decisions' = decisions
      BY <1>2 DEF Serves, metrics
    <2>2. MetricsAgree'
      <3>1. r \in Active /\ r \notin Recorded
        BY <1>2 DEF Serves, Serving, Active, Recorded
      <3>2. r \in Active' /\ r \notin Recorded'
        BY <1>2 DEF Serves, Serving, Active, Recorded
      <3> QED
        BY <1>1, <1>2, <3>1, <3>2, StaysCounted DEF Serves
    <2> QED
      BY <1>1, <1>2, <2>1, <2>2, StepPreserves
  <1>3. ASSUME NEW r \in Requests, NEW path \in Paths, NEW method \in Methods,
               Arrive(r, path, method)
        PROVE  IInv'
    <2>1. Others(r) /\ Shapes /\ Sound(r)' /\ request'[r].pc = "authorize"
      BY <1>1, <1>3, ArriveSound, SoundEverywhere
    <2>2. MetricsAgree'
      BY <1>1, <1>3, <2>1, ArriveCounted
    <2> QED
      BY <1>1, <1>3, <2>1, <2>2, StepPreserves DEF Arrive
  <1>4. ASSUME NEW r \in Requests, Finish(r)
        PROVE  IInv'
    <2>1. Sound(r)
      BY SoundEverywhere
    <2>2. Others(r) /\ Shapes /\ Sound(r)'
      BY <1>1, <1>4, <2>1, FinishSound
    <2>3. MetricsAgree'
      BY <1>1, <1>4, <2>1, FinishCounted
    <2>4. errors' \in [Codes -> Nat] /\ decisions' \in [AuthOutcomes -> Nat]
      BY <1>1, <1>4 DEF Finish, Add
    <2> QED
      BY <2>2, <2>3, <2>4, StepPreserves
  <1>5. ASSUME NEW r \in Requests, AnswerUnhandled(r)
        PROVE  IInv'
    <2>1. /\ Others(r) /\ Shapes /\ Sound(r)' /\ UNCHANGED metrics
          /\ request[r].pc = "unhandled" /\ request'[r].pc = "done"
          /\ Answered(r)' = Answered(r) /\ request'[r].principal = request[r].principal
      BY <1>1, <1>5, AnswerUnhandledSound, SoundEverywhere
    <2>2. r \in Recorded /\ r \notin Active /\ r \in Recorded' /\ r \notin Active'
      BY <2>1 DEF Recorded, Active
    <2>3. MetricsAgree'
      BY <1>1, <2>1, <2>2, StaysCounted
    <2> QED
      BY <1>1, <2>1, <2>3, StepPreserves DEF metrics
  <1>6. ASSUME NEW r \in Requests, NEW p \in Principals \cup {None}, NEW project \in BOOLEAN,
               Authorize(r, p, project)
        PROVE  IInv'
    BY <1>1, <1>2, <1>6, AuthorizeSound, SoundEverywhere
  <1>7. ASSUME NEW r \in Requests, NEW size \in 0 .. MaxChunk, NEW more \in BOOLEAN,
               Receive(r, size, more)
        PROVE  IInv'
    BY <1>1, <1>2, <1>7, ReceiveSound, SoundEverywhere
  <1>8. ASSUME NEW r \in Requests,
               CheckHeaders(r) \/ Disconnect(r) \/ NoOperation(r) \/ Invalid(r) \/ Handle(r)
        PROVE  IInv'
    BY <1>1, <1>2, <1>8, CheckHeadersSound, DisconnectSound, RefusalSound, HandleSound,
       SoundEverywhere
  <1>9. CASE UNCHANGED vars
    BY <1>9 DEF vars, metrics, IInv, TypeOK, Decided, Cleared, OperationsArePermitted,
       BodiesAreWhole, MetricsAgree, Active, Recorded, Answered
  <1> QED
    BY <1>3, <1>4, <1>5, <1>6, <1>7, <1>8, <1>9 DEF Next

\* In every state of the API process, however its requests interleave, what was decided
\* about each request, where it is and what the metrics hold fit together.
THEOREM InvariantHolds == Spec => []IInv
  <1> QED
    BY InitInvariant, NextInvariant, PTL DEF Spec

\* No operation ever runs for a principal without the scope of that operation: what
\* _required_scope asks of a path it cannot know the route of is never less.
THEOREM NoUnauthorizedOperation == Spec => []OperationsArePermitted
  <1>1. IInv => OperationsArePermitted
    BY DEF IInv
  <1> QED
    BY <1>1, InvariantHolds, PTL

\* Writing handlers only ever run on whole and valid bodies, and a body longer than the
\* limit is never kept, however it is cut into pieces.
THEOREM NoPartialBody == Spec => []BodiesAreWhole
  <1>1. IInv => BodiesAreWhole
    BY DEF IInv
  <1> QED
    BY <1>1, InvariantHolds, PTL

\* The gauge and the two counters of the metrics always agree with what the clients were
\* answered: no end of a request is lost and none is counted twice.
THEOREM TelemetryAgrees == Spec => []MetricsAgree
  <1>1. IInv => MetricsAgree
    BY DEF IInv
  <1> QED
    BY <1>1, InvariantHolds, PTL

(***************************************************************************)
(* History: keys                                                           *)
(***************************************************************************)

\* The order of a query is a linear order of the keys.
LEMMA KeysAreOrdered ==
    ASSUME NEW q
    PROVE  /\ \A a \in Keys : ~Before(q, a, a)
           /\ \A a, b \in Keys : a = b \/ Before(q, a, b) \/ Before(q, b, a)
           /\ \A a, b, c \in Keys : Before(q, a, b) /\ Before(q, b, c) => Before(q, a, c)
  <1>1. ASSUME NEW a \in Keys
        PROVE  a[1] \in Nat /\ a[2] \in Nat /\ a = <<a[1], a[2]>>
    BY DEF Keys
  <1>2. \A a \in Keys : ~Before(q, a, a)
    BY <1>1 DEF Before, Precedes
  <1>3. \A a, b \in Keys : a = b \/ Before(q, a, b) \/ Before(q, b, a)
    <2> SUFFICES ASSUME NEW a \in Keys, NEW b \in Keys
                 PROVE  a = b \/ Before(q, a, b) \/ Before(q, b, a)
      OBVIOUS
    <2>1. \/ a[1] < b[1]
          \/ b[1] < a[1]
          \/ a[1] = b[1] /\ a[2] < b[2]
          \/ a[1] = b[1] /\ b[2] < a[2]
          \/ a[1] = b[1] /\ a[2] = b[2]
      BY <1>1
    <2>2. a[1] = b[1] /\ a[2] = b[2] => a = b
      BY <1>1
    <2> QED
      BY <2>1, <2>2 DEF Before, Precedes
  <1>4. \A a, b, c \in Keys : Before(q, a, b) /\ Before(q, b, c) => Before(q, a, c)
    BY <1>1 DEF Before, Precedes
  <1> QED
    BY <1>2, <1>3, <1>4

\* What a query finds is a finite set of keys.
LEMMA FoundIsFinite ==
    ASSUME NEW q, time \in [Rows -> Nat]
    PROVE  Found(q) \subseteq Keys /\ IsFiniteSet(Found(q))
  <1> DEFINE S == {row \in Rows : time[row] # 0 /\ Matches(q, row)}
             f == [r \in S |-> Key(q, r)]
  <1>1. IsFiniteSet(S)
    BY HistoryAssumption, FS_Subset
  <1>2. f \in Surjection(S, Found(q))
    BY DEF Surjection, Found
  <1>3. IsFiniteSet(Found(q))
    BY <1>1, <1>2, FS_Surjection
  <1>4. \A r \in Rows : Key(q, r) \in Keys
    BY HistoryAssumption DEF Key, Keys
  <1> QED
    BY <1>3, <1>4 DEF Found

\* A finite set of keys has a first one.
LEMMA FirstKey ==
    ASSUME NEW q, NEW T, T \subseteq Keys, IsFiniteSet(T), T # {}
    PROVE  \E k \in T : \A j \in T \ {k} : Before(q, k, j)
  <1> DEFINE Below(k) == {j \in T : Before(q, j, k)}
             W == {Below(k) : k \in T}
             R == StrictSubsetOrdering(T)
  <1>1. W \subseteq FiniteSubsetsOf(T) /\ W # {}
    <2>1. \A k \in T : Below(k) \in SUBSET T /\ IsFiniteSet(Below(k))
      BY FS_Subset
    <2> QED
      BY <2>1 DEF FiniteSubsetsOf
  <1>2. IsWellFoundedOn(R, FiniteSubsetsOf(T))
    BY FS_StrictSubsetOrderingWellFounded
  <1> HIDE DEF W, R
  <1>3. PICK m \in W : \A other \in W : <<other, m>> \notin R
    BY <1>1, <1>2, WFMin
  <1>4. PICK k \in T : m = Below(k)
    BY <1>3 DEF W
  <1>5. ASSUME NEW j \in T \ {k}, Before(q, j, k)
        PROVE  FALSE
    <2>1. Below(j) \subseteq Below(k)
      BY <1>5, KeysAreOrdered
    <2>2. j \in Below(k) /\ j \notin Below(j)
      BY <1>5, KeysAreOrdered
    <2>3. Below(j) \in W
      BY DEF W
    <2> HIDE DEF Below
    <2>4. Below(j) \in SUBSET T /\ Below(k) \in SUBSET T
      BY DEF Below
    <2>5. <<Below(j), Below(k)>> \in R
      BY <2>1, <2>2, <2>4 DEF R, StrictSubsetOrdering
    <2> QED
      BY <1>3, <1>4, <2>3, <2>5
  <1>6. \A j \in T \ {k} : Before(q, k, j)
    BY <1>5, KeysAreOrdered
  <1> QED
    BY <1>6

\* A finite set of keys has a last one: the first in the opposite order.
LEMMA LastKey ==
    ASSUME NEW q, NEW T, T \subseteq Keys, IsFiniteSet(T), T # {}
    PROVE  \E k \in T : \A j \in T \ {k} : Before(q, j, k)
  <1> DEFINE opposite == [order |-> IF q.order = "newest" THEN "oldest" ELSE "newest"]
  <1>1. \A a, b : Before(opposite, a, b) <=> Before(q, b, a)
    BY DEF Before
  <1> HIDE DEF opposite
  <1>2. \E k \in T : \A j \in T \ {k} : Before(opposite, k, j)
    BY FirstKey
  <1> QED
    BY <1>1, <1>2

\* A page is a non-empty prefix of what is left.
LEMMA PageIsPrefix ==
    ASSUME NEW q, NEW rest, rest \subseteq Keys, IsFiniteSet(rest), NEW n \in Nat \ {0}
    PROVE  /\ FirstOf(q, n, rest) \subseteq rest
           /\ \A k \in rest \ FirstOf(q, n, rest), j \in FirstOf(q, n, rest) : Before(q, j, k)
           /\ rest # {} => FirstOf(q, n, rest) # {}
  <1> DEFINE Below(k) == {j \in rest : Before(q, j, k)}
  <1>1. \A k \in rest : IsFiniteSet(Below(k)) /\ Cardinality(Below(k)) \in Nat
    BY FS_Subset, FS_CardinalityType
  <1>2. FirstOf(q, n, rest) = {k \in rest : Cardinality(Below(k)) < n}
    BY DEF FirstOf
  <1>3. ASSUME NEW k \in rest \ FirstOf(q, n, rest), NEW j \in FirstOf(q, n, rest)
        PROVE  Before(q, j, k)
    <2>1. j \in rest /\ j # k
      BY <1>2, <1>3
    <2>2. ASSUME Before(q, k, j)
          PROVE  FALSE
      <3>1. Below(k) \in SUBSET Below(j)
        BY <1>2, <2>1, <2>2, KeysAreOrdered
      <3>2. Cardinality(Below(j)) < n /\ ~(Cardinality(Below(k)) < n)
        BY <1>2, <1>3
      <3> HIDE DEF Below
      <3>3. Cardinality(Below(k)) <= Cardinality(Below(j))
        BY <1>1, <2>1, <3>1, FS_Subset
      <3> QED
        BY <1>1, <2>1, <3>2, <3>3
    <2> QED
      BY <2>1, <2>2, KeysAreOrdered
  <1>4. ASSUME rest # {}
        PROVE  FirstOf(q, n, rest) # {}
    <2>1. PICK k \in rest : \A j \in rest \ {k} : Before(q, k, j)
      BY <1>4, FirstKey
    <2>2. Below(k) = {}
      BY <2>1, KeysAreOrdered
    <2>3. Cardinality(Below(k)) = 0
      BY <2>2, FS_EmptySet
    <2> QED
      BY <1>2, <2>3
  <1> QED
    BY <1>2, <1>3, <1>4

(***************************************************************************)
(* History: its steps                                                      *)
(***************************************************************************)

\* Where a walk stands: at its beginning, or at a key behind what it returned and before
\* what it still owes.
Stands(q, key, seen, lasting) ==
    /\ seen \in SUBSET Keys /\ lasting \in SUBSET Keys /\ lasting \subseteq Found(q)
    /\ \/ key = Nothing /\ seen = {}
       \/ /\ key \in Keys
          /\ \A k \in seen : k = key \/ Before(q, k, key)
          /\ \A k \in lasting : k \in seen \/ Before(q, key, k)

\* What its next page answers is exact, and the key that it ends with is such a place.
Exact(q, page, rest, seen, lasting) ==
    /\ page \in SUBSET Keys
    /\ \A k \in page, j \in seen : Before(q, j, k)
    /\ \A k \in lasting :
          \/ k \in seen \cup page
          \/ page # rest /\ \A j \in page : Before(q, j, k)
    /\ page # rest => /\ LastOf(q, page, rest) \in Keys
                      /\ Stands(q, LastOf(q, page, rest), seen \cup page, lasting)

\* A page from such a place.
LEMMA FetchIsExact ==
    ASSUME HistoryTypes, NEW q \in Queries, NEW n \in Limits, NEW key, NEW seen, NEW lasting,
           Stands(q, key, seen, lasting)
    PROVE  Exact(q, FirstOf(q, n, After(q, key)), After(q, key), seen, lasting)
  <1> DEFINE rest == After(q, key)
             page == FirstOf(q, n, rest)
  <1>1. /\ seen \in SUBSET Keys /\ lasting \in SUBSET Keys /\ lasting \subseteq Found(q)
        /\ \/ key = Nothing /\ seen = {}
           \/ /\ key \in Keys
              /\ \A k \in seen : k = key \/ Before(q, k, key)
              /\ \A k \in lasting : k \in seen \/ Before(q, key, k)
    BY DEF Stands
  <1>2. /\ n \in Nat \ {0} /\ Nothing \notin Keys
        /\ Found(q) \subseteq Keys /\ IsFiniteSet(Found(q))
    BY HistoryAssumption, FoundIsFinite DEF HistoryTypes, Keys
  <1>3. rest \in SUBSET Found(q)
    BY DEF After
  <1>4. rest \subseteq Keys /\ IsFiniteSet(rest)
    BY <1>2, <1>3, FS_Subset
  <1>5. /\ page \subseteq rest /\ (rest # {} => page # {})
        /\ \A k \in rest \ page, j \in page : Before(q, j, k)
    BY <1>2, <1>4, PageIsPrefix
  <1> HIDE DEF rest, page
  <1>6. page \subseteq Keys /\ IsFiniteSet(page)
    BY <1>4, <1>5, FS_Subset
  <1>7. ASSUME NEW k \in page, NEW j \in seen
        PROVE  Before(q, j, k)
    <2>1. key \in Keys /\ (j = key \/ Before(q, j, key))
      BY <1>1, <1>7
    <2>2. Before(q, key, k)
      BY <1>2, <1>5, <1>7, <2>1 DEF After, rest
    <2> QED
      BY <1>1, <1>6, <2>1, <2>2, KeysAreOrdered
  <1>8. ASSUME NEW k \in lasting, k \notin seen \cup page
        PROVE  k \in rest \ page
    <2>1. k \in Found(q) /\ (key = Nothing \/ Before(q, key, k))
      BY <1>1, <1>8
    <2> QED
      BY <1>8, <2>1 DEF After, rest
  <1>9. ASSUME NEW k \in lasting
        PROVE  \/ k \in seen \cup page
               \/ page # rest /\ \A j \in page : Before(q, j, k)
    BY <1>5, <1>8
  <1>10. ASSUME page # rest, NEW last, last = LastOf(q, page, rest)
        PROVE  /\ last \in Keys
               /\ \A k \in seen \cup page : k = last \/ Before(q, k, last)
               /\ \A k \in lasting : k \in seen \cup page \/ Before(q, last, k)
    <2>1. page # {}
      BY <1>5, <1>10
    <2>2. \E k \in page : \A j \in page \ {k} : Before(q, j, k)
      BY <1>6, <2>1, LastKey
    <2>3. last = CHOOSE k \in page : \A j \in page \ {k} : Before(q, j, k)
      BY <1>10 DEF LastOf
    <2>4. last \in page /\ \A j \in page \ {last} : Before(q, j, last)
      BY <2>2, <2>3
    <2>5. \A k \in seen : Before(q, k, last)
      BY <1>7, <2>4
    <2>6. \A k \in lasting : k \in seen \cup page \/ Before(q, last, k)
      BY <1>9, <2>4
    <2> QED
      BY <1>6, <2>4, <2>5, <2>6
  <1> QED
    BY <1>1, <1>6, <1>7, <1>9, <1>10 DEF Exact, Stands, rest, page

\* A page from a cursor, or from the beginning.
LEMMA FetchPreserves ==
    ASSUME HistoryInv, NEW q \in Queries, NEW n \in Limits,
           NEW c, c = Begin(q) \/ c \in cursors, Fetch(q, c, n)
    PROVE  HistoryInv'
  <1>1. HistoryTypes /\ time' = time /\ status' = status /\ c.query = q
    BY DEF HistoryInv, Fetch, Decodes
  <1>2. Stands(q, c.key, c.seen, c.lasting)
    <2>1. CASE c = Begin(q)
      <3>1. c.key = Nothing /\ c.seen = {} /\ c.lasting = Found(q)
        BY <2>1 DEF Begin, Cursor
      <3> QED
        BY <1>1, <3>1, FoundIsFinite DEF HistoryTypes, Stands
    <2>2. CASE c \in cursors
      BY <1>1, <2>2 DEF HistoryInv, HistoryTypes, Placed, Stands
    <2> QED
      BY <2>1, <2>2
  <1> DEFINE rest == After(q, c.key)
             page == FirstOf(q, n, rest)
             last == LastOf(q, page, rest)
             next == Cursor(q, last, c.seen \cup page, c.lasting)
  <1>3. Exact(q, page, rest, c.seen, c.lasting)
    BY <1>1, <1>2, FetchIsExact
  <1>4. answer' = [query |-> q, seen |-> c.seen, lasting |-> c.lasting, page |-> page,
                   more |-> page # rest]
    BY DEF Fetch
  <1>5. cursors' = cursors \/ (page # rest /\ cursors' = cursors \cup {next})
    BY DEF Fetch
  <1> HIDE DEF rest, page
  <1>6. /\ page \in SUBSET Keys /\ c.seen \in SUBSET Keys /\ c.lasting \in SUBSET Keys
        /\ page # rest =>
              /\ last \in Keys
              /\ \A k \in c.seen \cup page : k = last \/ Before(q, k, last)
              /\ \A k \in c.lasting : k \in c.seen \cup page \/ Before(q, last, k)
              /\ c.lasting \subseteq Found(q)
    <2>1. Nothing \notin Keys
      BY HistoryAssumption DEF Keys
    <2> QED
      BY <1>2, <1>3, <2>1 DEF Exact, Stands
  <1> HIDE DEF last
  <1>7. WalksAreExact'
    BY <1>3, <1>4 DEF WalksAreExact, Exact
  <1>8. /\ next.query = q /\ next.key = last
        /\ next.seen = c.seen \cup page /\ next.lasting = c.lasting
        /\ page # rest => next \in [query : Queries, key : Keys, seen : SUBSET Keys,
                                    lasting : SUBSET Keys]
    <2>1. page # rest => last \in Keys /\ c.seen \cup page \in SUBSET Keys
      BY <1>6
    <2> QED
      BY <1>6, <2>1 DEF Cursor
  <1> HIDE DEF next
  <1>9. HistoryTypes'
    <2>1. answer' \in [query : Queries, seen : SUBSET Keys, lasting : SUBSET Keys,
                        page : SUBSET Keys, more : BOOLEAN]
      BY <1>4, <1>6
    <2>2. cursors' \subseteq [query : Queries, key : Keys, seen : SUBSET Keys,
                              lasting : SUBSET Keys]
      BY <1>1, <1>5, <1>8 DEF HistoryTypes
    <2> QED
      BY <1>1, <2>1, <2>2 DEF HistoryTypes
  <1>10. \A p : Found(p)' = Found(p)
    BY <1>1 DEF Found, Key, Matches
  <1>11. ASSUME NEW d \in cursors'
         PROVE  Placed(d)'
    <2>1. CASE d \in cursors
      BY <1>10, <2>1 DEF HistoryInv, Placed
    <2>2. CASE d \notin cursors
      <3>1. d = next /\ page # rest
        BY <1>5, <1>11, <2>2
      <3> QED
        BY <1>8, <1>10, <1>6, <3>1 DEF Placed
    <2> QED
      BY <2>1, <2>2
  <1> QED
    BY <1>7, <1>9, <1>11 DEF HistoryInv

\* A row that appears takes nothing away from what a query finds.
LEMMA InsertPreserves ==
    ASSUME HistoryInv, NEW r \in Rows, NEW t \in 1 .. MaxTime, Insert(r, t)
    PROVE  HistoryInv'
  <1>1. /\ HistoryTypes /\ time[r] = 0 /\ time' = [time EXCEPT ![r] = t]
        /\ status' = status /\ cursors' = cursors /\ answer' = answer
    BY DEF HistoryInv, Insert
  <1>2. t \in Nat
    BY HistoryAssumption
  <1>3. HistoryTypes'
    BY <1>1, <1>2 DEF HistoryTypes
  <1>4. ASSUME NEW q, NEW k \in Found(q)
        PROVE  k \in Found(q)'
    <2>1. PICK row \in Rows : time[row] # 0 /\ Matches(q, row) /\ k = Key(q, row)
      BY <1>4 DEF Found
    <2>2. time'[row] = time[row]
      BY <1>1, <2>1 DEF HistoryTypes
    <2>3. Matches(q, row)' /\ k = Key(q, row)'
      BY <1>1, <2>1, <2>2 DEF Matches, Key
    <2> QED
      BY <2>1, <2>2, <2>3 DEF Found
  <1>5. \A c \in cursors' : Placed(c)'
    BY <1>1, <1>4 DEF HistoryInv, Placed
  <1>6. WalksAreExact'
    BY <1>1 DEF HistoryInv, WalksAreExact
  <1> QED
    BY <1>3, <1>5, <1>6 DEF HistoryInv

\* Only what is listed as open can leave a walk when a job ends.
LEMMA OpenIsOldest ==
    ASSUME NEW q \in Queries, q.filter = Open
    PROVE  q.order = "oldest"
  <1>1. Open \notin {All} \cup Labels
    BY HistoryAssumption
  <1>2. q \in ListJobs
    BY <1>1 DEF Queries, Listing, ListDatasets, ListSuites, ListJobs, ListRuns,
       ListReleaseDecisions, ListSuiteRuns, ListSuiteDecisions, ListSuiteTargets,
       ListSuiteTargetPairs, ListDecisionCases
  <1> QED
    BY <1>2 DEF ListJobs, Listing

\* A job that ends leaves the walks through open jobs.
LEMMA ClosePreserves ==
    ASSUME HistoryInv, NEW r \in Rows, Close(r)
    PROVE  HistoryInv'
  <1> DEFINE Left(c) == [c EXCEPT !.lasting =
                            IF c.query.filter = Open THEN @ \ {Key(c.query, r)} ELSE @]
  <1>1. /\ HistoryTypes /\ time[r] # 0 /\ status[r] = Open
        /\ status' = [status EXCEPT ![r] = Closed]
        /\ cursors' = {Left(c) : c \in cursors}
        /\ time' = time /\ answer' = answer
    BY DEF HistoryInv, Close
  <1>2. ASSUME NEW c \in cursors
        PROVE  /\ Left(c) \in [query : Queries, key : Keys, seen : SUBSET Keys,
                               lasting : SUBSET Keys]
               /\ Left(c).query = c.query /\ Left(c).key = c.key /\ Left(c).seen = c.seen
               /\ Left(c).lasting = IF c.query.filter = Open
                                    THEN c.lasting \ {Key(c.query, r)} ELSE c.lasting
    BY <1>1 DEF HistoryTypes
  <1> HIDE DEF Left
  <1>3. HistoryTypes'
    BY <1>1, <1>2 DEF HistoryTypes
  <1>4. WalksAreExact'
    BY <1>1 DEF HistoryInv, WalksAreExact
  <1>5. ASSUME NEW q \in Queries, NEW k \in Found(q), q.filter = Open => k # Key(q, r)
        PROVE  k \in Found(q)'
    <2>1. PICK row \in Rows : time[row] # 0 /\ Matches(q, row) /\ k = Key(q, row)
      BY <1>5 DEF Found
    <2>2. status'[row] = IF row = r THEN Closed ELSE status[row]
      BY <1>1 DEF HistoryTypes
    <2>3. Label[row] \in Labels
      BY DEF Labels
    <2>4. Matches(q, row)'
      <3>1. CASE row # r
        BY <2>1, <2>2, <3>1 DEF Matches
      <3>2. CASE row = r
        <4>1. q.filter # Open
          BY <1>5, <2>1, <3>2
        <4> QED
          BY <1>1, <2>1, <3>2, <4>1 DEF Matches
      <3> QED
        BY <3>1, <3>2
    <2> QED
      BY <1>1, <2>1, <2>4 DEF Found, Key
  <1>6. ASSUME NEW d \in cursors'
        PROVE  Placed(d)'
    <2>1. PICK c \in cursors : d = Left(c)
      BY <1>1, <1>6
    <2>2. Placed(c) /\ c.query \in Queries
      BY <1>1 DEF HistoryInv, HistoryTypes
    <2>3. d.lasting \subseteq Found(c.query)'
      BY <1>2, <1>5, <2>1, <2>2 DEF Placed
    <2> QED
      BY <1>2, <2>1, <2>2, <2>3 DEF Placed
  <1> QED
    BY <1>3, <1>4, <1>6 DEF HistoryInv

(***************************************************************************)
(* History: the theorems                                                   *)
(***************************************************************************)

\* Before anything is inserted there is no cursor.
LEMMA InitHistory == HistoryInit => HistoryInv
  <1> SUFFICES ASSUME HistoryInit
               PROVE  HistoryInv
    OBVIOUS
  <1> QED
    BY DEF HistoryInit, HistoryInv, HistoryTypes, WalksAreExact

\* Every step preserves the invariant.
LEMMA NextHistory == HistoryInv /\ [HistoryNext]_historyVars => HistoryInv'
  <1> SUFFICES ASSUME HistoryInv, [HistoryNext]_historyVars
               PROVE  HistoryInv'
    OBVIOUS
  <1>1. CASE \E q \in Queries, n \in Limits :
                Fetch(q, Begin(q), n) \/ \E c \in cursors : Fetch(q, c, n)
    BY <1>1, FetchPreserves
  <1>2. CASE \E r \in Rows : Close(r) \/ \E t \in 1 .. MaxTime : Insert(r, t)
    BY <1>2, ClosePreserves, InsertPreserves
  <1>3. CASE UNCHANGED historyVars
    BY <1>3 DEF historyVars, HistoryInv, HistoryTypes, WalksAreExact, Placed, Found, Key, Matches
  <1> QED
    BY <1>1, <1>2, <1>3 DEF HistoryNext

\* In every state each cursor stands behind all that its walk returned and before all
\* that it still owes, and what it owes is still found.
THEOREM HistoryInvariant == HistorySpec => []HistoryInv
  <1> QED
    BY InitHistory, NextHistory, PTL DEF HistorySpec

\* However the tables grow and jobs change while they are listed, a walk through the pages
\* of any list operation returns nothing twice and passes over nothing that was there when
\* it began and still belongs to it.
THEOREM WalksStayExact == HistorySpec => []WalksAreExact
  <1>1. HistoryInv => WalksAreExact
    BY DEF HistoryInv
  <1> QED
    BY <1>1, HistoryInvariant, PTL
==============================================================================
