------------------------------ MODULE CreateOnce ------------------------------
(***************************************************************************)
(* What the control plane promises wherever something is created once      *)
(* under a name chosen by the caller: the first call that takes effect     *)
(* creates it, every later call with the same content is answered with     *)
(* what the first one created, and a call with other content is told of    *)
(* the conflict.  Each call is decided in one step.                        *)
(*                                                                         *)
(* A call that is never acceptable is refused whatever is stored; any      *)
(* other may be refused for its content only if its name was free when it  *)
(* arrived.  A call may also fail without an answer, before or after it    *)
(* took effect.                                                            *)
(***************************************************************************)
EXTENDS Naturals

CONSTANTS
    Processes,  \* who serves calls, each one at a time
    Names,      \* what callers choose
    Contents,   \* what they want stored
    Records,    \* what is stored for a content
    Nothing,    \* no record, no call or no answer
    Content,    \* the content of each record
    Unacceptable    \* calls that are refused for what they say alone

VARIABLES
    stored,     \* the record under each name
    calls,      \* the call each process serves
    free,       \* its name was free when it arrived
    answers     \* the answer each process gave last

onceVars == <<stored, calls, free, answers>>

Calls == [name : Names, content : Contents]

OnceInit ==
    /\ stored = [n \in Names |-> Nothing]
    /\ calls = [p \in Processes |-> Nothing]
    /\ free = [p \in Processes |-> FALSE]
    /\ answers = [p \in Processes |-> Nothing]

Arrive(p, c) ==
    /\ calls[p] = Nothing
    /\ calls' = [calls EXCEPT ![p] = c]
    /\ free' = [free EXCEPT ![p] = stored[c.name] = Nothing]
    /\ answers' = [answers EXCEPT ![p] = Nothing]
    /\ UNCHANGED stored

Done(p, answer) ==
    /\ calls[p] # Nothing
    /\ calls' = [calls EXCEPT ![p] = Nothing]
    /\ answers' = [answers EXCEPT ![p] = answer]
    /\ UNCHANGED free

Create(p, r) ==
    /\ stored[calls[p].name] = Nothing
    /\ Content[r] = calls[p].content
    /\ stored' = [stored EXCEPT ![calls[p].name] = r]

\* The call created its record, and says so unless the answer is lost.
Created(p) ==
    /\ calls[p] \notin Unacceptable
    /\ \E r \in Records :
          /\ Create(p, r)
          /\ \/ Done(p, [call |-> calls[p], outcome |-> "created", record |-> r])
             \/ Done(p, Nothing)

\* The record was there already: it is returned, or it is a conflict.
Found(p) ==
    LET r == stored[calls[p].name]
    IN  /\ r # Nothing /\ calls[p] \notin Unacceptable
        /\ Done(p, [call |-> calls[p],
                    outcome |-> IF Content[r] = calls[p].content
                                THEN "existing" ELSE "conflict",
                    record |-> r])
        /\ UNCHANGED stored

Refused(p) ==
    /\ free[p] \/ calls[p] \in Unacceptable
    /\ Done(p, [call |-> calls[p], outcome |-> "refused", record |-> Nothing])
    /\ UNCHANGED stored

\* The process failed before the call took effect.
Failed(p) == Done(p, Nothing) /\ UNCHANGED stored

OnceNext ==
    \E p \in Processes :
        \/ \E c \in Calls : Arrive(p, c)
        \/ calls[p] # Nothing /\ (Created(p) \/ Found(p) \/ Refused(p) \/ Failed(p))

OnceSpec == OnceInit /\ [][OnceNext]_onceVars
=============================================================================
