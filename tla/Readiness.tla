------------------------------ MODULE Readiness -------------------------------
(***************************************************************************)
(* GET /ready: a probe of PostgreSQL and a probe of Redis that run         *)
(* concurrently under one time limit.  The first one borrows a connection  *)
(* of the pool that the crawl-job handlers use.                            *)
(*                                                                         *)
(* A service answers, refuses or hangs, and changes between these at any   *)
(* time.  Nothing is assumed of when handlers return what they borrow.     *)
(***************************************************************************)
EXTENDS Naturals, FiniteSets

CONSTANTS
    Requests,
    PoolSize

ASSUME ReadinessAssumption == PoolSize \in Nat \ {0}

Services == {"postgresql", "redis"}

VARIABLES
    service,   \* "up", "refusing" or "hung"
    lent,      \* connections the handlers hold
    held,      \* requests whose probe holds a connection
    pc,        \* "idle", "gathering", "cancelling" or "answered"
    probe,     \* result of a request's probe of a service, or where it is
    answer,    \* the checks of the response
    witness    \* services with what they would have answered during a request

vars == <<service, lent, held, pc, probe, answer, witness>>

Results == {"up", "down"}

NoProbe == [s \in Services |-> "none"]

Init ==
    /\ service \in [Services -> {"up", "refusing", "hung"}]
    /\ lent = 0 /\ held = {}
    /\ pc = [r \in Requests |-> "idle"]
    /\ probe = [r \in Requests |-> NoProbe]
    /\ answer = [r \in Requests |-> NoProbe]
    /\ witness = [r \in Requests |-> {}]

InFlight(r) == pc[r] \in {"gathering", "cancelling"}

Observed(r) ==
    witness[r] \cup {<<s, service'[s]>> : s \in {x \in Services : service'[x] # "hung"}}

-----------------------------------------------------------------------------
(* The environment. *)

Change ==
    /\ \E s \in Services, to \in {"up", "refusing", "hung"} :
          service[s] # to /\ service' = [service EXCEPT ![s] = to]
    /\ witness' = [r \in Requests |-> IF InFlight(r) THEN Observed(r) ELSE witness[r]]
    /\ UNCHANGED <<lent, held, pc, probe, answer>>

ConnectionFree == Cardinality(held) + lent < PoolSize

Borrow == ConnectionFree /\ lent' = lent + 1
Return == lent > 0 /\ lent' = lent - 1

Handlers == (Borrow \/ Return) /\ UNCHANGED <<service, held, pc, probe, answer, witness>>

-----------------------------------------------------------------------------
(* readiness: gather starts both probes.                                   *)
Receive(r) ==
    /\ pc[r] = "idle"
    /\ pc' = [pc EXCEPT ![r] = "gathering"]
    /\ probe' = [probe EXCEPT ![r] = [postgresql |-> "connecting", redis |-> "asking"]]
    /\ UNCHANGED <<service, lent, held, answer>>
    /\ witness' = [witness EXCEPT ![r] = Observed(r)]

Set(r, s, to) == probe' = [probe EXCEPT ![r][s] = to]

Connect(r) ==
    /\ pc[r] = "gathering" /\ probe[r]["postgresql"] = "connecting"
    /\ ConnectionFree
    /\ held' = held \cup {r}
    /\ Set(r, "postgresql", "asking")
    /\ UNCHANGED <<service, lent, pc, answer, witness>>

Release(r, s) == IF s = "postgresql" THEN held \ {r} ELSE held

(* Seeded bug: only the outcome "up" closes the connection. *)
Finish_LeaksOnError(r, s) ==
    /\ pc[r] = "gathering" /\ probe[r][s] = "asking"
    /\ \/ service[s] = "up" /\ Set(r, s, "up") /\ held' = Release(r, s)
       \/ service[s] = "refusing" /\ Set(r, s, "down") /\ UNCHANGED held
    /\ UNCHANGED <<service, lent, pc, answer, witness>>

(* check_postgresql, check_redis: an exception is a result.                *)
Finish(r, s) ==
    /\ pc[r] = "gathering" /\ probe[r][s] = "asking"
    /\ \/ service[s] = "up" /\ Set(r, s, "up")
       \/ service[s] = "refusing" /\ Set(r, s, "down")
    /\ held' = Release(r, s)
    /\ UNCHANGED <<service, lent, pc, answer, witness>>

(* Seeded bug: the limit is only given to the first of the two clients. *)
Timeout_OneProbe(r) ==
    /\ pc[r] = "gathering" /\ probe[r]["redis"] \in Results
    /\ pc' = [pc EXCEPT ![r] = "cancelling"]
    /\ UNCHANGED <<service, lent, held, probe, answer, witness>>

(* The limit of wait_for strikes until the handler has resumed, also when  *)
(* one probe has its result, or both have.  It cancels the rest.           *)
Timeout(r) ==
    /\ pc[r] = "gathering"
    /\ pc' = [pc EXCEPT ![r] = "cancelling"]
    /\ UNCHANGED <<service, lent, held, probe, answer, witness>>

(* A cancelled probe terminates its connection, whether the server hangs   *)
(* or not, or leaves the queue of the pool.                                *)
Cancelled(r, s) ==
    /\ pc[r] = "cancelling" /\ probe[r][s] \in {"connecting", "asking"}
    /\ Set(r, s, "cancelled")
    /\ held' = Release(r, s)
    /\ UNCHANGED <<service, lent, pc, answer, witness>>

TimedOut == [s \in Services |-> "timeout"]

(* Seeded bug: the results are unpacked in the wrong order. *)
Answer_Swapped(r) ==
    /\ \/ /\ pc[r] = "gathering" /\ \A s \in Services : probe[r][s] \in Results
          /\ answer' = [answer EXCEPT ![r] = [postgresql |-> probe[r]["redis"],
                                              redis |-> probe[r]["postgresql"]]]
       \/ /\ pc[r] = "cancelling" /\ \A s \in Services : probe[r][s] \in Results \cup {"cancelled"}
          /\ answer' = [answer EXCEPT ![r] = TimedOut]
    /\ pc' = [pc EXCEPT ![r] = "answered"]
    /\ probe' = [probe EXCEPT ![r] = NoProbe]
    /\ UNCHANGED <<service, lent, held, witness>>

Answer(r) ==
    /\ \/ /\ pc[r] = "gathering" /\ \A s \in Services : probe[r][s] \in Results
          /\ answer' = [answer EXCEPT ![r] = probe[r]]
       \/ /\ pc[r] = "cancelling" /\ \A s \in Services : probe[r][s] \in Results \cup {"cancelled"}
          /\ answer' = [answer EXCEPT ![r] = TimedOut]
    /\ pc' = [pc EXCEPT ![r] = "answered"]
    /\ probe' = [probe EXCEPT ![r] = NoProbe]
    /\ UNCHANGED <<service, lent, held, witness>>

-----------------------------------------------------------------------------
Handler(r) == Timeout(r) \/ (\E s \in Services : Cancelled(r, s)) \/ Answer(r)

Next ==
    \/ Change \/ Handlers
    \/ \E r \in Requests :
          \/ Receive(r) \/ Connect(r) \/ (\E s \in Services : Finish(r, s))
          \/ Handler(r)

(* The event loop runs timers, cancelled tasks and tasks whose result is   *)
(* there.  Neither the services nor the pool are fair.                     *)
Spec == Init /\ [][Next]_vars /\ \A r \in Requests : WF_vars(Handler(r))

-----------------------------------------------------------------------------
(* What an answer says of a service was so at some time between the        *)
(* request and the answer, for the service that is named: 200 means that   *)
(* both have answered.  (A time limit is said of both, also of one that    *)
(* has answered.)                                                          *)
AnswerIsTrue ==
    \A r \in Requests, s \in Services :
        /\ answer[r][s] = "up" => <<s, "up">> \in witness[r]
        /\ answer[r][s] = "down" => <<s, "refusing">> \in witness[r]

(* Neither a refused nor a cancelled probe keeps a connection from the     *)
(* handlers.                                                               *)
ConnectionsReturned ==
    /\ Cardinality(held) + lent <= PoolSize
    /\ \A r \in held : InFlight(r) /\ probe[r]["postgresql"] = "asking"

(* Every request is answered, whatever hangs: a server, or all the         *)
(* handlers with the whole pool in their hands.                            *)
ReadinessAnswers ==
    \A r \in Requests : pc[r] = "gathering" ~> pc[r] = "answered"
=============================================================================
