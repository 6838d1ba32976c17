--------------------------- MODULE Readiness_proofs ---------------------------
(***************************************************************************)
(* The safety of Readiness for any number of requests and any pool.        *)
(*                                                                         *)
(* A result is true at the time of the answer because it was true at the   *)
(* time of the probe, and the witness of a request in flight has what the  *)
(* services are at every moment.                                           *)
(***************************************************************************)
EXTENDS Readiness, FiniteSetTheorems, TLAPS

Places == {"none", "connecting", "asking", "up", "down", "cancelled"}

TypeInv ==
    /\ service \in [Services -> {"up", "refusing", "hung"}]
    /\ lent \in Nat
    /\ held \subseteq Requests /\ IsFiniteSet(held)
    /\ pc \in [Requests -> {"idle", "gathering", "cancelling", "answered"}]
    /\ probe \in [Requests -> [Services -> Places]]
    /\ answer \in [Requests -> [Services -> {"none", "up", "down", "timeout"}]]
    /\ witness \in [Requests -> SUBSET (Services \X {"up", "refusing"})]

(* The witness has what the services would answer now. *)
WitnessIsCurrent ==
    \A r \in Requests, s \in Services :
        InFlight(r) /\ service[s] # "hung" => <<s, service[s]>> \in witness[r]

(* A result was true when it was obtained. *)
ResultIsTrue ==
    \A r \in Requests, s \in Services :
        InFlight(r) =>
            /\ probe[r][s] = "up" => <<s, "up">> \in witness[r]
            /\ probe[r][s] = "down" => <<s, "refusing">> \in witness[r]

IInv == TypeInv /\ WitnessIsCurrent /\ ResultIsTrue /\ AnswerIsTrue /\ ConnectionsReturned

LEMMA InitIInv == Init => IInv
<1> SUFFICES ASSUME Init PROVE IInv
  OBVIOUS
<1>1. TypeInv
  BY FS_EmptySet DEF Init, TypeInv, NoProbe, Places, Services
<1>2. WitnessIsCurrent /\ ResultIsTrue
  BY DEF Init, WitnessIsCurrent, ResultIsTrue, InFlight
<1>3. AnswerIsTrue
  BY DEF Init, AnswerIsTrue, NoProbe
<1>4. ConnectionsReturned
  BY FS_EmptySet, ReadinessAssumption DEF Init, ConnectionsReturned
<1> QED BY <1>1, <1>2, <1>3, <1>4 DEF IInv

-----------------------------------------------------------------------------
(* What the environment does. *)
LEMMA ChangeIInv ==
    ASSUME IInv, Change PROVE IInv'
<1> USE DEF IInv
<1>1. TypeInv'
  BY DEF Change, TypeInv, Observed
<1>2. \A r \in Requests : InFlight(r)' <=> InFlight(r)
  BY DEF Change, InFlight
<1>3. \A r \in Requests : witness[r] \subseteq witness'[r]
  BY DEF Change, TypeInv, Observed
<1>4. WitnessIsCurrent'
  BY <1>2, <1>1 DEF Change, TypeInv, Observed, WitnessIsCurrent
<1>5. ResultIsTrue' /\ AnswerIsTrue'
  BY <1>2, <1>3 DEF Change, ResultIsTrue, AnswerIsTrue
<1>6. held \subseteq Requests /\ held' = held /\ lent' = lent /\ probe' = probe
  BY DEF Change, TypeInv
<1>7. ConnectionsReturned'
  BY <1>2, <1>6 DEF ConnectionsReturned
<1> QED BY <1>1, <1>4, <1>5, <1>7

LEMMA HandlersIInv ==
    ASSUME IInv, Handlers PROVE IInv'
<1> USE DEF IInv, Handlers, InFlight
<1>1. CASE Borrow
  <2>1. lent' \in Nat /\ Cardinality(held') + lent' <= PoolSize
    BY <1>1, FS_CardinalityType, ReadinessAssumption DEF Borrow, ConnectionFree, TypeInv
  <2> QED BY <2>1 DEF TypeInv, WitnessIsCurrent, ResultIsTrue, AnswerIsTrue, ConnectionsReturned
<1>2. CASE Return
  <2>1. lent' \in Nat /\ Cardinality(held') + lent' <= PoolSize
    BY <1>2, FS_CardinalityType, ReadinessAssumption DEF Return, TypeInv, ConnectionsReturned
  <2> QED BY <2>1 DEF TypeInv, WitnessIsCurrent, ResultIsTrue, AnswerIsTrue, ConnectionsReturned
<1> QED BY <1>1, <1>2

-----------------------------------------------------------------------------
(* Giving a connection back leaves the pool within its bound. *)
LEMMA ReleaseBound ==
    ASSUME TypeInv, Cardinality(held) + lent <= PoolSize, NEW r \in Requests, NEW s \in Services
    PROVE  /\ Release(r, s) \subseteq held /\ IsFiniteSet(Release(r, s))
           /\ Cardinality(Release(r, s)) + lent <= PoolSize
<1>1. Release(r, s) \subseteq held /\ IsFiniteSet(held)
  BY DEF Release, TypeInv
<1>2. IsFiniteSet(Release(r, s)) /\ Cardinality(Release(r, s)) <= Cardinality(held)
  BY <1>1, FS_Subset
<1>3. Cardinality(Release(r, s)) \in Nat /\ Cardinality(held) \in Nat
  BY <1>1, <1>2, FS_CardinalityType
<1> QED BY <1>1, <1>2, <1>3, ReadinessAssumption DEF TypeInv

LEMMA ReceiveIInv ==
    ASSUME IInv, NEW r \in Requests, Receive(r) PROVE IInv'
<1> USE DEF IInv, Receive
<1>1. service' = service /\ \A q \in Requests \ {r} : witness'[q] = witness[q] /\ probe'[q] = probe[q] /\ pc'[q] = pc[q]
  BY DEF TypeInv
<1>2. /\ witness'[r] = Observed(r) /\ pc'[r] = "gathering"
      /\ probe'[r] = [postgresql |-> "connecting", redis |-> "asking"]
  BY DEF TypeInv
<1>3. TypeInv'
  BY <1>1 DEF TypeInv, Observed, Places, Services
<1>4. WitnessIsCurrent'
  BY <1>1, <1>2 DEF WitnessIsCurrent, InFlight, TypeInv, Observed
<1>5. ResultIsTrue'
  BY <1>1, <1>2 DEF ResultIsTrue, InFlight, Services
<1>6. AnswerIsTrue'
  BY <1>1, <1>2 DEF AnswerIsTrue, Observed
<1>7. ConnectionsReturned'
  BY <1>1 DEF ConnectionsReturned, InFlight
<1> QED BY <1>3, <1>4, <1>5, <1>6, <1>7

LEMMA ConnectIInv ==
    ASSUME IInv, NEW r \in Requests, Connect(r) PROVE IInv'
<1> USE DEF IInv, Connect, Set
<1>1. r \notin held
  BY DEF ConnectionsReturned
<1>2. IsFiniteSet(held') /\ Cardinality(held') = Cardinality(held) + 1
  BY <1>1, FS_AddElement DEF TypeInv
<1>3. Cardinality(held') + lent' <= PoolSize
  BY <1>2, FS_CardinalityType, ReadinessAssumption DEF ConnectionFree, TypeInv
<1>4. TypeInv'
  BY <1>2 DEF TypeInv, Places, Services
<1>5. WitnessIsCurrent' /\ AnswerIsTrue'
  BY DEF WitnessIsCurrent, AnswerIsTrue, InFlight
<1>6. ResultIsTrue'
  BY DEF ResultIsTrue, InFlight, TypeInv, Services
<1>7. ConnectionsReturned'
  BY <1>3 DEF ConnectionsReturned, InFlight, TypeInv, Services
<1> QED BY <1>4, <1>5, <1>6, <1>7

LEMMA FinishIInv ==
    ASSUME IInv, NEW r \in Requests, NEW s \in Services, Finish(r, s) PROVE IInv'
<1> USE DEF IInv, Finish, Set
<1>1. held' \subseteq held /\ IsFiniteSet(held') /\ Cardinality(held') + lent' <= PoolSize
  BY ReleaseBound DEF ConnectionsReturned
<1>2. PICK x \in {"up", "down"} :
         /\ probe' = [probe EXCEPT ![r][s] = x]
         /\ x = "up" => service[s] = "up"
         /\ x = "down" => service[s] = "refusing"
  OBVIOUS
<1>3. TypeInv'
  <2>1. probe' \in [Requests -> [Services -> Places]]
    BY <1>2 DEF TypeInv, Places
  <2> QED BY <1>1, <2>1 DEF TypeInv
<1>4. WitnessIsCurrent' /\ AnswerIsTrue'
  BY DEF WitnessIsCurrent, AnswerIsTrue, InFlight
<1>5. ResultIsTrue'
  <2> SUFFICES ASSUME NEW q \in Requests, NEW t \in Services, InFlight(q)
               PROVE  /\ probe'[q][t] = "up" => <<t, "up">> \in witness[q]
                      /\ probe'[q][t] = "down" => <<t, "refusing">> \in witness[q]
    BY DEF ResultIsTrue, InFlight
  <2>1. CASE q = r /\ t = s
    <3>1. probe'[q][t] = x /\ <<s, service[s]>> \in witness[r]
      BY <2>1, <1>2 DEF TypeInv, WitnessIsCurrent, InFlight
    <3> QED BY <2>1, <3>1, <1>2
  <2>2. CASE ~(q = r /\ t = s)
    <3>1. probe'[q][t] = probe[q][t]
      BY <2>2, <1>2 DEF TypeInv
    <3> QED BY <3>1 DEF ResultIsTrue
  <2> QED BY <2>1, <2>2
<1>6. ConnectionsReturned'
  BY <1>1, <1>2 DEF ConnectionsReturned, InFlight, TypeInv, Services, Release
<1> QED BY <1>1, <1>3, <1>4, <1>5, <1>6

LEMMA TimeoutIInv ==
    ASSUME IInv, NEW r \in Requests, Timeout(r) PROVE IInv'
<1> USE DEF IInv, Timeout
<1>1. \A q \in Requests : InFlight(q)' <=> InFlight(q)
  BY DEF InFlight, TypeInv
<1>2. TypeInv'
  BY DEF TypeInv
<1>3. WitnessIsCurrent' /\ ResultIsTrue' /\ AnswerIsTrue'
  BY <1>1 DEF WitnessIsCurrent, ResultIsTrue, AnswerIsTrue
<1>4. ConnectionsReturned'
  BY <1>1 DEF ConnectionsReturned, TypeInv
<1> QED BY <1>2, <1>3, <1>4

LEMMA CancelledIInv ==
    ASSUME IInv, NEW r \in Requests, NEW s \in Services, Cancelled(r, s) PROVE IInv'
<1> USE DEF IInv, Cancelled, Set
<1>1. held' \subseteq held /\ IsFiniteSet(held') /\ Cardinality(held') + lent' <= PoolSize
  BY ReleaseBound DEF ConnectionsReturned
<1>2. TypeInv'
  BY <1>1 DEF TypeInv, Places
<1>3. WitnessIsCurrent' /\ AnswerIsTrue'
  BY DEF WitnessIsCurrent, AnswerIsTrue, InFlight
<1>4. ResultIsTrue'
  BY DEF ResultIsTrue, InFlight, TypeInv
<1>5. ConnectionsReturned'
  BY <1>1 DEF ConnectionsReturned, InFlight, TypeInv, Services, Release
<1> QED BY <1>2, <1>3, <1>4, <1>5

LEMMA AnswerIInv ==
    ASSUME IInv, NEW r \in Requests, Answer(r) PROVE IInv'
<1> USE DEF IInv, Answer
<1>1. TypeInv'
  BY DEF TypeInv, Places, Services, Results, NoProbe, TimedOut
<1>2. WitnessIsCurrent' /\ ResultIsTrue'
  BY DEF WitnessIsCurrent, ResultIsTrue, InFlight, TypeInv
<1>3. AnswerIsTrue'
  <2> SUFFICES ASSUME NEW q \in Requests, NEW s \in Services
               PROVE  /\ answer'[q][s] = "up" => <<s, "up">> \in witness[q]
                      /\ answer'[q][s] = "down" => <<s, "refusing">> \in witness[q]
    BY DEF AnswerIsTrue
  <2>1. CASE q # r
    BY <2>1 DEF AnswerIsTrue, TypeInv
  <2>2. CASE q = r /\ pc[r] = "gathering"
    <3>1. answer'[q][s] = probe[r][s]
      BY <2>2 DEF TypeInv
    <3> QED BY <3>1, <2>2 DEF ResultIsTrue, InFlight
  <2>3. CASE q = r /\ pc[r] # "gathering"
    BY <2>3 DEF TypeInv, TimedOut
  <2> QED BY <2>1, <2>2, <2>3
<1>4. r \notin held
  BY DEF ConnectionsReturned, Results, Services
<1>5. ConnectionsReturned'
  BY <1>4 DEF ConnectionsReturned, InFlight, TypeInv
<1> QED BY <1>1, <1>2, <1>3, <1>5

-----------------------------------------------------------------------------
LEMMA NextIInv == IInv /\ [Next]_vars => IInv'
<1> SUFFICES ASSUME IInv, [Next]_vars PROVE IInv'
  OBVIOUS
<1>1. CASE Change
  BY <1>1, ChangeIInv
<1>2. CASE Handlers
  BY <1>2, HandlersIInv
<1>3. ASSUME NEW r \in Requests, Receive(r) PROVE IInv'
  BY <1>3, ReceiveIInv
<1>4. ASSUME NEW r \in Requests, Connect(r) PROVE IInv'
  BY <1>4, ConnectIInv
<1>5. ASSUME NEW r \in Requests, NEW s \in Services, Finish(r, s) PROVE IInv'
  BY <1>5, FinishIInv
<1>6. ASSUME NEW r \in Requests, Timeout(r) PROVE IInv'
  BY <1>6, TimeoutIInv
<1>7. ASSUME NEW r \in Requests, NEW s \in Services, Cancelled(r, s) PROVE IInv'
  BY <1>7, CancelledIInv
<1>8. ASSUME NEW r \in Requests, Answer(r) PROVE IInv'
  BY <1>8, AnswerIInv
<1>9. CASE UNCHANGED vars
  BY <1>9 DEF vars, IInv, TypeInv, WitnessIsCurrent, ResultIsTrue, AnswerIsTrue,
              ConnectionsReturned, InFlight
<1> QED BY <1>1, <1>2, <1>3, <1>4, <1>5, <1>6, <1>7, <1>8, <1>9 DEF Next, Handler

(* The results of the probes in flight are true of some moment of their    *)
(* request, and connections are with probes that ask.                      *)
THEOREM Invariance == Spec => []IInv
<1>1. Init => IInv
  BY InitIInv
<1>2. IInv /\ [Next]_vars => IInv'
  BY NextIInv
<1> QED BY <1>1, <1>2, PTL DEF Spec

(* What /ready answers of a service was so at some moment of the request.  *)
THEOREM AnswersAreTrue == Spec => []AnswerIsTrue
<1>1. IInv => AnswerIsTrue
  BY DEF IInv
<1> QED BY <1>1, Invariance, PTL

(* The pool is never exceeded, and no probe that has ended, been refused   *)
(* or been cancelled keeps its connection.                                 *)
THEOREM ConnectionsAreReturned == Spec => []ConnectionsReturned
<1>1. IInv => ConnectionsReturned
  BY DEF IInv
<1> QED BY <1>1, Invariance, PTL
=============================================================================
