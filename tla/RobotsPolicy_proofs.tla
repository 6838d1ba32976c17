-------------------------- MODULE RobotsPolicy_proofs -------------------------
(***************************************************************************)
(* Proofs that the checks of an origin share one load and one policy, for  *)
(* any number of checks and origins.  The queue of the lock plays no part  *)
(* in that: that a released lock is taken by one task at a time is enough. *)
(* The queues have their own invariant, of which they need the types of    *)
(* the rest.                                                               *)
(***************************************************************************)
EXTENDS RobotsPolicy, SequenceTheorems, FiniteSetTheorems, TLAPS

-----------------------------------------------------------------------------
(* The inductive invariant, in three parts. *)

ShapeFacts ==
    /\ pc \in [Checks -> Control]
    /\ origin \in [Checks -> Origins \cup {NoOrigin}]
    /\ decision \in [Checks -> Policies \cup {NoPolicy}]
    /\ policies \in [Origins -> Policies \cup {NoPolicy}]
    /\ holder \in [Origins -> Checks \cup {NoCheck}]

(* A check that loads holds the lock, and found no policy under it. *)
LockFacts ==
    \A c \in Checks :
        /\ pc[c] \in {"waiting", "loading", "decided"} => origin[c] \in Origins
        /\ pc[c] = "loading" => holder[origin[c]] = c /\ ~Cached(origin[c])

(* What a check has decided by is in the cache. *)
DecisionFacts ==
    \A c \in Checks : pc[c] = "decided" =>
        decision[c] = policies[origin[c]] /\ Cached(origin[c])

IInv == ShapeFacts /\ LockFacts /\ DecisionFacts

-----------------------------------------------------------------------------
(* Nothing is loaded or decided at first. *)
LEMMA InvInit == Init => IInv
BY DEF Init, IInv, ShapeFacts, LockFacts, DecisionFacts, Control, Final, Policies

(* A check decides by the cache, or takes a lock nobody holds. *)
LEMMA CheckStep ==
    ASSUME IInv, NEW c \in Checks, Check(c)
    PROVE  IInv'
<1> USE DEF IInv, Goto, Decide, Cached, LockFree, Control, Final
<1>1. PICK o \in Origins : origin' = [origin EXCEPT ![c] = o] /\
          \/ Cached(o) /\ Decide(c, policies[o]) /\ UNCHANGED <<holder, waiters>>
          \/ /\ ~Cached(o) /\ LockFree(o)
             /\ holder' = [holder EXCEPT ![o] = c]
             /\ Goto(c, "loading")
             /\ UNCHANGED <<decision, waiters>>
          \/ /\ ~Cached(o) /\ ~LockFree(o)
             /\ waiters' = [waiters EXCEPT ![o] = Append(@, c)]
             /\ Goto(c, "waiting")
             /\ UNCHANGED <<decision, holder>>
  BY DEF Check
<1>2. pc[c] = "idle" /\ policies' = policies
  BY DEF Check
<1>3. ShapeFacts'
  BY <1>1, <1>2, PolicyAssumption DEF ShapeFacts
<1>4. LockFacts'
  BY <1>1, <1>2, PolicyAssumption DEF LockFacts, ShapeFacts
<1>5. DecisionFacts'
  BY <1>1, <1>2 DEF DecisionFacts, ShapeFacts, Policies
<1> QED
  BY <1>3, <1>4, <1>5

(* A waiter looks again under a lock nobody holds. *)
LEMMA ResumeStep ==
    ASSUME IInv, NEW c \in Checks, Resume(c)
    PROVE  IInv'
<1> USE DEF IInv, Goto, Decide, Cached, Control, Final
<1> DEFINE o == origin[c]
<1>1. /\ pc[c] = "waiting" /\ o \in Origins /\ holder[o] = NoCheck
      /\ UNCHANGED <<origin, policies>>
      /\ \/ Cached(o) /\ Decide(c, policies[o]) /\ UNCHANGED holder
         \/ /\ ~Cached(o)
            /\ holder' = [holder EXCEPT ![o] = c]
            /\ Goto(c, "loading")
            /\ UNCHANGED decision
  BY DEF Resume, LockFacts
<1> HIDE DEF o
<1>2. ShapeFacts'
  BY <1>1 DEF ShapeFacts
<1>3. LockFacts'
  BY <1>1, PolicyAssumption DEF LockFacts, ShapeFacts, o
<1>4. DecisionFacts'
  BY <1>1 DEF DecisionFacts, ShapeFacts, o
<1> QED
  BY <1>2, <1>3, <1>4

(* A load that ends is the only one of its origin, and the first: every    *)
(* decision about that origin comes later.                                 *)
LEMMA LoadStep ==
    ASSUME IInv, NEW c \in Checks, Load(c)
    PROVE  IInv'
<1> USE DEF IInv, Goto, Decide, Unlock, Cached, Control, Final
<1> DEFINE o == origin[c]
<1>1. PICK policy \in Policies :
          policies' = [policies EXCEPT ![o] = policy] /\ Decide(c, policy)
  BY DEF Load
<1>2. /\ pc[c] = "loading" /\ o \in Origins /\ holder[o] = c /\ ~Cached(o)
      /\ holder' = [holder EXCEPT ![o] = NoCheck]
      /\ UNCHANGED origin
  BY DEF Load, LockFacts
<1>3. policy # NoPolicy
  BY PolicyAssumption DEF Policies
<1> HIDE DEF o
<1>4. ShapeFacts'
  BY <1>1, <1>2 DEF ShapeFacts
<1>5. LockFacts'
  BY <1>1, <1>2 DEF LockFacts, ShapeFacts, o
<1>6. DecisionFacts'
  BY <1>1, <1>2, <1>3 DEF DecisionFacts, LockFacts, ShapeFacts, o
<1> QED
  BY <1>4, <1>5, <1>6

(* A load that raises, and a check that is cancelled, give the lock back   *)
(* and leave the cache alone.                                              *)
LEMMA GiveUpStep ==
    ASSUME IInv, NEW c \in Checks, LoadRaises(c) \/ Cancel(c)
    PROVE  IInv'
<1> USE DEF IInv, Goto, Unlock, Cached, Control, Final
<1>1. /\ pc[c] \in {"waiting", "loading"}
      /\ \E to \in {"raised", "cancelled"} : pc' = [pc EXCEPT ![c] = to]
      /\ UNCHANGED <<origin, decision, policies>>
      /\ \/ UNCHANGED holder
         \/ pc[c] = "loading" /\ holder' = [holder EXCEPT ![origin[c]] = NoCheck]
  BY DEF LoadRaises, Cancel
<1>2. ShapeFacts'
  BY <1>1 DEF ShapeFacts
<1>3. LockFacts'
  BY <1>1 DEF LockFacts, ShapeFacts
<1>4. DecisionFacts'
  BY <1>1 DEF DecisionFacts, ShapeFacts
<1> QED
  BY <1>2, <1>3, <1>4

(* The invariant does not depend on anything but the variables. *)
LEMMA InvStutter == IInv /\ UNCHANGED vars => IInv'
BY DEF IInv, vars, ShapeFacts, LockFacts, DecisionFacts, Cached

-----------------------------------------------------------------------------
(* The invariant holds in every reachable state. *)
THEOREM Invariance == Spec => []IInv
<1>1. IInv /\ [Next]_vars => IInv'
  <2> SUFFICES ASSUME IInv, [Next]_vars PROVE IInv'
    OBVIOUS
  <2>1. CASE Done \/ UNCHANGED vars
    BY <2>1, InvStutter DEF Done
  <2>2. ASSUME NEW c \in Checks, Check(c) \/ Progress(c) \/ Cancel(c) PROVE IInv'
    BY <2>2, CheckStep, ResumeStep, LoadStep, GiveUpStep DEF Progress
  <2> QED
    BY <2>1, <2>2 DEF Next
<1> QED
  BY InvInit, <1>1, PTL DEF Spec

(* One load per origin is under way, and none once the policy is known. *)
THEOREM LoadsAreShared == Spec => []OneLoadPerOrigin
<1>1. IInv => OneLoadPerOrigin
  BY DEF IInv, LockFacts, OneLoadPerOrigin
<1> QED
  BY <1>1, Invariance, PTL

(* Every decision about an origin is by the policy in the cache. *)
THEOREM ChecksAgree == Spec => []DecisionsAgree
<1>1. IInv => DecisionsAgree
  BY DEF IInv, DecisionFacts, DecisionsAgree
<1> QED
  BY <1>1, Invariance, PTL

-----------------------------------------------------------------------------
(* The queues. *)

NatMin ==
    \A T \in SUBSET Nat : T # {} => \E m \in T : \A n \in T : m <= n

LEMMA SmallestExists == NatMin
<1> SUFFICES ASSUME NEW T \in SUBSET Nat, T # {} PROVE \E m \in T : \A n \in T : m <= n
  BY DEF NatMin
<1>1. PICK m \in T : \A n \in T : ~(<<n, m>> \in OpToRel(<, Nat))
  BY WFMin, NatLessThanWellFounded
<1>2. \A n \in T : ~(n < m)
  BY <1>1 DEF OpToRel
<1> QED BY <1>2

(* Removing the first occurrence keeps every other element. *)
LEMMA RemoveFirstProperties ==
    ASSUME NEW S, NEW s \in Seq(S), NEW e
    PROVE  /\ RemoveFirst(s, e) \in Seq(S)
           /\ \A x \in S \ {e} : (\E i \in DOMAIN s : s[i] = x) =>
                 \E i \in DOMAIN RemoveFirst(s, e) : RemoveFirst(s, e)[i] = x
<1> DEFINE I == {i \in 1 .. Len(s) : s[i] = e}
<1>1. CASE ~\E i \in 1 .. Len(s) : s[i] = e
  <2>1. RemoveFirst(s, e) = s
    BY <1>1 DEF RemoveFirst
  <2> QED BY <2>1
<1>2. CASE \E i \in 1 .. Len(s) : s[i] = e
  <2>1. PICK m \in I : \A n \in I : m <= n
    <3>1. I \in SUBSET Nat /\ I # {}
      BY <1>2
    <3> HIDE DEF I
    <3> QED BY <3>1, SmallestExists DEF NatMin
  <2>2. Min(I) \in I
    BY <2>1 DEF Min
  <2>3. RemoveFirst(s, e) = RemoveAt(s, Min(I))
    BY <1>2, <2>1 DEF RemoveFirst, SelectInSeq
  <2> DEFINE j == Min(I)
             front == SubSeq(s, 1, j - 1)
             rest == SubSeq(s, j + 1, Len(s))
  <2>4. j \in 1 .. Len(s) /\ s[j] = e /\ Len(s) \in Nat /\ s \in [1 .. Len(s) -> S]
    BY <2>2, LenProperties
  <2> HIDE DEF j, I
  <2>5. /\ front \in Seq(S) /\ Len(front) = j - 1
        /\ \A i \in 1 .. j - 1 : front[i] = s[i]
    BY <2>4, SubSeqProperties
  <2>6. /\ rest \in Seq(S) /\ Len(rest) = Len(s) - j
        /\ \A i \in 1 .. Len(s) - j : rest[i] = s[j + i]
    <3>1. \A i \in j + 1 .. Len(s) : s[i] \in S
      BY <2>4
    <3>2. /\ rest \in Seq(S)
          /\ Len(rest) = IF j + 1 <= Len(s) THEN Len(s) - (j + 1) + 1 ELSE 0
          /\ \A i \in 1 .. Len(s) - (j + 1) + 1 : rest[i] = s[j + 1 + i - 1]
      BY <3>1, <2>4, SubSeqProperties
    <3>3. \A i \in 1 .. Len(s) - j : i \in 1 .. Len(s) - (j + 1) + 1 /\ j + 1 + i - 1 = j + i
      BY <2>4
    <3> HIDE DEF rest
    <3>4. j \in Nat /\ j <= Len(s) /\ Len(s) \in Nat
      BY <2>4
    <3>5. Len(rest) = Len(s) - j
      BY <3>2, <3>4
    <3> QED BY <3>2, <3>3, <3>5
  <2> DEFINE t == front \o rest
  <2>7. RemoveFirst(s, e) = t
    BY <2>3 DEF RemoveAt, j
  <2> HIDE DEF front, rest
  <2>8. /\ t \in Seq(S) /\ Len(t) = Len(s) - 1
        /\ \A i \in 1 .. Len(s) - 1 : t[i] = IF i <= j - 1 THEN front[i] ELSE rest[i - (j - 1)]
    <3>1. /\ t \in Seq(S) /\ Len(t) = Len(front) + Len(rest)
          /\ \A i \in 1 .. Len(front) + Len(rest) :
                t[i] = IF i <= Len(front) THEN front[i] ELSE rest[i - Len(front)]
      BY <2>5, <2>6, ConcatProperties
    <3>2. Len(front) + Len(rest) = Len(s) - 1
      BY <2>4, <2>5, <2>6
    <3> QED BY <3>1, <3>2, <2>5
  <2>9. DOMAIN t = 1 .. Len(s) - 1
    BY <2>8, LenProperties
  <2> HIDE DEF t
  <2>10. ASSUME NEW x \in S \ {e}, NEW i \in DOMAIN s, s[i] = x
         PROVE  \E k \in DOMAIN t : t[k] = x
    <3>1. i \in 1 .. Len(s) /\ i # j
      BY <2>4, <2>10
    <3>2. CASE i < j
      <4>1. i \in 1 .. Len(s) - 1 /\ i <= j - 1 /\ i \in 1 .. j - 1
        BY <3>1, <3>2, <2>4
      <4> QED BY <4>1, <2>5, <2>8, <2>9, <2>10
    <3>3. CASE i > j
      <4>1. i - 1 \in 1 .. Len(s) - 1 /\ ~(i - 1 <= j - 1) /\ i - j \in 1 .. Len(s) - j
            /\ (i - 1) - (j - 1) = i - j /\ j + (i - j) = i
        BY <3>1, <3>3, <2>4
      <4> QED BY <4>1, <2>6, <2>8, <2>9, <2>10
    <3> QED BY <3>1, <3>2, <3>3, <2>4
  <2> QED BY <2>7, <2>8, <2>10
<1> QED BY <1>1, <1>2

(* A check that waits is in the queue of its origin, so that Resume finds  *)
(* a first waiter to take out.                                             *)
QueueFacts ==
    /\ waiters \in [Origins -> Seq(Checks)]
    /\ \A c \in Checks : pc[c] = "waiting" =>
          \E i \in DOMAIN waiters[origin[c]] : waiters[origin[c]][i] = c

LEMMA CheckQueue ==
    ASSUME IInv, QueueFacts, NEW c \in Checks, Check(c)
    PROVE  QueueFacts'
<1>1. PICK o \in Origins :
          /\ origin' = [origin EXCEPT ![c] = o]
          /\ \/ pc' = [pc EXCEPT ![c] = "decided"] /\ UNCHANGED waiters
             \/ pc' = [pc EXCEPT ![c] = "loading"] /\ UNCHANGED waiters
             \/ /\ waiters' = [waiters EXCEPT ![o] = Append(@, c)]
                /\ pc' = [pc EXCEPT ![c] = "waiting"]
  BY DEF Check, Decide, Goto
<1>2. /\ pc \in [Checks -> Control] /\ origin \in [Checks -> Origins \cup {NoOrigin}]
      /\ pc[c] = "idle"
      /\ \A d \in Checks : pc[d] = "waiting" => origin[d] \in Origins
  BY DEF Check, IInv, ShapeFacts, LockFacts
<1>3. CASE UNCHANGED waiters
  BY <1>1, <1>2, <1>3 DEF QueueFacts
<1>4. CASE /\ waiters' = [waiters EXCEPT ![o] = Append(@, c)]
           /\ pc' = [pc EXCEPT ![c] = "waiting"]
  <2> DEFINE q == waiters[o]
             r == Append(q, c)
  <2>1. q \in Seq(Checks)
    BY DEF QueueFacts
  <2>2. /\ r \in Seq(Checks) /\ DOMAIN r = 1 .. Len(q) + 1 /\ DOMAIN q = 1 .. Len(q)
        /\ Len(q) \in Nat /\ r[Len(q) + 1] = c
        /\ \A i \in 1 .. Len(q) : r[i] = q[i]
    BY <2>1, AppendProperties, LenProperties
  <2> HIDE DEF r
  <2>3. waiters' = [waiters EXCEPT ![o] = r]
    BY <1>4 DEF r
  <2>4. waiters' \in [Origins -> Seq(Checks)]
    BY <2>2, <2>3 DEF QueueFacts
  <2>5. ASSUME NEW d \in Checks, pc'[d] = "waiting"
        PROVE  \E i \in DOMAIN waiters'[origin'[d]] : waiters'[origin'[d]][i] = d
    <3>1. CASE d = c
      <4>1. origin'[d] = o /\ waiters'[o] = r /\ Len(q) + 1 \in DOMAIN r
        BY <3>1, <1>1, <1>2, <2>2, <2>3 DEF QueueFacts
      <4> QED BY <4>1, <3>1, <2>2
    <3>2. CASE d # c
      <4>1. origin'[d] = origin[d] /\ pc[d] = "waiting" /\ origin[d] \in Origins
        BY <3>2, <2>5, <1>1, <1>2, <1>4
      <4>2. PICK i \in DOMAIN waiters[origin[d]] : waiters[origin[d]][i] = d
        BY <4>1 DEF QueueFacts
      <4>3. CASE origin[d] = o
        <5>1. i \in DOMAIN r /\ r[i] = d /\ waiters'[o] = r
          BY <4>2, <4>3, <2>2, <2>3 DEF QueueFacts
        <5> QED BY <5>1, <4>1, <4>3
      <4>4. CASE origin[d] # o
        <5>1. waiters'[origin[d]] = waiters[origin[d]]
          BY <4>1, <4>4, <2>3 DEF QueueFacts
        <5> QED BY <5>1, <4>1, <4>2
      <4> QED BY <4>3, <4>4
    <3> QED BY <3>1, <3>2
  <2> QED BY <2>4, <2>5 DEF QueueFacts
<1> QED BY <1>1, <1>3, <1>4

(* Taking a check out of its queue, and making it anything but a waiter,   *)
(* leaves the others where they are looked for.                            *)
LEMMA LeaveQueue ==
    ASSUME IInv, QueueFacts, NEW c \in Checks, pc[c] = "waiting",
           NEW r \in Seq(Checks), NEW to \in Control \ {"waiting"},
           \A d \in Checks \ {c} : (\E i \in DOMAIN waiters[origin[c]] : waiters[origin[c]][i] = d) =>
                \E i \in DOMAIN r : r[i] = d,
           waiters' = [waiters EXCEPT ![origin[c]] = r],
           pc' = [pc EXCEPT ![c] = to], UNCHANGED origin
    PROVE  QueueFacts'
<1>1. /\ pc \in [Checks -> Control] /\ origin[c] \in Origins
      /\ waiters \in [Origins -> Seq(Checks)]
      /\ \A d \in Checks : pc[d] = "waiting" => origin[d] \in Origins
  BY DEF IInv, ShapeFacts, LockFacts, QueueFacts
<1>2. waiters' \in [Origins -> Seq(Checks)]
  BY <1>1
<1>3. ASSUME NEW d \in Checks, pc'[d] = "waiting"
      PROVE  \E i \in DOMAIN waiters'[origin'[d]] : waiters'[origin'[d]][i] = d
  <2>1. d # c /\ pc[d] = "waiting" /\ origin[d] \in Origins /\ origin'[d] = origin[d]
    BY <1>1, <1>3
  <2>2. \E i \in DOMAIN waiters[origin[d]] : waiters[origin[d]][i] = d
    BY <2>1 DEF QueueFacts
  <2>3. CASE origin[d] = origin[c]
    BY <2>1, <2>2, <2>3, <1>1
  <2>4. CASE origin[d] # origin[c]
    BY <2>1, <2>2, <2>4, <1>1
  <2> QED BY <2>3, <2>4
<1> QED BY <1>2, <1>3 DEF QueueFacts

LEMMA ResumeQueue ==
    ASSUME IInv, QueueFacts, NEW c \in Checks, Resume(c)
    PROVE  QueueFacts'
<1> DEFINE q == waiters[origin[c]]
<1>1. /\ pc[c] = "waiting" /\ Head(q) = c /\ UNCHANGED origin
      /\ waiters' = [waiters EXCEPT ![origin[c]] = Tail(@)]
      /\ \E to \in {"decided", "loading"} : pc' = [pc EXCEPT ![c] = to]
  BY DEF Resume, Decide, Goto
<1> PICK to \in {"decided", "loading"} : pc' = [pc EXCEPT ![c] = to]
  BY <1>1
<1>2. origin[c] \in Origins /\ q \in Seq(Checks) /\ \E i \in DOMAIN q : q[i] = c
  BY <1>1 DEF IInv, LockFacts, QueueFacts
<1>3. waiters' = [waiters EXCEPT ![origin[c]] = Tail(q)]
  BY <1>1, <1>2 DEF QueueFacts
<1> HIDE DEF q
<1>4. /\ q # <<>> /\ Len(q) \in Nat /\ DOMAIN q = 1 .. Len(q) /\ q[1] = c
      /\ Tail(q) \in Seq(Checks) /\ DOMAIN Tail(q) = 1 .. Len(q) - 1
      /\ \A i \in 1 .. Len(q) - 1 : Tail(q)[i] = q[i + 1]
  BY <1>1, <1>2, HeadTailProperties, LenProperties
<1>5. ASSUME NEW d \in Checks \ {c}, NEW i \in DOMAIN q, q[i] = d
      PROVE  \E k \in DOMAIN Tail(q) : Tail(q)[k] = d
  <2>1. i - 1 \in 1 .. Len(q) - 1 /\ (i - 1) + 1 = i
    BY <1>4, <1>5
  <2> QED BY <2>1, <1>4, <1>5
<1>6. /\ waiters' = [waiters EXCEPT ![origin[c]] = Tail(q)]
      /\ \A d \in Checks \ {c} : (\E i \in DOMAIN q : q[i] = d) =>
            \E k \in DOMAIN Tail(q) : Tail(q)[k] = d
  BY <1>3, <1>5
<1>7. to \in Control \ {"waiting"}
  BY DEF Control, Final
<1>8. pc[c] = "waiting" /\ UNCHANGED origin /\ Tail(q) \in Seq(Checks)
  BY <1>1, <1>4
<1> USE DEF q
<1> QED BY <1>6, <1>7, <1>8, LeaveQueue

LEMMA CancelQueue ==
    ASSUME IInv, QueueFacts, NEW c \in Checks, Cancel(c)
    PROVE  QueueFacts'
<1>1. UNCHANGED origin /\ pc' = [pc EXCEPT ![c] = "cancelled"]
  BY DEF Cancel, Goto
<1>2. CASE pc[c] = "waiting"
  <2> DEFINE q == waiters[origin[c]]
  <2>1. origin[c] \in Origins /\ q \in Seq(Checks)
    BY <1>2 DEF IInv, LockFacts, QueueFacts
  <2>2. waiters' = [waiters EXCEPT ![origin[c]] = RemoveFirst(q, c)]
    BY <1>2, <2>1 DEF Cancel, QueueFacts
  <2>3. /\ RemoveFirst(q, c) \in Seq(Checks)
        /\ \A d \in Checks \ {c} : (\E i \in DOMAIN q : q[i] = d) =>
              \E i \in DOMAIN RemoveFirst(q, c) : RemoveFirst(q, c)[i] = d
    <3> HIDE DEF q
    <3> QED BY <2>1, RemoveFirstProperties
  <2>4. "cancelled" \in Control \ {"waiting"}
    BY DEF Control, Final
  <2> QED BY <1>1, <1>2, <2>2, <2>3, <2>4, LeaveQueue
<1>3. CASE pc[c] = "loading"
  <2>1. UNCHANGED waiters /\ pc \in [Checks -> Control]
    BY <1>3 DEF Cancel, IInv, ShapeFacts
  <2> QED BY <1>1, <2>1 DEF QueueFacts
<1> QED BY <1>2, <1>3 DEF Cancel

LEMMA LoadQueue ==
    ASSUME IInv, QueueFacts, NEW c \in Checks, Load(c) \/ LoadRaises(c)
    PROVE  QueueFacts'
<1>1. /\ UNCHANGED <<origin, waiters>> /\ pc \in [Checks -> Control]
      /\ \E to \in {"decided", "raised"} : pc' = [pc EXCEPT ![c] = to]
  BY DEF Load, LoadRaises, Decide, Goto, IInv, ShapeFacts
<1> QED BY <1>1 DEF QueueFacts

(* Every variable keeps its type, the queues included, from which checks   *)
(* are taken that are cancelled while they wait.                           *)
THEOREM TypeCorrect == Spec => []TypeOK
<1>1. Init => QueueFacts
  BY EmptySeq DEF Init, QueueFacts
<1>2. IInv /\ QueueFacts /\ [Next]_vars => QueueFacts'
  <2> SUFFICES ASSUME IInv, QueueFacts, [Next]_vars PROVE QueueFacts'
    OBVIOUS
  <2>1. CASE Done \/ UNCHANGED vars
    BY <2>1 DEF Done, vars, QueueFacts
  <2>2. ASSUME NEW c \in Checks, Check(c) \/ Progress(c) \/ Cancel(c) PROVE QueueFacts'
    BY <2>2, CheckQueue, ResumeQueue, LoadQueue, CancelQueue DEF Progress
  <2> QED
    BY <2>1, <2>2 DEF Next
<1>3. IInv /\ QueueFacts => TypeOK
  BY DEF IInv, ShapeFacts, QueueFacts, TypeOK
<1> QED
  BY <1>1, <1>2, <1>3, Invariance, PTL DEF Spec
=============================================================================
