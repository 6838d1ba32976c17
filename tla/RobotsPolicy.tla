---------------------------- MODULE RobotsPolicy -----------------------------
(***************************************************************************)
(* RobotsPolicy: one robots.txt policy per origin, loaded once and shared  *)
(* by every check of a crawl.  A check finds the policy in the cache, or   *)
(* takes the asyncio.Lock of the origin and looks again before it loads.   *)
(*                                                                         *)
(* The loader is a PageFetcher; of its outcomes only the difference        *)
(* matters that _load makes between them.  A policy is what it allows: the *)
(* content of the file at the time, or everything.                         *)
(***************************************************************************)
EXTENDS Naturals, Sequences, SequencesExt

CONSTANTS
    Checks,      \* calls of check
    Origins,
    Rules,       \* what a robots.txt file may say; it changes between loads
    AllowAll,    \* the policy User-agent: * / Allow: /
    NoPolicy, NoCheck, NoOrigin

ASSUME PolicyAssumption ==
    /\ AllowAll \notin Rules
    /\ NoPolicy \notin Rules \cup {AllowAll}
    /\ NoCheck \notin Checks
    /\ NoOrigin \notin Origins

VARIABLES
    pc,         \* where each check is
    origin,     \* the origin it asks about
    decision,   \* the policy it decided by
    policies,   \* RobotsPolicy._policies
    holder,     \* who holds the lock of an origin
    waiters     \* tasks queued at the lock of an origin, in order

vars == <<pc, origin, decision, policies, holder, waiters>>

Final == {"decided", "raised", "cancelled"}
Control == {"idle", "waiting", "loading"} \cup Final

Policies == Rules \cup {AllowAll}

Goto(c, to) == pc' = [pc EXCEPT ![c] = to]

Cached(o) == policies[o] # NoPolicy

LockFree(o) == holder[o] = NoCheck /\ waiters[o] = <<>>

Init ==
    /\ pc = [c \in Checks |-> "idle"]
    /\ origin = [c \in Checks |-> NoOrigin]
    /\ decision = [c \in Checks |-> NoPolicy]
    /\ policies = [o \in Origins |-> NoPolicy]
    /\ holder = [o \in Origins |-> NoCheck]
    /\ waiters = [o \in Origins |-> <<>>]

Decide(c, policy) ==
    /\ decision' = [decision EXCEPT ![c] = policy]
    /\ Goto(c, "decided")

(* Seeded bug: every check makes a lock of its own. *)
Check_OwnLock(c) ==
    /\ pc[c] = "idle"
    /\ \E o \in Origins :
          /\ origin' = [origin EXCEPT ![c] = o]
          /\ \/ Cached(o) /\ Decide(c, policies[o])
             \/ ~Cached(o) /\ Goto(c, "loading") /\ UNCHANGED decision
    /\ UNCHANGED <<policies, holder, waiters>>

(* A cached policy is used at once.  Otherwise a free lock is taken without*)
(* giving way to any other task, so the second look finds what the first   *)
(* did; a lock that is held or waited for is queued at.                    *)
Check(c) ==
    /\ pc[c] = "idle"
    /\ \E o \in Origins :
          /\ origin' = [origin EXCEPT ![c] = o]
          /\ \/ Cached(o) /\ Decide(c, policies[o]) /\ UNCHANGED <<holder, waiters>>
             \/ /\ ~Cached(o) /\ LockFree(o)
                /\ holder' = [holder EXCEPT ![o] = c]
                /\ Goto(c, "loading")
                /\ UNCHANGED <<decision, waiters>>
             \/ /\ ~Cached(o) /\ ~LockFree(o)
                /\ waiters' = [waiters EXCEPT ![o] = Append(@, c)]
                /\ Goto(c, "waiting")
                /\ UNCHANGED <<decision, holder>>
    /\ UNCHANGED policies

(* Seeded bug: no second look at the cache once the lock is held. *)
Resume_LoadsAgain(c) ==
    LET o == origin[c]
    IN  /\ pc[c] = "waiting"
        /\ holder[o] = NoCheck /\ Head(waiters[o]) = c
        /\ waiters' = [waiters EXCEPT ![o] = Tail(@)]
        /\ holder' = [holder EXCEPT ![o] = c]
        /\ Goto(c, "loading")
        /\ UNCHANGED <<origin, decision, policies>>

(* The first waiter gets a released lock and looks again; it releases the  *)
(* lock in the same step if somebody has loaded the policy meanwhile.      *)
Resume(c) ==
    LET o == origin[c]
    IN  /\ pc[c] = "waiting"
        /\ holder[o] = NoCheck /\ Head(waiters[o]) = c
        /\ waiters' = [waiters EXCEPT ![o] = Tail(@)]
        /\ \/ Cached(o) /\ Decide(c, policies[o]) /\ UNCHANGED holder
           \/ /\ ~Cached(o)
              /\ holder' = [holder EXCEPT ![o] = c]
              /\ Goto(c, "loading")
              /\ UNCHANGED decision
        /\ UNCHANGED <<origin, policies>>

Unlock(o) == holder' = [holder EXCEPT ![o] = NoCheck]

(* A 2xx answer with a text is parsed; any other status, a FetchError and  *)
(* a UrlNormalizationError allow everything, and are cached just the same. *)
Load(c) ==
    LET o == origin[c]
    IN  /\ pc[c] = "loading"
        /\ \E policy \in Policies :
              /\ policies' = [policies EXCEPT ![o] = policy]
              /\ Decide(c, policy)
        /\ Unlock(o)
        /\ UNCHANGED <<origin, waiters>>

(* Seeded bug: the lock is released by hand, after a load that returned. *)
LoadRaises_KeepsLock(c) ==
    /\ pc[c] = "loading"
    /\ Goto(c, "raised")
    /\ UNCHANGED <<origin, decision, policies, holder, waiters>>

(* Seeded bug: the exception is kept in place of a policy. *)
LoadRaises_CachesError(c) ==
    /\ pc[c] = "loading"
    /\ policies' = [policies EXCEPT ![origin[c]] = "error"]
    /\ Goto(c, "raised")
    /\ Unlock(origin[c])
    /\ UNCHANGED <<origin, decision, waiters>>

(* Any other exception of the fetcher leaves check; nothing is cached and  *)
(* the next waiter tries for itself.                                       *)
LoadRaises(c) ==
    /\ pc[c] = "loading"
    /\ Goto(c, "raised")
    /\ Unlock(origin[c])
    /\ UNCHANGED <<origin, decision, policies, waiters>>

Cancel(c) ==
    LET o == origin[c]
    IN  /\ Goto(c, "cancelled")
        /\ \/ /\ pc[c] = "waiting"
              /\ waiters' = [waiters EXCEPT ![o] = RemoveFirst(@, c)]
              /\ UNCHANGED holder
           \/ /\ pc[c] = "loading"
              /\ Unlock(o)
              /\ UNCHANGED waiters
        /\ UNCHANGED <<origin, decision, policies>>

-----------------------------------------------------------------------------
Progress(c) == Resume(c) \/ Load(c) \/ LoadRaises(c)

(* All checks have ended; stopping earlier is a deadlock. *)
Done == (\A c \in Checks : pc[c] \in Final) /\ UNCHANGED vars

Next == (\E c \in Checks : Check(c) \/ Progress(c) \/ Cancel(c)) \/ Done

Spec == Init /\ [][Next]_vars

(* The event loop runs a task that can run, and every fetch ends.          *)
FairSpec == Spec /\ \A c \in Checks : WF_vars(Progress(c))

-----------------------------------------------------------------------------
TypeOK ==
    /\ pc \in [Checks -> Control]
    /\ origin \in [Checks -> Origins \cup {NoOrigin}]
    /\ decision \in [Checks -> Policies \cup {NoPolicy}]
    /\ policies \in [Origins -> Policies \cup {NoPolicy}]
    /\ holder \in [Origins -> Checks \cup {NoCheck}]
    /\ waiters \in [Origins -> Seq(Checks)]

(* At most one request for the robots file of an origin is under way, and  *)
(* none once its policy is known.                                          *)
OneLoadPerOrigin ==
    /\ \A c, d \in Checks :
          pc[c] = "loading" /\ pc[d] = "loading" /\ origin[c] = origin[d] => c = d
    /\ \A c \in Checks : pc[c] = "loading" => ~Cached(origin[c])

(* All checks of an origin decide by one policy, whenever they ran and     *)
(* whichever of them was cancelled or failed in between.                   *)
DecisionsAgree ==
    \A c \in Checks : pc[c] = "decided" => decision[c] = policies[origin[c]]

(* Every check ends: a load that fails or is cancelled passes the lock on. *)
CheckEnds == \A c \in Checks : pc[c] # "idle" ~> pc[c] \in Final
=============================================================================
