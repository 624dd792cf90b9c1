----------------------------- MODULE RateLimiter -----------------------------
(***************************************************************************)
(* middleware.RateLimiter: a fixed window of requests per client, and the  *)
(* clean-up that forgets clients not seen for three minutes.               *)
(*                                                                         *)
(* Time is kept as ages, so that the clock needs no bound: a visitor holds *)
(* the time since its window began and since it was last seen, each        *)
(* counted up to the point where the code can no longer tell a difference. *)
(* The mutex is held for the whole of allow and of a clean-up.             *)
(***************************************************************************)
EXTENDS Integers

CONSTANTS
  Clients,  \* RemoteAddr values: the limiter runs before authentication
  limit,    \* DEFAULT_REQUEST_LIMIT, any integer
  window,   \* one minute
  idleTTL,  \* three minutes: cleanupEvery forgets older visitors
  MaxLag    \* bound: how old a tick of the clean-up's ticker may be when served

ASSUME LimiterAssumption ==
  /\ limit \in Int /\ window \in Nat /\ MaxLag \in Nat
  /\ idleTTL \in Nat /\ idleTTL >= window

NoVisitor == [count |-> 0, age |-> 0, idle |-> 0]

VARIABLES
  visitors,  \* RateLimiter.visitors, NoVisitor for a client it does not hold
  granted    \* history: how long ago each client's last requests were let
             \* through, newest first, as many as should not fit a window

limiterVars == <<visitors, granted>>

(* A new visitor is let in whatever the limit says. *)
quota == IF limit > 1 THEN limit ELSE 1

Last == 1 .. 2 * quota + 1

LimiterTypeOK ==
  /\ visitors \in [Clients -> [count : 0 .. quota, age : 0 .. window + 1,
                               idle : 0 .. idleTTL + MaxLag + 1]]
  /\ granted \in [Clients -> [Last -> 0 .. window + 1]]

LimiterInit ==
  /\ visitors = [c \in Clients |-> NoVisitor]
  /\ granted = [c \in Clients |-> [i \in Last |-> window + 1]]

(* A visitor the map holds has been counted at least once. *)
known(c) == visitors[c].count > 0

(* Slip: the request that makes the visitor is not counted. *)
FirstUncounted == [count |-> 0, age |-> 0, idle |-> 0]

FirstRequest == [count |-> 1, age |-> 0, idle |-> 0]

Grant(c) ==
  granted' = [granted EXCEPT ![c] = [i \in Last |-> IF i = 1 THEN 0 ELSE @[i - 1]]]

(* An unknown client, or one whose window is over, starts a new window. *)
AllowNewWindow(c) ==
  /\ ~known(c) \/ visitors[c].age > window
  /\ visitors' = [visitors EXCEPT ![c] = FirstRequest]
  /\ Grant(c)

AllowInWindow(c) ==
  /\ known(c) /\ visitors[c].age <= window
  /\ visitors[c].count < limit
  /\ visitors' = [visitors EXCEPT ![c].count = @ + 1, ![c].idle = 0]
  /\ Grant(c)

(* A refused client has been seen all the same. *)
Refuse(c) ==
  /\ known(c) /\ visitors[c].age <= window
  /\ visitors[c].count >= limit
  /\ visitors' = [visitors EXCEPT ![c].idle = 0]
  /\ UNCHANGED granted

(* Slip: the comparison is the wrong way round. *)
CleanupOfActive(lag) ==
  /\ visitors' = [c \in Clients |->
                    IF visitors[c].idle - lag < idleTTL THEN NoVisitor ELSE visitors[c]]
  /\ UNCHANGED granted

(* The ticker's time may lie behind: its channel holds one tick until the
   goroutine has the lock.                                                *)
Cleanup(lag) ==
  /\ visitors' = [c \in Clients |->
                    IF visitors[c].idle - lag > idleTTL THEN NoVisitor ELSE visitors[c]]
  /\ UNCHANGED granted

upTo(n, max) == IF n < max THEN n ELSE max

LimiterTick ==
  /\ visitors' = [c \in Clients |->
                    IF known(c)
                    THEN [visitors[c] EXCEPT !.age = upTo(@ + 1, window + 1),
                                             !.idle = upTo(@ + 1, idleTTL + MaxLag + 1)]
                    ELSE NoVisitor]
  /\ granted' = [c \in Clients |-> [i \in Last |-> upTo(granted[c][i] + 1, window + 1)]]

LimiterNext ==
  \/ LimiterTick
  \/ \E lag \in 0 .. MaxLag : Cleanup(lag)
  \/ \E c \in Clients : AllowNewWindow(c) \/ AllowInWindow(c) \/ Refuse(c)

LimiterSpec == LimiterInit /\ [][LimiterNext]_limiterVars

-----------------------------------------------------------------------------
(* Whatever its timing, a client never gets more than two quotas through
   within one window's length: a fixed window can be straddled, and the
   clean-up must not open a third.                                        *)
WithinTwoQuotas == \A c \in Clients : granted[c][2 * quota + 1] > window

(* Forgetting a visitor never hands out a quota early: its window was over. *)
ForgottenWindowsAreOver ==
  [][\A c \in Clients : known(c) /\ ~known(c)' => visitors[c].age > window]_limiterVars
=============================================================================
