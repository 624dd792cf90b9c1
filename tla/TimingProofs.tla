---------------------------- MODULE TimingProofs ----------------------------
(***************************************************************************)
(* Proofs about the two components that count time under a mutex, for any  *)
(* periods: CaptchaToken and RateLimiter.                                  *)
(*                                                                         *)
(* The token's invariant is about the mutex and three clocks, for any      *)
(* number of callers, any times and any number of retries.  Whoever asks   *)
(* the solver holds the mutex; the life of the kept token and the time     *)
(* since the last solve are two readings of one clock; and what the age of *)
(* a token that was sent gains, the time of its request loses.             *)
(*                                                                         *)
(* The limiter's clean-up goes by the time a visitor was last seen, its    *)
(* properties are about the time the visitor's window began.  What links   *)
(* them is that a visitor is never seen before its window begins: it is    *)
(* idle for no longer than its window is old, except that ages stop        *)
(* counting once the window is over.  That makes a window that is          *)
(* forgotten as good as one that has run out, and what was let through     *)
(* falls into two parts: the requests the visitor has counted, and older   *)
(* ones, of which only a quota can be recent.                              *)
(*                                                                         *)
(* At the end: who waits for the mutex waits for the solver, and a request *)
(* has only so many steps of its own.                                      *)
(***************************************************************************)
EXTENDS RateLimiter, CaptchaToken, TLAPS

(* resolveToken asks the solver with the mutex held, and lets go of it as soon
   as it has an answer.                                                   *)
SolverHoldsMutex ==
  \A c \in Callers : pc[c] \in {"create", "poll"} <=> holder = c

(* The token that is kept dies with the last solve's TokenLife. *)
NothingOutlives == lastSolve >= TokenLife => life = 0

(* The age a sent token can still reach while its request has time. *)
SentInTime ==
  \A c \in Callers : pc[c] = "send" /\ token[c] = "solved" => tokenAge[c] + left[c] < Horizon

TokenInv ==
  /\ TypeOK
  /\ SolverHoldsMutex
  /\ SolveServesEveryone
  /\ NothingOutlives
  /\ SentInTime

-----------------------------------------------------------------------------
(* The records of the six providers: what each sends without a token. *)
LEMMA SitesAreSites == \A s \in Sites : s.unsolved \in Tokens
  BY DEF Sites, Site, PBA, Misiones, Jujuy, Salta, Mendoza, LaMatanza, Tokens

(* The time that passes in Tick keeps the clocks in step. *)
LEMMA TickStep == TokenInv /\ Tick => TokenInv'
<1> SUFFICES ASSUME TokenInv, Tick PROVE TokenInv'
  OBVIOUS
<1> USE CaptchaAssumption DEF TokenInv
<1>1. TypeOK'
  BY DEF TypeOK, Tick, Horizon
<1>2. SolverHoldsMutex'
  BY DEF SolverHoldsMutex, Tick
<1>3. SolveServesEveryone' /\ NothingOutlives'
  BY DEF TypeOK, SolveServesEveryone, NothingOutlives, Tick, Horizon
<1>4. SentInTime'
  BY DEF TypeOK, SentInTime, Tick, Horizon
<1>5. QED
  BY <1>1, <1>2, <1>3, <1>4

(* The end of one call of Fetch, with an answer or to be tried again, touches
   neither the mutex nor the kept token.                                  *)
LEMMA EndStep ==
  ASSUME NEW c \in Callers, TokenInv,
         pc[c] \notin {"create", "poll"},
         Return(c) \/ FetchFailed(c), UNCHANGED <<site, lockVars, solveLeft>>
  PROVE  TokenInv'
<1> USE CaptchaAssumption DEF TokenInv
<1>1. TypeOK'
  <2>1. CASE Return(c)
    BY <2>1 DEF TypeOK, Return, Tokens, lockVars, Horizon
  <2>2. CASE FetchFailed(c) /\ ~ Return(c)
    <3>1. attempt[c] < retries /\ attempt' = [attempt EXCEPT ![c] = @ + 1]
      BY <2>2 DEF FetchFailed
    <3>2. attempt' \in [Callers -> 0 .. retries]
      BY <3>1 DEF TypeOK
    <3>3. QED
      BY <2>2, <3>2 DEF TypeOK, FetchFailed, FirstStep, Tokens, lockVars, Horizon
  <2>3. QED
    BY <2>1, <2>2
<1>2. SolverHoldsMutex'
  BY DEF TypeOK, SolverHoldsMutex, Return, FetchFailed, FirstStep, lockVars
<1>3. SolveServesEveryone' /\ NothingOutlives'
  BY DEF SolveServesEveryone, NothingOutlives, lockVars
<1>4. SentInTime'
  BY DEF TypeOK, SentInTime, Return, FetchFailed, FirstStep, Horizon
<1>5. QED
  BY <1>1, <1>2, <1>3, <1>4

(* A call that goes on to its next request, and leaves the mutex as it is. *)
LEMMA MoveStep ==
  ASSUME NEW c \in Callers, NEW label \in {"page", "token", "image"}, TokenInv,
         pc[c] \notin {"create", "poll"},
         pc' = [pc EXCEPT ![c] = label],
         own' \in [Callers -> BOOLEAN],
         \E t \in {left[c], CallLimit} : left' = [left EXCEPT ![c] = t],
         UNCHANGED <<site, lockVars, token, solveLeft, attempt, tokenAge>>
  PROVE  TokenInv'
<1> USE CaptchaAssumption DEF TokenInv
<1>1. TypeOK'
  BY DEF TypeOK, lockVars
<1>2. SolverHoldsMutex'
  BY DEF TypeOK, SolverHoldsMutex, lockVars
<1>3. SolveServesEveryone' /\ NothingOutlives'
  BY DEF SolveServesEveryone, NothingOutlives, lockVars
<1>4. SentInTime'
  BY DEF TypeOK, SentInTime, Horizon
<1>5. QED
  BY <1>1, <1>2, <1>3, <1>4

(* A request that goes out with a token, from a place without the mutex. *)
LEMMA SendStep ==
  ASSUME NEW c \in Callers, NEW t \in Tokens, NEW age \in 0 .. Horizon, TokenInv,
         pc[c] \notin {"create", "poll"}, t = "solved" => age < TokenLife,
         Send(c, t, age), UNCHANGED <<site, lockVars>>
  PROVE  TokenInv'
<1> USE CaptchaAssumption DEF TokenInv
<1>1. TypeOK'
  BY DEF TypeOK, Send, lockVars
<1>2. SolverHoldsMutex'
  BY DEF TypeOK, SolverHoldsMutex, Send, lockVars
<1>3. SolveServesEveryone' /\ NothingOutlives'
  BY DEF SolveServesEveryone, NothingOutlives, lockVars
<1>4. SentInTime'
  BY DEF TypeOK, SentInTime, Send, Horizon
<1>5. QED
  BY <1>1, <1>2, <1>3, <1>4

-----------------------------------------------------------------------------
(* resolveToken: who finds a token takes it, who finds none asks for one. *)
LEMMA ResolveStep == ASSUME NEW c \in Callers, TokenInv, Resolve(c) PROVE TokenInv'
<1> USE CaptchaAssumption
<1>1. CASE UseOwn(c)
  BY <1>1, SendStep DEF UseOwn, Tokens, Horizon
<1>2. CASE UseCached(c)
  <2>1. lastSolve < TokenLife /\ lastSolve \in 0 .. Horizon
    BY <1>2 DEF UseCached, TokenInv, TypeOK, NothingOutlives, Horizon
  <2>2. QED
    BY <1>2, <2>1, SendStep DEF UseCached, Locks, Tokens
<1>3. CASE NoSiteKey(c)
  <2>1. site.unsolved \in Tokens
    BY SitesAreSites DEF TokenInv, TypeOK
  <2>2. QED
    BY <1>3, <2>1, SendStep DEF NoSiteKey, Locks, Horizon
<1>4. CASE StartSolve(c)
  <2> USE DEF TokenInv
  <2>1. holder = None /\ life = 0 /\ pc[c] = "token"
    BY <1>4 DEF StartSolve, Locks
  <2>2. ~(lastSolve < TokenLife)
    BY <2>1 DEF SolveServesEveryone, TypeOK, Horizon
  <2>3. TypeOK'
    BY <1>4 DEF StartSolve, TypeOK
  <2>4. SolverHoldsMutex'
    BY <1>4, <2>1 DEF StartSolve, TypeOK, SolverHoldsMutex
  <2>5. SolveServesEveryone' /\ NothingOutlives'
    BY <1>4, <2>2 DEF StartSolve, SolveServesEveryone, NothingOutlives
  <2>6. SentInTime'
    BY <1>4 DEF StartSolve, TypeOK, SentInTime, Horizon
  <2>7. QED
    BY <2>3, <2>4, <2>5, <2>6
<1>5. QED
  BY <1>1, <1>2, <1>3, <1>4 DEF Resolve

(* The solver answers, or fails, the caller that has the mutex. *)
LEMMA SolveStep == ASSUME NEW c \in Callers, TokenInv, Solve(c) PROVE TokenInv'
<1> USE CaptchaAssumption DEF TokenInv
<1>1. holder = c /\ pc[c] \in {"create", "poll"}
  BY DEF Solve, TaskCreated, SolveReady, SolveFailed, SolverHoldsMutex
<1>2. ~(lastSolve < TokenLife)
  BY <1>1 DEF SolveServesEveryone
<1>3. CASE TaskCreated(c)
  <2>1. TypeOK'
    BY <1>3 DEF TaskCreated, TypeOK, lockVars
  <2>2. SolverHoldsMutex'
    BY <1>1, <1>3 DEF TaskCreated, TypeOK, SolverHoldsMutex, lockVars
  <2>3. SolveServesEveryone' /\ NothingOutlives'
    BY <1>3 DEF TaskCreated, SolveServesEveryone, NothingOutlives, lockVars
  <2>4. SentInTime'
    BY <1>3 DEF TaskCreated, TypeOK, SentInTime, Horizon
  <2>5. QED
    BY <2>1, <2>2, <2>3, <2>4
<1>4. CASE SolveReady(c)
  <2>1. TypeOK'
    BY <1>4 DEF SolveReady, Send, TypeOK, Tokens, Horizon
  <2>2. SolverHoldsMutex'
    BY <1>1, <1>4 DEF SolveReady, Send, TypeOK, SolverHoldsMutex
  <2>3. SolveServesEveryone' /\ NothingOutlives'
    BY <1>4 DEF SolveReady, SolveServesEveryone, NothingOutlives
  <2>4. SentInTime'
    BY <1>4 DEF SolveReady, Send, TypeOK, SentInTime, Horizon
  <2>5. QED
    BY <2>1, <2>2, <2>3, <2>4
<1>5. CASE SolveFailed(c)
  <2>1. site.unsolved \in Tokens
    BY SitesAreSites DEF TypeOK
  <2>2. TypeOK'
    BY <1>5, <2>1 DEF SolveFailed, Send, TypeOK, Horizon
  <2>3. SolverHoldsMutex'
    BY <1>1, <1>5 DEF SolveFailed, Send, TypeOK, SolverHoldsMutex
  <2>4. SolveServesEveryone' /\ NothingOutlives'
    BY <1>2, <1>5 DEF SolveFailed, SolveServesEveryone, NothingOutlives
  <2>5. SentInTime'
    BY <1>5 DEF SolveFailed, Send, TypeOK, SentInTime, Horizon
  <2>6. QED
    BY <2>2, <2>3, <2>4, <2>5
<1>6. QED
  BY <1>3, <1>4, <1>5 DEF Solve

(* The pages, La Matanza's image and the answer of the site. *)
LEMMA ExchangeStep == ASSUME NEW c \in Callers, TokenInv, Exchange(c) PROVE TokenInv'
<1> USE CaptchaAssumption
<1>1. own \in [Callers -> BOOLEAN] /\ left = [left EXCEPT ![c] = left[c]]
  BY DEF TokenInv, TypeOK
<1>2. CASE PageLoaded(c)
  BY <1>1, <1>2, MoveStep DEF PageLoaded
<1>3. CASE StartImage(c)
  BY <1>1, <1>3, MoveStep DEF StartImage
<1>4. CASE ImageReady(c)
  BY <1>4, SendStep DEF ImageReady, Tokens, Horizon
<1>5. CASE PageFailed(c) \/ ImageFailed(c) \/ SiteAnswers(c) \/ SiteFails(c)
  BY <1>5, EndStep DEF PageFailed, ImageFailed, SiteAnswers, SiteFails
<1>6. QED
  BY <1>2, <1>3, <1>4, <1>5 DEF Exchange

-----------------------------------------------------------------------------
(* Fetch, resolveToken and the solver: the whole inductive invariant. *)
THEOREM TokenInvHolds == Spec => []TokenInv
<1> USE CaptchaAssumption
<1>1. Init => TokenInv
  BY DEF Init, TokenInv, TypeOK, Tokens, SolverHoldsMutex, SolveServesEveryone,
         NothingOutlives, SentInTime, Horizon
<1>2. TokenInv /\ [Next]_vars => TokenInv'
  <2> SUFFICES ASSUME TokenInv, [Next]_vars PROVE TokenInv'
    OBVIOUS
  <2>1. CASE Tick
    BY <2>1, TickStep
  <2>2. ASSUME NEW c \in Callers, NEW t \in BOOLEAN, Fetch(c, t) PROVE TokenInv'
    <3>1. FirstStep \in {"page", "token", "image"}
      BY DEF FirstStep
    <3>2. own' \in [Callers -> BOOLEAN]
      BY <2>2 DEF Fetch, TokenInv, TypeOK
    <3>3. QED
      BY <2>2, <3>1, <3>2, MoveStep DEF Fetch
  <2>3. ASSUME NEW c \in Callers, Resolve(c) \/ Solve(c) \/ Exchange(c) PROVE TokenInv'
    BY <2>3, ResolveStep, SolveStep, ExchangeStep
  <2>4. CASE UNCHANGED vars
    BY <2>4 DEF vars, lockVars, TokenInv, TypeOK, SolverHoldsMutex,
                SolveServesEveryone, NothingOutlives, SentInTime
  <2>5. QED
    BY <2>1, <2>2, <2>3, <2>4 DEF Next
<1>3. QED
  BY <1>1, <1>2, PTL DEF Spec

(* resolveToken: a solve is there for whoever comes within TokenLife of it,
   whatever became of the request it was begun for.                       *)
THEOREM SolveIsShared == Spec => []SolveServesEveryone
<1>1. TokenInv => SolveServesEveryone
  BY DEF TokenInv
<1>2. QED
  BY <1>1, TokenInvHolds, PTL

(* resolveToken: however many callers queue for the mutex, no captcha is solved
   while a solved token lives.                                            *)
THEOREM OneSolvePerLife == Spec => SolvesAreSpaced
<1>1. TokenInv /\ [Next]_vars =>
        [\A c \in Callers : pc[c] = "poll" /\ token'[c] = "solved" => lastSolve >= TokenLife]_vars
  <2> SUFFICES ASSUME TokenInv, NEW c \in Callers, pc[c] = "poll"
               PROVE  lastSolve >= TokenLife
    OBVIOUS
  <2>1. holder = c /\ c # None
    BY CaptchaAssumption DEF TokenInv, SolverHoldsMutex
  <2>2. ~(lastSolve < TokenLife)
    BY <2>1 DEF TokenInv, SolveServesEveryone
  <2>3. QED
    BY <2>2, CaptchaAssumption DEF TokenInv, TypeOK, Horizon
<1>2. QED
  BY <1>1, TokenInvHolds, PTL DEF Spec, SolvesAreSpaced

(* Fetch: a solved token that reaches the site in time is younger than the life
   of a token and the time of a call together.                            *)
THEOREM TokensAreFresh == Spec => []SentTokenIsFresh
<1>1. TokenInv => SentTokenIsFresh
  BY CaptchaAssumption DEF TokenInv, TypeOK, SentInTime, SentTokenIsFresh, Horizon
<1>2. QED
  BY <1>1, TokenInvHolds, PTL

-----------------------------------------------------------------------------
(* The rate limiter                                                        *)

Visitors == [count : Nat, age : 0 .. window + 1, idle : 0 .. idleTTL + MaxLag + 1]

(* A visitor's window is over, or at least as old as its last request. *)
SeenInWindow(v) == v.age > window \/ v.idle <= v.age

LimiterInv ==
  /\ visitors \in [Clients -> Visitors]
  /\ \A c \in Clients : SeenInWindow(visitors[c])

-----------------------------------------------------------------------------
(* A window ages with its visitor. *)
LEMMA TickKeepsSeenInWindow ==
  ASSUME NEW v \in Visitors, SeenInWindow(v),
         NEW w, w = [v EXCEPT !.age = upTo(@ + 1, window + 1),
                              !.idle = upTo(@ + 1, idleTTL + MaxLag + 1)]
  PROVE  w \in Visitors /\ SeenInWindow(w)
<1>1. /\ v.age \in Nat /\ v.idle \in Nat /\ v.count \in Nat
      /\ v.age <= window + 1 /\ v.idle <= idleTTL + MaxLag + 1
  BY DEF Visitors
<1>2. /\ w = [count |-> v.count, age |-> w.age, idle |-> w.idle]
      /\ w.age = upTo(v.age + 1, window + 1)
      /\ w.idle = upTo(v.idle + 1, idleTTL + MaxLag + 1)
  BY DEF Visitors
<1>3. window \in Nat /\ idleTTL + MaxLag + 1 \in Nat
  BY LimiterAssumption DEF LimiterAssumption
<1>4. w.age \in 0 .. window + 1 /\ w.idle \in 0 .. idleTTL + MaxLag + 1
  BY <1>1, <1>2, <1>3 DEF upTo
<1>5. w \in Visitors
  BY <1>1, <1>2, <1>4 DEF Visitors
<1>6. w.age > window \/ w.idle <= w.age
  <2>1. CASE v.age >= window
    BY <2>1, <1>1, <1>2, <1>3 DEF upTo
  <2>2. CASE v.age < window
    <3>1. w.age = v.age + 1 /\ w.idle <= v.idle + 1
      BY <2>2, <1>1, <1>2, <1>3 DEF upTo
    <3>2. v.idle <= v.age
      BY <2>2, <1>1, <1>3 DEF SeenInWindow
    <3>. QED  BY <3>1, <3>2, <1>1, <1>4
  <2>. QED  BY <2>1, <2>2, <1>1, <1>3
<1>. QED  BY <1>5, <1>6 DEF SeenInWindow

LEMMA InitLimiter == LimiterInit => LimiterInv
  BY LimiterAssumption
  DEF LimiterAssumption, LimiterInit, LimiterInv, NoVisitor, Visitors, SeenInWindow

LEMMA NextLimiter == LimiterInv /\ [LimiterNext]_limiterVars => LimiterInv'
<1>. SUFFICES ASSUME LimiterInv, [LimiterNext]_limiterVars
              PROVE  LimiterInv'
  OBVIOUS
<1>new. NoVisitor \in Visitors /\ SeenInWindow(NoVisitor)
        /\ FirstRequest \in Visitors /\ SeenInWindow(FirstRequest)
  BY LimiterAssumption DEF LimiterAssumption, NoVisitor, FirstRequest, Visitors, SeenInWindow
<1>1. CASE LimiterTick
  <2>. SUFFICES ASSUME NEW c \in Clients
                PROVE  visitors'[c] \in Visitors /\ SeenInWindow(visitors'[c])
    BY <1>1 DEF LimiterTick, LimiterInv
  <2>1. CASE known(c)
    BY <2>1, <1>1, TickKeepsSeenInWindow DEF LimiterTick, LimiterInv
  <2>2. CASE ~known(c)
    BY <2>2, <1>1, <1>new DEF LimiterTick
  <2>. QED  BY <2>1, <2>2
<1>2. ASSUME NEW lag \in 0 .. MaxLag, Cleanup(lag)
      PROVE  LimiterInv'
  BY <1>2, <1>new DEF Cleanup, LimiterInv
<1>3. ASSUME NEW c \in Clients, AllowNewWindow(c)
      PROVE  LimiterInv'
  BY <1>3, <1>new DEF AllowNewWindow, LimiterInv
<1>4. ASSUME NEW c \in Clients, AllowInWindow(c)
      PROVE  LimiterInv'
  <2>1. visitors' = [visitors EXCEPT ![c].count = @ + 1, ![c].idle = 0]
    BY <1>4 DEF AllowInWindow
  <2>2. visitors[c].count \in Nat /\ visitors[c].age \in Nat
    BY DEF LimiterInv, Visitors
  <2>3. visitors'[c] = [count |-> visitors[c].count + 1, age |-> visitors[c].age,
                        idle |-> 0]
    BY <2>1 DEF LimiterInv, Visitors
  <2>4. visitors'[c] \in Visitors /\ SeenInWindow(visitors'[c])
    BY <2>2, <2>3, LimiterAssumption
    DEF LimiterAssumption, LimiterInv, Visitors, SeenInWindow
  <2>. QED  BY <2>1, <2>4 DEF LimiterInv
<1>5. ASSUME NEW c \in Clients, Refuse(c)
      PROVE  LimiterInv'
  <2>1. visitors' = [visitors EXCEPT ![c].idle = 0]
    BY <1>5 DEF Refuse
  <2>2. visitors'[c] \in Visitors /\ SeenInWindow(visitors'[c])
    BY <2>1, LimiterAssumption DEF LimiterAssumption, LimiterInv, Visitors, SeenInWindow
  <2>. QED  BY <2>1, <2>2 DEF LimiterInv
<1>6. CASE UNCHANGED limiterVars
  BY <1>6 DEF limiterVars, LimiterInv
<1>. QED  BY <1>1, <1>2, <1>3, <1>4, <1>5, <1>6 DEF LimiterNext

-----------------------------------------------------------------------------
(* Who was not seen for longer than the idle time, whose window is over. *)
LEMMA IdleWindowsAreOver ==
  ASSUME LimiterInv, NEW c \in Clients, NEW lag \in 0 .. MaxLag,
         visitors[c].idle - lag > idleTTL
  PROVE  visitors[c].age > window
<1>1. visitors[c].idle \in Nat /\ visitors[c].age \in Nat
  BY DEF LimiterInv, Visitors
<1>2. visitors[c].idle > window
  BY <1>1, LimiterAssumption DEF LimiterAssumption
<1>. QED  BY <1>1, <1>2, LimiterAssumption
          DEF LimiterInv, SeenInWindow, LimiterAssumption

(* Only the clean-up takes a visitor out, and only one that was not seen for
   longer than a window takes.                                            *)
LEMMA OnlyOldWindowsAreForgotten ==
  ASSUME LimiterInv, [LimiterNext]_limiterVars, NEW c \in Clients, known(c), ~known(c)'
  PROVE  visitors[c].age > window
<1>type. /\ visitors[c].count \in Nat /\ visitors[c].age \in Nat
         /\ visitors[c].idle \in Nat
  BY DEF LimiterInv, Visitors
<1>1. CASE LimiterTick
  <2>1. visitors'[c].count = visitors[c].count
    BY <1>1 DEF LimiterTick, LimiterInv, Visitors
  <2>. QED  BY <2>1 DEF known
<1>2. ASSUME NEW lag \in 0 .. MaxLag, Cleanup(lag)
      PROVE  visitors[c].age > window
  <2>1. visitors[c].idle - lag > idleTTL
    BY <1>2 DEF Cleanup, known
  <2>. QED  BY <2>1, IdleWindowsAreOver
<1>3. ASSUME NEW d \in Clients, AllowNewWindow(d)
      PROVE  FALSE
  BY <1>3 DEF AllowNewWindow, FirstRequest, known, LimiterInv
<1>4. ASSUME NEW d \in Clients, AllowInWindow(d)
      PROVE  FALSE
  <2>1. visitors'[c].count \in {visitors[c].count, visitors[c].count + 1}
    BY <1>4 DEF AllowInWindow, LimiterInv, Visitors
  <2>. QED  BY <2>1, <1>type DEF known
<1>5. ASSUME NEW d \in Clients, Refuse(d)
      PROVE  FALSE
  <2>1. visitors'[c].count = visitors[c].count
    BY <1>5 DEF Refuse, LimiterInv, Visitors
  <2>. QED  BY <2>1 DEF known
<1>6. CASE UNCHANGED limiterVars
  BY <1>6 DEF limiterVars, known
<1>. QED  BY <1>1, <1>2, <1>3, <1>4, <1>5, <1>6 DEF LimiterNext

-----------------------------------------------------------------------------
(* How the requests that were let through lie in time: a visitor has counted the requests of its window, quota at most.  Those
   before them were let through before the window began, and a whole quota
   further back longer than a window ago.  An unknown client has counted
   none.                                                                  *)
GrantsOf(v, g) ==
  /\ v.count <= quota
  /\ \A i \in Last : /\ i > v.count => g[i] >= v.age
                     /\ i > v.count + quota => g[i] > window

GrantsInv ==
  /\ granted \in [Clients -> [Last -> 0 .. window + 1]]
  /\ \A c \in Clients : GrantsOf(visitors[c], granted[c])

Granted(g) == [i \in Last |-> IF i = 1 THEN 0 ELSE g[i - 1]]

LEMMA QuotaIsPositive == quota \in Nat /\ quota >= 1 /\ Last \subseteq Nat
  BY LimiterAssumption DEF LimiterAssumption, quota, Last

LEMMA GrantIsTyped ==
  ASSUME NEW g \in [Last -> 0 .. window + 1]
  PROVE  Granted(g) \in [Last -> 0 .. window + 1]
<1>1. ASSUME NEW i \in Last, i # 1
      PROVE  i - 1 \in Last
  BY <1>1, QuotaIsPositive DEF Last
<1>2. window \in Nat
  BY LimiterAssumption DEF LimiterAssumption
<1>3. \A i \in Last : (IF i = 1 THEN 0 ELSE g[i - 1]) \in 0 .. window + 1
  BY <1>1, <1>2
<1> QED  BY <1>3 DEF Granted

(* A window that is opened: what was let through before lies more than a
   quota back, because no window was open or the one that was is over.     *)
LEMMA GrantInNewWindow ==
  ASSUME NEW v \in Visitors, NEW g \in [Last -> 0 .. window + 1], GrantsOf(v, g),
         v.count = 0 \/ v.age > window
  PROVE  GrantsOf(FirstRequest, Granted(g))
<1>type. v.count \in Nat /\ v.age \in Nat /\ window \in Nat /\ \A i \in Last : g[i] \in Int
  BY LimiterAssumption DEF LimiterAssumption, Visitors
<1>1. \A i \in Last : i > quota => g[i] > window
  BY <1>type, QuotaIsPositive DEF GrantsOf
<1>2. ASSUME NEW i \in Last, i > 1 + quota
      PROVE  Granted(g)[i] > window
  <2>1. i # 1 /\ i - 1 \in Last /\ i - 1 > quota
    BY <1>2, QuotaIsPositive DEF Last
  <2> QED  BY <1>1, <2>1 DEF Granted
<1>3. \A i \in Last : Granted(g)[i] \in Int /\ Granted(g)[i] >= 0
  BY GrantIsTyped, <1>type
<1> QED  BY <1>2, <1>3, QuotaIsPositive DEF GrantsOf, FirstRequest

(* A request in the window: one more is counted, and every other one lies one
   further back.                                                          *)
LEMMA GrantInWindow ==
  ASSUME NEW v \in Visitors, NEW g \in [Last -> 0 .. window + 1], GrantsOf(v, g),
         0 < v.count, v.count < limit,
         NEW w, w.count = v.count + 1, w.age = v.age
  PROVE  GrantsOf(w, Granted(g))
<1>type. v.count \in Nat /\ v.age \in Nat
  BY DEF Visitors
<1>1. w.count <= quota
  BY <1>type, LimiterAssumption DEF LimiterAssumption, quota
<1>2. ASSUME NEW i \in Last, i > w.count
      PROVE  /\ i # 1 /\ i - 1 \in Last /\ i - 1 > v.count
             /\ Granted(g)[i] = g[i - 1]
             /\ i > w.count + quota => i - 1 > v.count + quota
  <2>1. i # 1 /\ i - 1 \in Last /\ i - 1 > v.count
    BY <1>2, <1>type, QuotaIsPositive DEF Last
  <2>2. i > w.count + quota => i - 1 > v.count + quota
    BY <1>type, QuotaIsPositive
  <2> QED  BY <2>1, <2>2 DEF Granted
<1>3. \A i \in Last : i > w.count + quota => i > w.count
  BY <1>type, QuotaIsPositive
<1> QED  BY <1>1, <1>2, <1>3 DEF GrantsOf

(* Time makes what was let through older at least as fast as the window. *)
LEMMA GrantsAge ==
  ASSUME NEW v \in Visitors, NEW g \in [Last -> 0 .. window + 1], GrantsOf(v, g),
         NEW w, w.count = v.count, w.age = upTo(v.age + 1, window + 1) \/ w.age = 0,
         NEW h, h = [i \in Last |-> upTo(g[i] + 1, window + 1)]
  PROVE  h \in [Last -> 0 .. window + 1] /\ GrantsOf(w, h)
<1>type. /\ v.count \in Nat /\ v.age \in Nat /\ window \in Nat
         /\ \A i \in Last : g[i] \in 0 .. window + 1
  BY LimiterAssumption DEF LimiterAssumption, Visitors
<1>1. ASSUME NEW i \in Last
      PROVE  /\ h[i] = upTo(g[i] + 1, window + 1) /\ h[i] \in 0 .. window + 1
             /\ g[i] >= v.age => h[i] >= w.age
             /\ g[i] > window => h[i] > window
  BY <1>type DEF upTo
<1> QED  BY <1>1 DEF GrantsOf

LEMMA NextGrants ==
  ASSUME LimiterInv, GrantsInv, [LimiterNext]_limiterVars
  PROVE  GrantsInv'
<1>type. /\ visitors \in [Clients -> Visitors]
         /\ granted \in [Clients -> [Last -> 0 .. window + 1]]
  BY DEF LimiterInv, GrantsInv
<1>none. ASSUME NEW g \in [Last -> 0 .. window + 1], \A i \in Last : i > quota => g[i] > window
         PROVE  GrantsOf(NoVisitor, g)
  <2>1. \A i \in Last : g[i] \in Int /\ g[i] >= 0
    BY LimiterAssumption DEF LimiterAssumption
  <2> QED  BY <1>none, <2>1, QuotaIsPositive DEF GrantsOf, NoVisitor
<1>1. CASE LimiterTick
  <2> SUFFICES ASSUME NEW c \in Clients
               PROVE  /\ granted'[c] \in [Last -> 0 .. window + 1]
                      /\ GrantsOf(visitors'[c], granted'[c])
    BY <1>1 DEF LimiterTick, GrantsInv
  <2> DEFINE v == visitors[c]
             w == visitors'[c]
  <2>1. granted'[c] = [i \in Last |-> upTo(granted[c][i] + 1, window + 1)]
    BY <1>1 DEF LimiterTick
  <2>2. v \in Visitors /\ granted[c] \in [Last -> 0 .. window + 1] /\ GrantsOf(v, granted[c])
    BY <1>type DEF GrantsInv
  <2>3. w.count = v.count /\ (w.age = upTo(v.age + 1, window + 1) \/ w.age = 0)
    <3>1. CASE known(c)
      BY <1>1, <2>2, <3>1 DEF LimiterTick, Visitors
    <3>2. CASE ~ known(c)
      <4>1. w = NoVisitor
        BY <1>1, <3>2 DEF LimiterTick
      <4>2. v.count = 0
        BY <2>2, <3>2 DEF known, Visitors
      <4> QED  BY <4>1, <4>2 DEF NoVisitor
    <3> QED  BY <3>1, <3>2
  <2> HIDE DEF v, w
  <2> QED  BY <2>1, <2>2, <2>3, GrantsAge DEF w
<1>2. ASSUME NEW lag \in 0 .. MaxLag, Cleanup(lag)
      PROVE  GrantsInv'
  <2> SUFFICES ASSUME NEW c \in Clients
               PROVE  GrantsOf(visitors'[c], granted[c])
    BY <1>2, <1>type DEF Cleanup, GrantsInv
  <2>1. CASE visitors'[c] = visitors[c]
    BY <2>1 DEF GrantsInv
  <2>2. CASE visitors'[c] # visitors[c]
    <3>1. visitors'[c] = NoVisitor /\ visitors[c].idle - lag > idleTTL
      BY <1>2, <2>2 DEF Cleanup
    <3>2. visitors[c].age > window
      BY <3>1, IdleWindowsAreOver
    <3>3. GrantsOf(visitors[c], granted[c])
      BY DEF GrantsInv
    <3>4. \A i \in Last : i > quota => granted[c][i] > window
      BY <3>2, <3>3, <1>type, QuotaIsPositive, LimiterAssumption
         DEF GrantsOf, Visitors, LimiterAssumption
    <3> QED  BY <1>none, <1>type, <3>1, <3>4
  <2> QED  BY <2>1, <2>2
<1>3. ASSUME NEW c \in Clients, AllowNewWindow(c)
      PROVE  GrantsInv'
  <2>1. /\ visitors' = [visitors EXCEPT ![c] = FirstRequest]
        /\ granted' = [granted EXCEPT ![c] = Granted(granted[c])]
        /\ visitors[c].count = 0 \/ visitors[c].age > window
    BY <1>3, <1>type DEF AllowNewWindow, Grant, Granted, known, Visitors
  <2>2. /\ GrantsOf(FirstRequest, Granted(granted[c]))
        /\ Granted(granted[c]) \in [Last -> 0 .. window + 1]
    BY <2>1, <1>type, GrantInNewWindow, GrantIsTyped DEF GrantsInv
  <2> QED  BY <2>1, <2>2, <1>type DEF GrantsInv
<1>4. ASSUME NEW c \in Clients, AllowInWindow(c)
      PROVE  GrantsInv'
  <2>1. /\ visitors' = [visitors EXCEPT ![c].count = @ + 1, ![c].idle = 0]
        /\ granted' = [granted EXCEPT ![c] = Granted(granted[c])]
        /\ 0 < visitors[c].count /\ visitors[c].count < limit
    BY <1>4, <1>type DEF AllowInWindow, Grant, Granted, known, Visitors
  <2>2. visitors'[c].count = visitors[c].count + 1 /\ visitors'[c].age = visitors[c].age
    BY <2>1, <1>type DEF Visitors
  <2>3. /\ GrantsOf(visitors'[c], Granted(granted[c]))
        /\ Granted(granted[c]) \in [Last -> 0 .. window + 1]
    BY <2>1, <2>2, <1>type, GrantInWindow, GrantIsTyped DEF GrantsInv
  <2> QED  BY <2>1, <2>3, <1>type DEF GrantsInv
<1>5. ASSUME NEW c \in Clients, Refuse(c)
      PROVE  GrantsInv'
  <2>1. /\ visitors' = [visitors EXCEPT ![c].idle = 0] /\ granted' = granted
    BY <1>5 DEF Refuse
  <2>2. visitors'[c].count = visitors[c].count /\ visitors'[c].age = visitors[c].age
    BY <2>1, <1>type DEF Visitors
  <2>3. \A d \in Clients : GrantsOf(visitors'[d], granted[d])
    BY <2>1, <2>2, <1>type DEF GrantsInv, GrantsOf
  <2> QED  BY <2>1, <2>3, <1>type DEF GrantsInv
<1>6. CASE UNCHANGED limiterVars
  BY <1>6 DEF limiterVars, GrantsInv
<1> QED  BY <1>1, <1>2, <1>3, <1>4, <1>5, <1>6 DEF LimiterNext

LEMMA InitGrants == LimiterInit => GrantsInv
<1> SUFFICES ASSUME LimiterInit
             PROVE  GrantsInv
  OBVIOUS
<1>1. window \in Nat
  BY LimiterAssumption DEF LimiterAssumption
<1>2. granted \in [Clients -> [Last -> 0 .. window + 1]]
  BY <1>1 DEF LimiterInit
<1>3. ASSUME NEW c \in Clients
      PROVE  GrantsOf(visitors[c], granted[c])
  <2>1. visitors[c].count = 0 /\ visitors[c].age = 0
    BY DEF LimiterInit, NoVisitor
  <2>2. \A i \in Last : granted[c][i] = window + 1
    BY DEF LimiterInit
  <2>3. window + 1 >= 0 /\ window + 1 > window /\ 0 <= quota
    BY <1>1, QuotaIsPositive
  <2> QED  BY <2>1, <2>2, <2>3 DEF GrantsOf
<1> QED  BY <1>2, <1>3 DEF GrantsInv

-----------------------------------------------------------------------------
(* A visitor is seen in its window, and LimiterInv with it. *)
THEOREM LimiterInvHolds == LimiterSpec => []LimiterInv
  BY InitLimiter, NextLimiter, PTL DEF LimiterSpec

(* How the requests let through lie in time, for as long as the limiter runs. *)
THEOREM GrantsInvHolds == LimiterSpec => []GrantsInv
  BY InitGrants, NextGrants, LimiterInvHolds, PTL DEF LimiterSpec

(* RateLimiter.visitors: no count passes the quota, whatever the limit is set
   to, and no age leaves the range in which the code can tell ages apart.  *)
THEOREM LimiterTypes == LimiterSpec => []LimiterTypeOK
<1>1. LimiterInv /\ GrantsInv => LimiterTypeOK
  <2> SUFFICES ASSUME LimiterInv, GrantsInv, NEW c \in Clients
               PROVE  visitors[c] \in [count : 0 .. quota, age : 0 .. window + 1,
                                       idle : 0 .. idleTTL + MaxLag + 1]
    BY DEF LimiterTypeOK, LimiterInv, GrantsInv
  <2>1. visitors[c] \in Visitors /\ visitors[c].count <= quota
    BY DEF LimiterInv, GrantsInv, GrantsOf
  <2> QED  BY <2>1, QuotaIsPositive DEF Visitors
<1> QED  BY <1>1, LimiterInvHolds, GrantsInvHolds, PTL

(* The clean-up of middleware.RateLimiter never hands out a quota early: for
   any limit, any window, any idle time that is not shorter, and ticks as
   late as they may be, the window it forgets was over.                   *)
THEOREM ForgettingIsFree == LimiterSpec => ForgottenWindowsAreOver
<1>1. LimiterInv /\ [LimiterNext]_limiterVars =>
        [\A c \in Clients : known(c) /\ ~known(c)' => visitors[c].age > window]_limiterVars
  BY OnlyOldWindowsAreForgotten
<1>. QED  BY <1>1, LimiterInvHolds, PTL DEF LimiterSpec, ForgottenWindowsAreOver

(* Whatever the limit, the window and the moments of its requests and of the
   clean-up, a client never gets more than two quotas through within one
   window's length.                                                       *)
THEOREM TwoQuotasAtMost == LimiterSpec => []WithinTwoQuotas
<1>1. LimiterInv /\ GrantsInv => WithinTwoQuotas
  <2> SUFFICES ASSUME LimiterInv, GrantsInv, NEW c \in Clients
               PROVE  granted[c][2 * quota + 1] > window
    BY DEF WithinTwoQuotas
  <2>1. 2 * quota + 1 \in Last /\ visitors[c].count \in Nat
    BY QuotaIsPositive DEF Last, LimiterInv, Visitors
  <2>2. GrantsOf(visitors[c], granted[c])
    BY DEF GrantsInv
  <2>3. 2 * quota + 1 > visitors[c].count + quota
    BY <2>1, <2>2, QuotaIsPositive DEF GrantsOf
  <2> QED  BY <2>1, <2>2, <2>3 DEF GrantsOf
<1> QED  BY <1>1, LimiterInvHolds, GrantsInvHolds, PTL

-----------------------------------------------------------------------------
(* Requests end                                                            *)

(* Who waits for the mutex waits for a caller at the solver, which waits for
   nobody.                                                                *)
MutexIsLetGo ==
  \A c \in Callers : pc[c] = "token" /\ ~ own[c] /\ holder # None =>
    holder \in Callers /\ pc[holder] \in {"create", "poll"}

(* The steps a request has left, at most: those of its call, and of the calls
   that the router may still make.                                        *)
stepsLeft(c) ==
  LET calls == 6 * (retries - attempt[c])
  IN  CASE pc[c] = "idle"   -> 0
        [] pc[c] = "page"   -> calls + 5
        [] pc[c] = "token"  -> calls + 4
        [] pc[c] = "create" -> calls + 3
        [] pc[c] \in {"poll", "image"} -> calls + 2
        [] pc[c] = "send"   -> calls + 1

(* Solved or not, answered or tried again, a request gets shorter with every
   step of its own, and no step of another one moves it.                  *)
FetchesGetShorter ==
  [][\A c \in Callers : pc[c] # "idle" =>
       UNCHANGED <<pc[c], attempt[c]>> \/ stepsLeft(c)' < stepsLeft(c)]_vars

(* A call that ends ends the request or is one less to come. *)
LEMMA EndGetsShorter ==
  ASSUME TypeOK, NEW c \in Callers, pc[c] # "idle", Return(c) \/ FetchFailed(c)
  PROVE  /\ stepsLeft(c)' < stepsLeft(c)
         /\ \A d \in Callers \ {c} : UNCHANGED <<pc[d], attempt[d]>>
<1>1. /\ pc \in [Callers -> {"idle", "page", "token", "create", "poll", "image", "send"}]
      /\ attempt \in [Callers -> 0 .. retries] /\ retries \in Nat
  BY CaptchaAssumption DEF TypeOK
<1>2. stepsLeft(c) > 6 * (retries - attempt[c]) /\ stepsLeft(c) \in Nat
  BY <1>1 DEF stepsLeft
<1>3. attempt[c] \in 0 .. retries
  BY <1>1
<1>4. CASE Return(c)
  <2>1. pc' = [pc EXCEPT ![c] = "idle"] /\ attempt' = [attempt EXCEPT ![c] = 0]
    BY <1>4 DEF Return
  <2>2. stepsLeft(c)' = 0
    BY <1>1, <2>1 DEF stepsLeft
  <2>3. stepsLeft(c) > 0
    BY <1>1, <1>2, <1>3
  <2> QED  BY <1>1, <2>1, <2>2, <2>3
<1>5. CASE FetchFailed(c) /\ ~ Return(c)
  <2>1. /\ attempt[c] < retries /\ attempt' = [attempt EXCEPT ![c] = @ + 1]
        /\ pc' = [pc EXCEPT ![c] = "page"] \/ pc' = [pc EXCEPT ![c] = "token"]
    BY <1>5 DEF FetchFailed, FirstStep
  <2>2. stepsLeft(c)' <= 6 * (retries - (attempt[c] + 1)) + 5
    BY <1>1, <2>1 DEF stepsLeft
  <2>3. stepsLeft(c)' \in Int
    BY <1>1, <2>1 DEF stepsLeft
  <2>4. stepsLeft(c)' < stepsLeft(c)
    BY <1>1, <1>2, <1>3, <2>2, <2>3
  <2> QED  BY <1>1, <2>1, <2>4
<1> QED  BY <1>4, <1>5

(* So does every other step. *)
LEMMA StepGetsShorter ==
  ASSUME TypeOK, NEW c \in Callers, Resolve(c) \/ Solve(c) \/ Exchange(c)
  PROVE  /\ stepsLeft(c)' < stepsLeft(c)
         /\ \A d \in Callers \ {c} : UNCHANGED <<pc[d], attempt[d]>>
<1>1. /\ pc \in [Callers -> {"idle", "page", "token", "create", "poll", "image", "send"}]
      /\ attempt \in [Callers -> 0 .. retries] /\ retries \in Nat
  BY CaptchaAssumption DEF TypeOK
<1>2. CASE Resolve(c) \/ SolveReady(c) \/ SolveFailed(c) \/ ImageReady(c)
  <2>1. CASE StartSolve(c)
    <3>1. /\ pc[c] = "token" /\ UNCHANGED attempt
          /\ pc' = [pc EXCEPT ![c] = "create"]
      BY <2>1 DEF StartSolve, Locks
    <3> QED  BY <1>1, <3>1 DEF stepsLeft
  <2>2. CASE ~ StartSolve(c)
    <3>1. /\ pc[c] \in {"token", "create", "poll", "image"}
          /\ UNCHANGED attempt
          /\ pc' = [pc EXCEPT ![c] = "send"]
      BY <1>2, <2>2
         DEF Resolve, UseOwn, UseCached, NoSiteKey, SolveReady, SolveFailed, ImageReady, Send, Locks
    <3> QED  BY <1>1, <3>1 DEF stepsLeft
  <2> QED  BY <2>1, <2>2
<1>3. CASE PageLoaded(c)
  <2>1. pc[c] = "page" /\ pc' = [pc EXCEPT ![c] = "token"] /\ UNCHANGED attempt
    BY <1>3 DEF PageLoaded
  <2> QED  BY <1>1, <2>1 DEF stepsLeft
<1>4. CASE TaskCreated(c)
  <2>1. pc[c] = "create" /\ pc' = [pc EXCEPT ![c] = "poll"] /\ UNCHANGED attempt
    BY <1>4 DEF TaskCreated
  <2> QED  BY <1>1, <2>1 DEF stepsLeft
<1>5. CASE StartImage(c)
  <2>1. pc[c] = "token" /\ pc' = [pc EXCEPT ![c] = "image"] /\ UNCHANGED attempt
    BY <1>5 DEF StartImage
  <2> QED  BY <1>1, <2>1 DEF stepsLeft
<1>6. CASE PageFailed(c) \/ ImageFailed(c) \/ SiteAnswers(c) \/ SiteFails(c)
  <2>1. pc[c] # "idle" /\ (Return(c) \/ FetchFailed(c))
    BY <1>6 DEF PageFailed, ImageFailed, SiteAnswers, SiteFails
  <2> QED  BY <2>1, EndGetsShorter
<1> QED  BY <1>2, <1>3, <1>4, <1>5, <1>6 DEF Solve, Exchange

(* resolveToken: the mutex is waited for only while its holder is at the solver,
   which has a time limit.                                                *)
THEOREM MutexIsReleased == Spec => []MutexIsLetGo
<1>1. TokenInv => MutexIsLetGo
  BY DEF TokenInv, TypeOK, SolverHoldsMutex, MutexIsLetGo
<1> QED  BY <1>1, TokenInvHolds, PTL

(* The safety half of FetchReturns: a request has at most 6 * retries + 5 steps of
   its own, however often it waits for the mutex, a solve or the site.    *)
THEOREM FetchesEnd == Spec => FetchesGetShorter
<1>1. TokenInv /\ [Next]_vars =>
        [\A c \in Callers : pc[c] # "idle" =>
           UNCHANGED <<pc[c], attempt[c]>> \/ stepsLeft(c)' < stepsLeft(c)]_vars
  <2> SUFFICES ASSUME TokenInv, [Next]_vars, NEW c \in Callers, pc[c] # "idle"
               PROVE  UNCHANGED <<pc[c], attempt[c]>> \/ stepsLeft(c)' < stepsLeft(c)
    OBVIOUS
  <2>1. TypeOK
    BY DEF TokenInv
  <2>2. ASSUME NEW d \in Callers, Resolve(d) \/ Solve(d) \/ Exchange(d)
        PROVE  UNCHANGED <<pc[c], attempt[c]>> \/ stepsLeft(c)' < stepsLeft(c)
    BY <2>1, <2>2, StepGetsShorter
  <2>3. ASSUME NEW d \in Callers, NEW t \in BOOLEAN, Fetch(d, t)
        PROVE  UNCHANGED <<pc[c], attempt[c]>>
    BY <2>1, <2>3 DEF Fetch, TypeOK
  <2>4. CASE Tick \/ UNCHANGED vars
    BY <2>4 DEF Tick, vars
  <2> QED  BY <2>2, <2>3, <2>4 DEF Next
<1> QED  BY <1>1, TokenInvHolds, PTL DEF Spec, FetchesGetShorter
=============================================================================
