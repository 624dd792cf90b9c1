---------------------------- MODULE CaptchaToken ----------------------------
(***************************************************************************)
(* The providers whose sites ask for a captcha: PBA, Misiones, Jujuy,      *)
(* Salta, Mendoza and La Matanza, and the solver they pay for it.  The     *)
(* first five keep one solved token for a while, under a mutex that is     *)
(* held while a new one is being solved.  A solve may take far longer than *)
(* the call that asked for it is given, and resolveToken does not look at  *)
(* that call's context.  La Matanza's captcha is an image, solved for each *)
(* call and within it.                                                     *)
(*                                                                         *)
(* A provider has its own token and mutex, so one provider is modelled;    *)
(* which one, the initial state chooses.  The router calls Fetch again when *)
(* it fails, but all its calls of one request share one context.           *)
(***************************************************************************)
EXTENDS Integers

CONSTANTS
  Callers,     \* requests that use the provider
  CallLimit,   \* the router's timeout for one provider (30 s)
  TokenLife,   \* how long a solved token is kept (90 s)
  SolveLimit,  \* the timeout of one solve (120 s)
  retries,     \* calls after the first one (2)
  None

ASSUME CaptchaAssumption ==
  /\ CallLimit \in Nat \ {0} /\ TokenLife \in Nat \ {0} /\ SolveLimit \in Nat \ {0}
  /\ retries \in Nat
  /\ None \notin Callers

VARIABLES
  site,      \* the provider
  life,      \* time until tokenExpiry of cachedToken, 0 when there is none
  holder,    \* who holds mu
  pc,        \* where each call of Fetch is
  own,       \* whether the request brought a token of its own
  token,     \* the token the call has in hand
  left,      \* time until the context of the request is done, 0 when it is
  solveLeft, \* time until the context of the caller's solve is done
  attempt,   \* calls already made for this request
  tokenAge,  \* history: since when the token in hand has been solved
  lastSolve  \* history: time since a solve succeeded, up to Horizon

lockVars == <<life, holder, lastSolve>>
vars == <<site, lockVars, pc, own, token, left, solveLeft, attempt, tokenAge>>

\* Ages are not told apart beyond this
Horizon == TokenLife + CallLimit

(* How each Fetch differs: whether it gets a page of the site before the token,
   whether it may lack a site key, and what it does without a token: send a
   fixed one or an empty one, or nothing.                                  *)
Site(name, page, keyless, unsolved) ==
  [name |-> name, page |-> page, keyless |-> keyless, unsolved |-> unsolved]

PBA       == Site("pba", TRUE, TRUE, "fixed")
Misiones  == Site("misiones", FALSE, FALSE, "fixed")
Jujuy     == Site("jujuy", FALSE, FALSE, "empty")
Salta     == Site("salta", FALSE, FALSE, "empty")
Mendoza   == Site("mendoza", TRUE, FALSE, "none")
LaMatanza == Site("lamatanza", TRUE, FALSE, "none")

Sites == {PBA, Misiones, Jujuy, Salta, Mendoza, LaMatanza}
Tokens == {"own", "solved", "image", "fixed", "empty", "none"}

TypeOK ==
  /\ site \in Sites
  /\ life \in 0 .. TokenLife
  /\ holder \in Callers \cup {None}
  /\ solveLeft \in [Callers -> 0 .. SolveLimit]
  /\ pc \in [Callers -> {"idle", "page", "token", "create", "poll", "image", "send"}]
  /\ own \in [Callers -> BOOLEAN]
  /\ token \in [Callers -> Tokens]
  /\ left \in [Callers -> 0 .. CallLimit]
  /\ attempt \in [Callers -> 0 .. retries]
  /\ tokenAge \in [Callers -> 0 .. Horizon]
  /\ lastSolve \in 0 .. Horizon

Init ==
  /\ site \in Sites
  /\ life = 0 /\ holder = None
  /\ solveLeft = [c \in Callers |-> 0]
  /\ pc = [c \in Callers |-> "idle"]
  /\ own = [c \in Callers |-> FALSE]
  /\ token = [c \in Callers |-> "none"]
  /\ left = [c \in Callers |-> 0]
  /\ attempt = [c \in Callers |-> 0]
  /\ tokenAge = [c \in Callers |-> 0]
  /\ lastSolve = Horizon

-----------------------------------------------------------------------------
\* What comes first in a call: the page, or the token
FirstStep == IF site.page THEN "page" ELSE "token"

\* The router calls Fetch with a context of its own
Fetch(c, t) ==
  /\ pc[c] = "idle"
  /\ t => site # LaMatanza
  /\ pc' = [pc EXCEPT ![c] = FirstStep]
  /\ own' = [own EXCEPT ![c] = t]
  /\ left' = [left EXCEPT ![c] = CallLimit]
  /\ UNCHANGED <<site, lockVars, token, solveLeft, attempt, tokenAge>>

(* Fetch returns; the request is over, and the slate is clean. *)
Return(c) ==
  /\ pc' = [pc EXCEPT ![c] = "idle"]
  /\ own' = [own EXCEPT ![c] = FALSE]
  /\ token' = [token EXCEPT ![c] = "none"]
  /\ left' = [left EXCEPT ![c] = 0]
  /\ attempt' = [attempt EXCEPT ![c] = 0]
  /\ tokenAge' = [tokenAge EXCEPT ![c] = 0]

(* Fetch returns an error; the router calls it again while there is time. *)
FetchFailed(c) ==
  \/ (left[c] = 0 \/ attempt[c] = retries) /\ Return(c)
  \/ /\ left[c] > 0 /\ attempt[c] < retries
     /\ pc' = [pc EXCEPT ![c] = FirstStep]
     /\ attempt' = [attempt EXCEPT ![c] = @ + 1]
     /\ token' = [token EXCEPT ![c] = "none"]
     /\ tokenAge' = [tokenAge EXCEPT ![c] = 0]
     /\ UNCHANGED <<own, left>>

(* PBA and Mendoza: bootstrapSession, the first GET. *)
PageLoaded(c) ==
  /\ pc[c] = "page" /\ left[c] > 0
  /\ pc' = [pc EXCEPT ![c] = "token"]
  /\ UNCHANGED <<site, lockVars, own, token, left, solveLeft, attempt, tokenAge>>

PageFailed(c) ==
  /\ pc[c] = "page"
  /\ FetchFailed(c)
  /\ UNCHANGED <<site, lockVars, solveLeft>>

(* The request goes out with token t, or not at all when there is none. *)
Send(c, t, age) ==
  /\ pc' = [pc EXCEPT ![c] = "send"]
  /\ token' = [token EXCEPT ![c] = t]
  /\ tokenAge' = [tokenAge EXCEPT ![c] = age]
  /\ solveLeft' = [solveLeft EXCEPT ![c] = 0]
  /\ UNCHANGED <<own, left, attempt>>

(* The token of the request comes first, and takes no lock. *)
UseOwn(c) ==
  /\ pc[c] = "token" /\ own[c]
  /\ Send(c, "own", 0)
  /\ UNCHANGED <<site, lockVars>>

(* resolveToken gets mu. *)
Locks(c) == pc[c] = "token" /\ ~ own[c] /\ site # LaMatanza /\ holder = None

(* Slip: a token that is used lives on. *)
UseCachedExtends(c) ==
  /\ Locks(c)
  /\ life > 0
  /\ Send(c, "solved", lastSolve)
  /\ life' = TokenLife
  /\ UNCHANGED <<site, holder, lastSolve>>

(* resolveToken, from Lock to Unlock: the token that is kept is alive. *)
UseCached(c) ==
  /\ Locks(c)
  /\ life > 0
  /\ Send(c, "solved", lastSolve)
  /\ UNCHANGED <<site, lockVars>>

(* PBA without a site key, from the page or from the configuration. *)
NoSiteKey(c) ==
  /\ Locks(c)
  /\ life = 0 /\ site.keyless
  /\ Send(c, site.unsolved, 0)
  /\ UNCHANGED <<site, lockVars>>

(* Slip: the lock is let go before the solver is asked. *)
StartSolveUnlocked(c) ==
  /\ Locks(c)
  /\ life = 0
  /\ solveLeft' = [solveLeft EXCEPT ![c] = SolveLimit]
  /\ pc' = [pc EXCEPT ![c] = "create"]
  /\ UNCHANGED <<site, life, holder, lastSolve, own, token, left, attempt, tokenAge>>

(* resolveToken: Solve is called with the lock held. *)
StartSolve(c) ==
  /\ Locks(c)
  /\ life = 0
  /\ holder' = c
  /\ solveLeft' = [solveLeft EXCEPT ![c] = SolveLimit]
  /\ pc' = [pc EXCEPT ![c] = "create"]
  /\ UNCHANGED <<site, life, lastSolve, own, token, left, attempt, tokenAge>>

TaskCreated(c) ==
  /\ pc[c] = "create" /\ solveLeft[c] > 0
  /\ pc' = [pc EXCEPT ![c] = "poll"]
  /\ UNCHANGED <<site, lockVars, own, token, left, solveLeft, attempt, tokenAge>>

(* Slip: the life of a token is counted from when its solve began. *)
SolveReadyFromStart(c) ==
  /\ pc[c] = "poll" /\ solveLeft[c] > 0
  /\ LET spent == SolveLimit - solveLeft[c]
     IN  life' = IF spent < TokenLife THEN TokenLife - spent ELSE 0
  /\ lastSolve' = 0
  /\ holder' = None
  /\ Send(c, "solved", 0)
  /\ UNCHANGED site

(* A poll finds the task ready: its token is kept from now on. *)
SolveReady(c) ==
  /\ pc[c] = "poll" /\ solveLeft[c] > 0
  /\ life' = TokenLife
  /\ lastSolve' = 0
  /\ holder' = None
  /\ Send(c, "solved", 0)
  /\ UNCHANGED site

(* Slip: the error path leaves the mutex locked. *)
SolveFailedKeepsLock(c) ==
  /\ pc[c] \in {"create", "poll"}
  /\ Send(c, site.unsolved, 0)
  /\ UNCHANGED <<site, life, holder, lastSolve>>

(* An error of any step, an empty token, no API key, or the time is up. *)
SolveFailed(c) ==
  /\ pc[c] \in {"create", "poll"}
  /\ holder' = None
  /\ Send(c, site.unsolved, 0)
  /\ UNCHANGED <<site, life, lastSolve>>

(* La Matanza: the image of this page is fetched and sent to SolveImage. *)
StartImage(c) ==
  /\ pc[c] = "token" /\ site = LaMatanza
  /\ pc' = [pc EXCEPT ![c] = "image"]
  /\ UNCHANGED <<site, lockVars, own, token, left, solveLeft, attempt, tokenAge>>

ImageReady(c) ==
  /\ pc[c] = "image" /\ left[c] > 0
  /\ Send(c, "image", 0)
  /\ UNCHANGED <<site, lockVars>>

(* No image, no text or no time: an empty result, and no error. *)
ImageFailed(c) ==
  /\ pc[c] = "image"
  /\ Return(c)
  /\ UNCHANGED <<site, lockVars, solveLeft>>

(* The site answers in time. *)
SiteAnswers(c) ==
  /\ pc[c] = "send" /\ token[c] # "none" /\ left[c] > 0
  /\ Return(c)
  /\ UNCHANGED <<site, lockVars, solveLeft>>

(* The site fails or refuses, the context is done, or there is no token. *)
SiteFails(c) ==
  /\ pc[c] = "send"
  /\ FetchFailed(c)
  /\ UNCHANGED <<site, lockVars, solveLeft>>

(* A call whose context is done goes on at once, unless it waits for mu. *)
Tick ==
  /\ \A c \in Callers :
       /\ pc[c] \in {"page", "image", "send"} => left[c] > 0
       /\ pc[c] \in {"create", "poll"} => solveLeft[c] > 0
  /\ left' = [c \in Callers |-> IF left[c] = 0 THEN 0 ELSE left[c] - 1]
  /\ life' = IF life = 0 THEN 0 ELSE life - 1
  /\ solveLeft' = [c \in Callers |-> IF solveLeft[c] = 0 THEN 0 ELSE solveLeft[c] - 1]
  /\ lastSolve' = IF lastSolve = Horizon THEN Horizon ELSE lastSolve + 1
  /\ tokenAge' = [c \in Callers |->
        IF token[c] = "solved" /\ tokenAge[c] < Horizon THEN tokenAge[c] + 1 ELSE tokenAge[c]]
  /\ UNCHANGED <<site, holder, pc, own, token, attempt>>

Resolve(c) == UseOwn(c) \/ UseCached(c) \/ NoSiteKey(c) \/ StartSolve(c)
Solve(c) == TaskCreated(c) \/ SolveReady(c) \/ SolveFailed(c)
Exchange(c) ==
  \/ PageLoaded(c) \/ PageFailed(c)
  \/ StartImage(c) \/ ImageReady(c) \/ ImageFailed(c)
  \/ SiteAnswers(c) \/ SiteFails(c)

Next ==
  \/ Tick
  \/ \E c \in Callers, t \in BOOLEAN : Fetch(c, t)
  \/ \E c \in Callers : Resolve(c) \/ Solve(c) \/ Exchange(c)

Spec == Init /\ [][Next]_vars

(* The context of the solve ends it, the context of a call ends its requests,
   and sync.Mutex passes nobody over for ever.                            *)
FairSpec ==
  /\ Spec
  /\ WF_vars(Tick)
  /\ \A c \in Callers :
       SF_vars(Resolve(c)) /\ WF_vars(SolveFailed(c)) /\ WF_vars(Exchange(c))

-----------------------------------------------------------------------------
(* Solved tokens are paid for one by one: two callers that both find none do
   not both have one solved, and another is bought only when the last one
   has lived its life.                                                    *)
SolvesAreSpaced ==
  [][\A c \in Callers :
       pc[c] = "poll" /\ token'[c] = "solved" => lastSolve >= TokenLife]_vars

(* However long callers wait for each other and for the solver, a token that
   reaches the site in time was solved less than TokenLife + CallLimit ago. *)
SentTokenIsFresh ==
  \A c \in Callers :
    pc[c] = "send" /\ token[c] = "solved" /\ left[c] > 0 => tokenAge[c] < Horizon

(* A solve is not wasted, though it may well outlast the request it was begun
   for: from then on and for TokenLife, whoever comes finds the token there and
   the mutex free.                                                        *)
SolveServesEveryone ==
  lastSolve < TokenLife => life = TokenLife - lastSolve /\ holder = None

(* Every request ends, though callers queue for the mutex behind solves. *)
FetchReturns == \A c \in Callers : pc[c] # "idle" ~> pc[c] = "idle"
=============================================================================
