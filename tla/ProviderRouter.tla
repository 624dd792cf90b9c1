---------------------------- MODULE ProviderRouter ----------------------------
(***************************************************************************)
(* providers.ProviderRouter: Fetch tries the providers that support a      *)
(* query in priority order, each up to retries+1 times under one timeout,  *)
(* and keeps a circuit breaker per provider that all requests share.       *)
(*                                                                         *)
(* The mutex is held for one look at, or one update of, the breaker, never *)
(* while a provider is called; so a call admitted through a closed circuit *)
(* can come back when others have opened it, and the other way round.      *)
(* What a provider returns is its name, normalised or not.  Who comes to   *)
(* call Fetch, and for whom, is told in SharedLookup.                      *)
(***************************************************************************)
EXTENDS Integers

CONSTANTS
  Callers,    \* goroutines inside Fetch, each with one query
  Queries,    \* which providers may support the queries of the callers
  N,          \* providers are 1 .. N, in priority order
  retries,    \* attempts after the first one (2 in the code)
  Threshold,  \* failures that open a circuit (3 in the code)
  Cooldown    \* how long it stays open (20s in the code)

ASSUME RouterAssumption ==
  /\ N \in Nat \ {0} /\ retries \in Nat /\ Threshold \in Nat \ {0}
  /\ Cooldown \in Nat \ {0}
  /\ Queries \subseteq [Callers -> SUBSET (1 .. N)]

Providers == 1 .. N

VARIABLES
  failures,   \* providerState.failures; every count past Threshold is alike
  openFor,    \* time left until providerState.openFor, 0 once it is past
  pc, at, attempt,  \* where each Fetch is, at which provider and attempt
  supported,  \* the providers that support its query
  canceled,   \* whether its caller's context is done
  firstErr,   \* "nil", "open" or "failed"
  out,        \* how it ended: an error, or "ok" with the answer of provider at
  outcome     \* history: what became of each provider in this Fetch

breakerVars == <<failures, openFor>>
fetchVars == <<pc, at, attempt, supported, canceled, firstErr, out, outcome>>
vars == <<failures, openFor, pc, at, attempt, supported, canceled,
          firstErr, out, outcome>>

Outcomes == {"none", "unsupported", "open", "failed", "ok"}
Errors == {"nil", "open", "failed"}

TypeOK ==
  /\ failures \in [Providers -> 0 .. Threshold]
  /\ openFor \in [Providers -> 0 .. Cooldown]
  /\ pc \in [Callers -> {"idle", "look", "call"}]
  /\ at \in [Callers -> 1 .. N + 1]
  /\ attempt \in [Callers -> 0 .. retries]
  /\ supported \in [Callers -> SUBSET Providers]
  /\ canceled \in [Callers -> BOOLEAN]
  /\ firstErr \in [Callers -> Errors]
  /\ out \in [Callers -> {"none", "ok", "open", "failed", "not_found"}]
  /\ outcome \in [Callers -> [Providers -> Outcomes]]

Untried == [i \in Providers |-> "none"]

Init ==
  /\ failures = [i \in Providers |-> 0]
  /\ openFor = [i \in Providers |-> 0]
  /\ pc = [c \in Callers |-> "idle"]
  /\ at = [c \in Callers |-> 1]
  /\ attempt = [c \in Callers |-> 0]
  /\ supported \in Queries
  /\ canceled = [c \in Callers |-> FALSE]
  /\ firstErr = [c \in Callers |-> "nil"]
  /\ out = [c \in Callers |-> "none"]
  /\ outcome = [c \in Callers |-> Untried]

-----------------------------------------------------------------------------
isOpen(i) == openFor[i] > 0

markSuccess(i) ==
  /\ failures' = [failures EXCEPT ![i] = 0]
  /\ openFor' = [openFor EXCEPT ![i] = 0]

atThreshold(n) == IF n < Threshold THEN n ELSE Threshold

markFailure(i) ==
  LET n == atThreshold(failures[i] + 1)
  IN  /\ failures' = [failures EXCEPT ![i] = n]
      /\ openFor' = IF n = Threshold
                      THEN [openFor EXCEPT ![i] = Cooldown]
                      ELSE openFor

(* On to the next provider, with the first error kept. *)
advance(c, err, what) ==
  /\ firstErr' = [firstErr EXCEPT ![c] = IF @ = "nil" THEN err ELSE @]
  /\ outcome' = [outcome EXCEPT ![c][at[c]] = what]
  /\ at' = [at EXCEPT ![c] = @ + 1]
  /\ pc' = [pc EXCEPT ![c] = "look"]

(* Fetch returns: its locals are gone, what it answered is kept for the
   properties.                                                            *)
leave(c, result) ==
  /\ pc' = [pc EXCEPT ![c] = "idle"]
  /\ attempt' = [attempt EXCEPT ![c] = 0]
  /\ canceled' = [canceled EXCEPT ![c] = FALSE]
  /\ out' = [out EXCEPT ![c] = result]

(* Fetch is called with the query of c. *)
Fetch(c) ==
  /\ pc[c] = "idle" /\ out[c] = "none"
  /\ pc' = [pc EXCEPT ![c] = "look"]
  /\ UNCHANGED <<breakerVars, at, attempt, supported, canceled, firstErr, out, outcome>>

(* What Fetch has answered is no longer held by anyone. *)
Drop(c) ==
  /\ pc[c] = "idle" /\ out[c] # "none"
  /\ at' = [at EXCEPT ![c] = 1]
  /\ firstErr' = [firstErr EXCEPT ![c] = "nil"]
  /\ out' = [out EXCEPT ![c] = "none"]
  /\ outcome' = [outcome EXCEPT ![c] = Untried]
  /\ UNCHANGED <<breakerVars, pc, attempt, supported, canceled>>

(* The caller hangs up, or its own deadline passes. *)
Cancel(c) ==
  /\ pc[c] # "idle"
  /\ canceled' = [canceled EXCEPT ![c] = TRUE]
  /\ UNCHANGED <<breakerVars, pc, at, attempt, supported, firstErr, out, outcome>>

SkipUnsupported(c) ==
  /\ pc[c] = "look" /\ at[c] \in Providers
  /\ at[c] \notin supported[c]
  /\ advance(c, "nil", "unsupported")
  /\ UNCHANGED <<breakerVars, attempt, supported, canceled, out>>

(* Slip: an open circuit ends the search. *)
SkipOpenReturns(c) ==
  /\ pc[c] = "look" /\ at[c] \in supported[c]
  /\ isOpen(at[c])
  /\ leave(c, "open")
  /\ UNCHANGED <<breakerVars, at, supported, firstErr, outcome>>

SkipOpen(c) ==
  /\ pc[c] = "look" /\ at[c] \in supported[c]
  /\ isOpen(at[c])
  /\ advance(c, "open", "open")
  /\ UNCHANGED <<breakerVars, attempt, supported, canceled, out>>

(* Slip: the breaker is not asked. *)
AdmitUnchecked(c) ==
  /\ pc[c] = "look" /\ at[c] \in supported[c]
  /\ pc' = [pc EXCEPT ![c] = "call"]
  /\ UNCHANGED <<breakerVars, at, attempt, supported, canceled, firstErr, out, outcome>>

(* The loop never looks at the caller's context: a provider is called even
   when that is already done.                                             *)
Admit(c) ==
  /\ pc[c] = "look" /\ at[c] \in supported[c]
  /\ ~isOpen(at[c])
  /\ pc' = [pc EXCEPT ![c] = "call"]
  /\ UNCHANGED <<breakerVars, at, attempt, supported, canceled, firstErr, out, outcome>>

AttemptSucceeds(c) ==
  /\ pc[c] = "call"
  /\ markSuccess(at[c])
  /\ leave(c, "ok")
  /\ outcome' = [outcome EXCEPT ![c][at[c]] = "ok"]
  /\ UNCHANGED <<at, supported, firstErr>>

(* Slip: each failed attempt is reported to the breaker. *)
AttemptFailsMarked(c) ==
  /\ pc[c] = "call"
  /\ ~canceled[c]
  /\ attempt[c] < retries
  /\ attempt' = [attempt EXCEPT ![c] = @ + 1]
  /\ markFailure(at[c])
  /\ UNCHANGED <<pc, at, supported, canceled, firstErr, out, outcome>>

(* An attempt fails while callCtx is alive and is followed by another one. *)
AttemptFails(c) ==
  /\ pc[c] = "call"
  /\ ~canceled[c]
  /\ attempt[c] < retries
  /\ attempt' = [attempt EXCEPT ![c] = @ + 1]
  /\ UNCHANGED <<breakerVars, pc, at, supported, canceled, firstErr, out, outcome>>

(* The last attempt fails, or one does when the timeout of the call or the
   context of the caller is over, which may be at any attempt.            *)
ProviderFails(c) ==
  /\ pc[c] = "call"
  /\ markFailure(at[c])
  /\ advance(c, "failed", "failed")
  /\ attempt' = [attempt EXCEPT ![c] = 0]
  /\ UNCHANGED <<supported, canceled, out>>

ReturnError(c) ==
  /\ pc[c] = "look" /\ at[c] = N + 1
  /\ leave(c, IF firstErr[c] = "nil" THEN "not_found" ELSE firstErr[c])
  /\ UNCHANGED <<breakerVars, at, supported, firstErr, outcome>>

Tick ==
  /\ openFor' = [i \in Providers |-> IF openFor[i] > 0 THEN openFor[i] - 1 ELSE 0]
  /\ UNCHANGED <<failures, fetchVars>>

Step(c) ==
  \/ SkipUnsupported(c) \/ SkipOpen(c) \/ Admit(c)
  \/ AttemptSucceeds(c) \/ AttemptFails(c) \/ ProviderFails(c)
  \/ ReturnError(c)

-----------------------------------------------------------------------------
(* The fallback follows the priorities: an answer comes from the first
   supporting provider that was neither shut off nor failing, and an error
   means that each supporting provider was one or the other; "not found"
   is kept for a query nobody supports.                                   *)
AnswerIsFirstAvailable ==
  \A c \in Callers :
    LET passed(i) == \/ outcome[c][i] = "unsupported" /\ i \notin supported[c]
                     \/ outcome[c][i] \in {"open", "failed"} /\ i \in supported[c]
    IN  /\ out[c] = "ok" =>
             at[c] \in supported[c] /\ \A i \in 1 .. at[c] - 1 : passed(i)
        /\ out[c] \in {"open", "failed", "not_found"} =>
             \A i \in Providers : passed(i)
        /\ out[c] = "not_found" => supported[c] = {}

(* An open circuit is closed or can be tried again in the end: requests that
   were let in before it opened may prolong it, but an open circuit lets
   no more of them in.                                                    *)
OpenCircuitRecovers == \A i \in Providers : isOpen(i) ~> ~isOpen(i)
=============================================================================
