-------------------------- MODULE SharedLookupProofs --------------------------
(***************************************************************************)
(* AnswerIsFirstAvailable and OpenIsAccountedFor for any keys, processes,  *)
(* providers, thresholds and contexts that end.                            *)
(*                                                                         *)
(* LookupInv follows a lookup along the providers: those behind it were    *)
(* passed over for a reason, those before it are untouched.  ChargeInv     *)
(* weighs a breaker against what the lookups did to it.  A lookup whose    *)
(* context is done is a charge that every provider it has yet to leave may *)
(* still have to bear: it counts from the moment the context ends, and is  *)
(* turned into a failure at most once at each provider.                    *)
(*                                                                         *)
(* FlightInv says who waits for whom: nobody waits for a lookup that has   *)
(* ended or has no leader, a lookup has only so many steps left, and its   *)
(* steps are those of SingleFlight or none.                                *)
(***************************************************************************)
EXTENDS SharedLookup, FiniteSetTheorems, TLAPS

passed(c, i) ==
  \/ outcome[c][i] = "unsupported" /\ i \notin supported[c]
  \/ outcome[c][i] \in {"open", "failed"} /\ i \in supported[c]

(* The way of one lookup so far. *)
Way(c) ==
  /\ \A i \in Providers : i < at[c] => passed(c, i)
  /\ firstErr[c] = "nil" =>
       \A i \in Providers : i < at[c] => i \notin supported[c]
  /\ out[c] = "none" => \A i \in Providers : i >= at[c] => outcome[c][i] = "none"

(* Where it stands. *)
Stand(c) ==
  /\ pc[c] # "idle" => out[c] = "none"
  /\ pc[c] = "idle" => ~canceled[c]
  /\ pc[c] = "call" => at[c] \in supported[c]
  /\ out[c] = "ok" => at[c] \in supported[c]
  /\ out[c] \in {"open", "failed", "not_found"} => at[c] = N + 1
  /\ out[c] = "not_found" => firstErr[c] = "nil"

LookupInv == TypeOK /\ \A c \in Callers : Way(c) /\ Stand(c)

(* The lookups that may still charge provider i for a context that ended. *)
Charging(i) == {k \in Keys : canceled[k] /\ at[k] <= i}

ChargeInv ==
  /\ own \in [Providers -> 0 .. Threshold] /\ hangUps \in Nat
  /\ \A i \in Providers :
       /\ isOpen(i) => failures[i] = Threshold
       /\ IsFiniteSet(Charging(i)) /\ Cardinality(Charging(i)) <= hangUps
       /\ failures[i] + Cardinality(Charging(i)) <= own[i] + hangUps

-----------------------------------------------------------------------------
(* Every step of the system is one of the router's or leaves it alone. *)
RouterMoves ==
  \/ Tick \/ UNCHANGED vars
  \/ \E c \in Callers : Fetch(c) \/ Drop(c) \/ Cancel(c) \/ Step(c)

LEMMA LookupMovesRouter == [LookupNext]_lookupVars => RouterMoves
  BY DEF LookupNext, lookupVars, vars, RouterMoves, CoolDown, HangUp, Lead, RouterStep,
         LeaderReturns, Search, Follow, FollowerReturns, Keys

LEMMA InitLookup == LookupInit => LookupInv
<1>. SUFFICES ASSUME LookupInit PROVE LookupInv
  OBVIOUS
<1>1. TypeOK
  BY RouterAssumption DEF LookupInit, Init, TypeOK, Untried, Outcomes, Errors,
                          Providers, RouterAssumption
<1>2. \A c \in Callers : Way(c) /\ Stand(c)
  <2>. TAKE c \in Callers
  <2>1. /\ pc[c] = "idle" /\ at[c] = 1 /\ ~canceled[c] /\ out[c] = "none"
        /\ \A i \in Providers : outcome[c][i] = "none"
    BY DEF LookupInit, Init, Untried
  <2>2. \A i \in Providers : ~ (i < 1)
    BY RouterAssumption DEF Providers, RouterAssumption
  <2>. QED  BY <2>1, <2>2 DEF Way, Stand
<1>. QED  BY <1>1, <1>2 DEF LookupInv

-----------------------------------------------------------------------------
(* The breakers keep to their types, whoever marks them. *)
LEMMA MarksAreTyped ==
  ASSUME TypeOK, NEW i \in Providers, markSuccess(i) \/ markFailure(i)
  PROVE  /\ failures' \in [Providers -> 0 .. Threshold]
         /\ openFor' \in [Providers -> 0 .. Cooldown]
<1>1. Threshold \in Nat /\ Cooldown \in Nat
  BY RouterAssumption DEF RouterAssumption
<1>2. CASE markSuccess(i)
  BY <1>1, <1>2 DEF markSuccess, TypeOK
<1>3. CASE markFailure(i)
  <2>1. atThreshold(failures[i] + 1) \in 0 .. Threshold
    BY <1>1 DEF atThreshold, TypeOK
  <2>. QED  BY <1>1, <1>3, <2>1 DEF markFailure, TypeOK
<1>. QED  BY <1>2, <1>3

(* So does a lookup that goes on to the next provider. *)
LEMMA AdvanceIsTyped ==
  ASSUME TypeOK, NEW c \in Callers, at[c] \in Providers,
         NEW err \in Errors, NEW what \in Outcomes, advance(c, err, what)
  PROVE  /\ pc' \in [Callers -> {"idle", "look", "call"}]
         /\ at' \in [Callers -> 1 .. N + 1]
         /\ firstErr' \in [Callers -> Errors]
         /\ outcome' \in [Callers -> [Providers -> Outcomes]]
<1>1. pc' \in [Callers -> {"idle", "look", "call"}]
  BY DEF TypeOK, advance
<1>2. at' \in [Callers -> 1 .. N + 1]
  <2>1. at[c] + 1 \in 1 .. N + 1
    BY RouterAssumption DEF RouterAssumption, Providers
  <2> QED  BY <2>1 DEF TypeOK, advance
<1>3. firstErr' \in [Callers -> Errors]
  BY DEF TypeOK, advance
<1>4. outcome' \in [Callers -> [Providers -> Outcomes]]
  BY DEF TypeOK, advance
<1> QED  BY <1>1, <1>2, <1>3, <1>4

(* A step of a lookup keeps every variable of the router within its type. *)
LEMMA StepKeepsTypes ==
  ASSUME LookupInv, NEW c \in Callers, Step(c)
  PROVE  TypeOK'
<1>. USE DEF TypeOK, Outcomes, Errors, Providers
<1>1. N \in Nat /\ retries \in Nat /\ at[c] \in 1 .. N + 1
  BY RouterAssumption DEF LookupInv, RouterAssumption
<1>2. CASE SkipUnsupported(c)
  <2>1. at[c] \in Providers /\ advance(c, "nil", "unsupported")
    BY <1>2 DEF SkipUnsupported
  <2>2. UNCHANGED <<failures, openFor, attempt, supported, canceled, out>>
    BY <1>2 DEF SkipUnsupported, breakerVars
  <2> HIDE DEF Providers, Outcomes, Errors
  <2>3. "nil" \in Errors /\ "unsupported" \in Outcomes
    BY DEF Errors, Outcomes
  <2>. QED  BY <2>1, <2>2, <2>3, AdvanceIsTyped DEF LookupInv
<1>3. CASE SkipOpen(c)
  <2>1. at[c] \in Providers /\ advance(c, "open", "open")
    BY <1>3 DEF SkipOpen, LookupInv
  <2>2. UNCHANGED <<failures, openFor, attempt, supported, canceled, out>>
    BY <1>3 DEF SkipOpen, breakerVars
  <2> HIDE DEF Providers, Outcomes, Errors
  <2>3. "open" \in Errors /\ "open" \in Outcomes
    BY DEF Errors, Outcomes
  <2>. QED  BY <2>1, <2>2, <2>3, AdvanceIsTyped DEF LookupInv
<1>4. CASE Admit(c)
  BY <1>4 DEF Admit, breakerVars, LookupInv
<1>5. CASE AttemptSucceeds(c)
  <2>1. at[c] \in Providers /\ markSuccess(at[c])
    BY <1>5 DEF AttemptSucceeds, LookupInv, Stand
  <2>2. /\ failures' \in [Providers -> 0 .. Threshold]
        /\ openFor' \in [Providers -> 0 .. Cooldown]
    BY <2>1, MarksAreTyped DEF LookupInv
  <2>3. /\ pc' \in [Callers -> {"idle", "look", "call"}]
        /\ attempt' \in [Callers -> 0 .. retries]
        /\ canceled' \in [Callers -> BOOLEAN]
        /\ out' \in [Callers -> {"none", "ok", "open", "failed", "not_found"}]
    BY <1>1, <1>5 DEF AttemptSucceeds, leave, LookupInv
  <2>4. outcome' \in [Callers -> [Providers -> Outcomes]]
    BY <1>5 DEF AttemptSucceeds, LookupInv
  <2>5. UNCHANGED <<at, supported, firstErr>>
    BY <1>5 DEF AttemptSucceeds
  <2>. QED  BY <2>2, <2>3, <2>4, <2>5 DEF LookupInv
<1>6. CASE AttemptFails(c)
  BY <1>1, <1>6 DEF AttemptFails, breakerVars, LookupInv
<1>7. CASE ProviderFails(c)
  <2>1. at[c] \in Providers /\ markFailure(at[c])
    BY <1>7 DEF ProviderFails, LookupInv, Stand
  <2>2. /\ failures' \in [Providers -> 0 .. Threshold]
        /\ openFor' \in [Providers -> 0 .. Cooldown]
    BY <2>1, MarksAreTyped DEF LookupInv
  <2>3. /\ advance(c, "failed", "failed") /\ attempt' \in [Callers -> 0 .. retries]
        /\ UNCHANGED <<supported, canceled, out>>
    BY <1>1, <1>7 DEF ProviderFails, LookupInv
  <2> HIDE DEF Providers, Outcomes, Errors
  <2>4. "failed" \in Errors /\ "failed" \in Outcomes
    BY DEF Errors, Outcomes
  <2>. QED  BY <2>1, <2>2, <2>3, <2>4, AdvanceIsTyped DEF LookupInv
<1>8. CASE ReturnError(c)
  BY <1>1, <1>8 DEF ReturnError, leave, breakerVars, LookupInv
<1>. QED  BY <1>2, <1>3, <1>4, <1>5, <1>6, <1>7, <1>8 DEF Step

(* What a step of c leaves alone of the other lookups. *)
LEMMA StepIsLocal ==
  ASSUME LookupInv, NEW c \in Callers,
         Fetch(c) \/ Drop(c) \/ Cancel(c) \/ Step(c), NEW d \in Callers \ {c}
  PROVE  Way(d)' /\ Stand(d)'
<1>1. /\ pc'[d] = pc[d] /\ at'[d] = at[d] /\ supported'[d] = supported[d]
      /\ canceled'[d] = canceled[d] /\ firstErr'[d] = firstErr[d]
      /\ out'[d] = out[d] /\ outcome'[d] = outcome[d]
  BY DEF LookupInv, TypeOK, Fetch, Drop, Cancel, Step, SkipUnsupported, SkipOpen, Admit,
         AttemptSucceeds, AttemptFails, ProviderFails, ReturnError, advance, leave
<1>. QED  BY <1>1 DEF LookupInv, Way, Stand, passed

(* A provider is passed over, for the reason the lookup notes. *)
LEMMA AdvanceKeepsWay ==
  ASSUME LookupInv, NEW c \in Callers, NEW err \in Errors,
         NEW what \in {"unsupported", "open", "failed"}, at[c] \in Providers,
         pc[c] # "idle", advance(c, err, what), UNCHANGED <<supported, canceled, out>>,
         IF what = "unsupported" THEN err = "nil" /\ at[c] \notin supported[c]
                                 ELSE err # "nil" /\ at[c] \in supported[c]
  PROVE  Way(c)' /\ Stand(c)'
<1>1. /\ pc'[c] = "look" /\ at'[c] = at[c] + 1
      /\ firstErr'[c] = IF firstErr[c] = "nil" THEN err ELSE firstErr[c]
      /\ outcome'[c] = [outcome[c] EXCEPT ![at[c]] = what]
  BY DEF advance, LookupInv, TypeOK
<1>2. at[c] \in 1 .. N /\ N \in Nat /\ outcome[c] \in [Providers -> Outcomes]
  BY RouterAssumption DEF LookupInv, TypeOK, Providers, RouterAssumption
<1>3. out[c] = "none"
  BY DEF LookupInv, Stand
<1>4. \A i \in Providers : i < at'[c] => i < at[c] \/ i = at[c]
  BY <1>1, <1>2 DEF Providers
<1>5. \A i \in Providers : i # at[c] => outcome'[c][i] = outcome[c][i]
  BY <1>1, <1>2
<1>6. outcome'[c][at[c]] = what
  BY <1>1, <1>2
<1>7. \A i \in Providers : i < at'[c] => passed(c, i)'
  BY <1>4, <1>5, <1>6, <1>2 DEF LookupInv, Way, passed, Providers
<1>8. firstErr'[c] = "nil" => \A i \in Providers : i < at'[c] => i \notin supported'[c]
  BY <1>1, <1>4 DEF LookupInv, Way
<1>9. \A i \in Providers : i >= at'[c] => outcome'[c][i] = "none"
  BY <1>1, <1>2, <1>3, <1>5 DEF LookupInv, Way, Providers
<1>. QED  BY <1>1, <1>3, <1>7, <1>8, <1>9 DEF Way, Stand

LEMMA StepKeepsWay ==
  ASSUME LookupInv, NEW c \in Callers, Step(c)
  PROVE  Way(c)' /\ Stand(c)'
<1>1. /\ at[c] \in 1 .. N + 1 /\ N \in Nat /\ supported[c] \subseteq 1 .. N
      /\ outcome[c] \in [Providers -> Outcomes]
  BY RouterAssumption DEF LookupInv, TypeOK, Providers, RouterAssumption
<1>2. CASE SkipUnsupported(c)
  BY <1>2, AdvanceKeepsWay DEF SkipUnsupported, Errors
<1>3. CASE SkipOpen(c)
  BY <1>1, <1>3, AdvanceKeepsWay DEF SkipOpen, Errors, Providers
<1>4. CASE Admit(c)
  BY <1>4 DEF Admit, LookupInv, TypeOK, Way, Stand, passed
<1>5. CASE AttemptSucceeds(c)
  <2>1. /\ pc'[c] = "idle" /\ out'[c] = "ok" /\ ~canceled'[c]
        /\ outcome'[c] = [outcome[c] EXCEPT ![at[c]] = "ok"]
        /\ UNCHANGED <<at, supported, firstErr>> /\ at[c] \in supported[c]
    BY <1>5 DEF AttemptSucceeds, leave, LookupInv, TypeOK, Stand
  <2>2. \A i \in Providers : i < at[c] => outcome'[c][i] = outcome[c][i]
    BY <1>1, <2>1 DEF Providers
  <2>. QED  BY <2>1, <2>2 DEF LookupInv, Way, Stand, passed
<1>6. CASE AttemptFails(c)
  BY <1>6 DEF AttemptFails, LookupInv, Way, Stand, passed
<1>7. CASE ProviderFails(c)
  <2>1. at[c] \in supported[c] /\ at[c] \in Providers
    BY <1>1, <1>7 DEF ProviderFails, LookupInv, Stand, Providers
  <2>. QED  BY <1>7, <2>1, AdvanceKeepsWay DEF ProviderFails, Errors
<1>8. CASE ReturnError(c)
  <2>1. /\ pc'[c] = "idle" /\ ~canceled'[c] /\ at[c] = N + 1
        /\ out'[c] = IF firstErr[c] = "nil" THEN "not_found" ELSE firstErr[c]
        /\ UNCHANGED <<at, supported, firstErr, outcome>>
    BY <1>8 DEF ReturnError, leave, LookupInv, TypeOK
  <2>2. firstErr[c] \in {"nil", "open", "failed"}
    BY DEF LookupInv, TypeOK, Errors
  <2>. QED  BY <2>1, <2>2 DEF LookupInv, Way, Stand, passed
<1>. QED  BY <1>2, <1>3, <1>4, <1>5, <1>6, <1>7, <1>8 DEF Step

LEMMA NextLookup == LookupInv /\ [LookupNext]_lookupVars => LookupInv'
<1>. SUFFICES ASSUME LookupInv, RouterMoves
              PROVE  LookupInv'
  BY LookupMovesRouter
<1>1. CASE Tick
  <2>1. openFor' \in [Providers -> 0 .. Cooldown]
    BY <1>1, RouterAssumption DEF Tick, LookupInv, TypeOK, RouterAssumption
  <2>. QED  BY <1>1, <2>1 DEF Tick, fetchVars, LookupInv, TypeOK, Way, Stand, passed
<1>2. CASE UNCHANGED vars
  BY <1>2 DEF vars, LookupInv, TypeOK, Way, Stand, passed
<1>3. ASSUME NEW c \in Callers, Fetch(c) \/ Drop(c) \/ Cancel(c) \/ Step(c)
      PROVE  LookupInv'
  <2>1. CASE Fetch(c)
    <3>1. TypeOK'
      BY <2>1 DEF Fetch, breakerVars, LookupInv, TypeOK
    <3>2. Way(c)' /\ Stand(c)'
      BY <2>1 DEF Fetch, LookupInv, TypeOK, Way, Stand, passed
    <3>. QED  BY <2>1, <3>1, <3>2, StepIsLocal DEF LookupInv
  <2>2. CASE Drop(c)
    <3>1. TypeOK'
      BY <2>2, RouterAssumption
      DEF Drop, breakerVars, LookupInv, TypeOK, Untried, Outcomes, Errors, RouterAssumption
    <3>2. Way(c)' /\ Stand(c)'
      BY <2>2 DEF Drop, LookupInv, TypeOK, Way, Stand, passed, Untried, Providers
    <3>. QED  BY <2>2, <3>1, <3>2, StepIsLocal DEF LookupInv
  <2>3. CASE Cancel(c)
    <3>1. TypeOK'
      BY <2>3 DEF Cancel, breakerVars, LookupInv, TypeOK
    <3>2. Way(c)' /\ Stand(c)'
      BY <2>3 DEF Cancel, LookupInv, TypeOK, Way, Stand, passed
    <3>. QED  BY <2>3, <3>1, <3>2, StepIsLocal DEF LookupInv
  <2>4. CASE Step(c)
    BY <2>4, StepKeepsTypes, StepKeepsWay, StepIsLocal DEF LookupInv
  <2>. QED  BY <1>3, <2>1, <2>2, <2>3, <2>4
<1>. QED  BY <1>1, <1>2, <1>3 DEF RouterMoves

(* The router's variables keep to their types, and each lookup to its way. *)
THEOREM LookupInvHolds == LookupSpec => []LookupInv
  BY InitLookup, NextLookup, PTL DEF LookupSpec

(* ProviderRouter.Fetch falls back by priority, for any providers and queries
   and however lookups that run at a time open and close circuits for each
   other: whoever answers, those before it were shut off or had failed.   *)
THEOREM FallbackInOrder == LookupSpec => []AnswerIsFirstAvailable
<1>1. LookupInv => AnswerIsFirstAvailable
  <2>. SUFFICES ASSUME LookupInv, NEW c \in Callers
                PROVE  /\ out[c] = "ok" => at[c] \in supported[c] /\
                             \A i \in 1 .. at[c] - 1 : passed(c, i)
                       /\ out[c] \in {"open", "failed", "not_found"} =>
                             \A i \in Providers : passed(c, i)
                       /\ out[c] = "not_found" => supported[c] = {}
    BY DEF AnswerIsFirstAvailable, passed
  <2>1. /\ at[c] \in 1 .. N + 1 /\ N \in Nat /\ supported[c] \subseteq Providers
        /\ Way(c) /\ Stand(c)
    BY RouterAssumption DEF LookupInv, TypeOK, RouterAssumption
  <2>2. \A i \in 1 .. at[c] - 1 : i \in Providers /\ i < at[c]
    BY <2>1 DEF Providers
  <2>3. at[c] = N + 1 => \A i \in Providers : i < at[c]
    BY <2>1 DEF Providers
  <2>. QED  BY <2>1, <2>2, <2>3 DEF Way, Stand
<1>. QED  BY <1>1, LookupInvHolds, PTL

-----------------------------------------------------------------------------
LEMMA InitCharge == LookupInit => ChargeInv
<1>. SUFFICES ASSUME LookupInit PROVE ChargeInv
  OBVIOUS
<1>1. \A i \in Providers : Charging(i) = {}
  BY DEF LookupInit, Init, Charging, Keys
<1>2. own \in [Providers -> 0 .. Threshold] /\ hangUps = 0
  BY RouterAssumption DEF LookupInit, RouterAssumption
<1>3. \A i \in Providers : failures[i] = 0 /\ own[i] = 0 /\ ~isOpen(i)
  BY DEF LookupInit, Init, isOpen
<1>. QED  BY <1>1, <1>2, <1>3, FS_EmptySet DEF ChargeInv

(* Nobody is marked and no charge is added. *)
LEMMA QuietSteps ==
  ASSUME ChargeInv, LookupInv, UNCHANGED <<failures, own, hangUps>>,
         \A i \in Providers : isOpen(i)' => isOpen(i),
         \A i \in Providers : Charging(i)' \subseteq Charging(i)
  PROVE  ChargeInv'
<1>. SUFFICES ASSUME NEW i \in Providers
              PROVE  /\ isOpen(i)' => failures'[i] = Threshold
                     /\ IsFiniteSet(Charging(i)')
                     /\ Cardinality(Charging(i)') <= hangUps'
                     /\ failures'[i] + Cardinality(Charging(i)') <= own'[i] + hangUps'
  BY DEF ChargeInv
<1>1. IsFiniteSet(Charging(i)') /\ Cardinality(Charging(i)') <= Cardinality(Charging(i))
  BY FS_Subset DEF ChargeInv
<1>2. Cardinality(Charging(i)) \in Nat /\ Cardinality(Charging(i)') \in Nat
  BY <1>1, FS_CardinalityType DEF ChargeInv
<1>3. failures[i] \in Nat /\ own[i] \in Nat /\ hangUps \in Nat
  BY RouterAssumption DEF ChargeInv, LookupInv, TypeOK, RouterAssumption
<1>. QED  BY <1>1, <1>2, <1>3 DEF ChargeInv

(* A lookup goes on, or ends: what it may still charge does not grow. *)
LEMMA StepAddsNoCharge ==
  ASSUME LookupInv, NEW k \in Callers, Fetch(k) \/ Drop(k) \/ Step(k)
  PROVE  /\ \A i \in Providers : Charging(i)' \subseteq Charging(i)
         /\ \A d \in Callers \ {k} : canceled'[d] = canceled[d] /\ at'[d] = at[d]
         /\ canceled'[k] => canceled[k] /\ at'[k] \in {at[k], at[k] + 1}
<1>1. \A d \in Callers \ {k} : canceled'[d] = canceled[d] /\ at'[d] = at[d]
  BY DEF LookupInv, TypeOK, Fetch, Drop, Step, SkipUnsupported, SkipOpen, Admit,
         AttemptSucceeds, AttemptFails, ProviderFails, ReturnError, advance, leave
<1>2. canceled'[k] => canceled[k] /\ at'[k] \in {at[k], at[k] + 1}
  BY DEF LookupInv, TypeOK, Stand, Fetch, Drop, Step, SkipUnsupported, SkipOpen, Admit,
         AttemptSucceeds, AttemptFails, ProviderFails, ReturnError, advance, leave
<1>3. ASSUME NEW i \in Providers
      PROVE  Charging(i)' \subseteq Charging(i)
  <2>1. /\ i \in Int /\ \A d \in Callers : at[d] \in Int
        /\ at'[k] \in {at[k], at[k] + 1} /\ at'[k] <= i => at[k] <= i
    BY RouterAssumption DEF LookupInv, TypeOK, Providers, RouterAssumption
  <2>. QED  BY <1>1, <1>2, <2>1 DEF Charging, Keys
<1>. QED  BY <1>1, <1>2, <1>3

(* A step of the router that marks no breaker is none of the history's. *)
LEMMA UnmarkedSteps ==
  ASSUME LookupInv, ChargeInv, NEW k \in Keys, RouterStep(k),
         ~AttemptSucceeds(k), ~ProviderFails(k)
  PROVE  UNCHANGED <<failures, openFor, own, hangUps>>
<1>1. UNCHANGED <<failures, openFor, hangUps>>
  BY DEF RouterStep, Step, SkipUnsupported, SkipOpen, Admit, AttemptFails, ReturnError,
         breakerVars
<1>2. \A i \in Providers : i = at[k] =>
        outcome'[k][i] \in {outcome[k][i], "unsupported", "open"}
  BY DEF RouterStep, Step, SkipUnsupported, SkipOpen, Admit, AttemptFails, ReturnError,
         advance, leave, LookupInv, TypeOK, Keys
<1>3. own' = [i \in Providers |->
               IF i # at[k] \/ outcome'[k][i] = outcome[k][i] THEN own[i]
               ELSE IF outcome'[k][i] = "ok" THEN 0
               ELSE IF outcome'[k][i] = "failed" /\ ~canceled[k]
                 THEN atThreshold(own[i] + 1) ELSE own[i]]
  BY DEF RouterStep
<1>4. \A i \in Providers : own'[i] = own[i]
  BY <1>2, <1>3
<1>5. own \in [Providers -> 0 .. Threshold] /\ own' = [i \in Providers |-> own'[i]]
  BY <1>3 DEF ChargeInv
<1>6. own' = own
  BY <1>4, <1>5
<1>. QED  BY <1>1, <1>6

(* The charge of a context that ends is covered by the count of those. *)
LEMMA HangUpIsCounted ==
  ASSUME LookupInv, ChargeInv, NEW k \in Keys, HangUp(k)
  PROVE  ChargeInv'
<1>1. /\ canceled' = [canceled EXCEPT ![k] = TRUE] /\ hangUps' = hangUps + 1
      /\ UNCHANGED <<failures, openFor, at, own>>
  BY DEF HangUp, Cancel, breakerVars
<1>2. ASSUME NEW i \in Providers
      PROVE  /\ isOpen(i)' => failures'[i] = Threshold
             /\ IsFiniteSet(Charging(i)')
             /\ Cardinality(Charging(i)') <= hangUps'
             /\ failures'[i] + Cardinality(Charging(i)') <= own'[i] + hangUps'
  <2>1. Charging(i)' \subseteq Charging(i) \cup {k}
    BY <1>1 DEF Charging, LookupInv, TypeOK, Keys
  <2>2. /\ IsFiniteSet(Charging(i) \cup {k})
        /\ Cardinality(Charging(i) \cup {k}) <= Cardinality(Charging(i)) + 1
        /\ Cardinality(Charging(i) \cup {k}) \in Nat
        /\ Cardinality(Charging(i)) \in Nat
    <3>1. IsFiniteSet(Charging(i))
      BY DEF ChargeInv
    <3>2. Cardinality(Charging(i)) \in Nat
      BY <3>1, FS_CardinalityType
    <3>3. /\ IsFiniteSet(Charging(i) \cup {k})
          /\ \/ Cardinality(Charging(i) \cup {k}) = Cardinality(Charging(i))
             \/ Cardinality(Charging(i) \cup {k}) = Cardinality(Charging(i)) + 1
      BY <3>1, FS_AddElement
    <3>. QED  BY <3>2, <3>3
  <2>3. /\ IsFiniteSet(Charging(i)')
        /\ Cardinality(Charging(i)') <= Cardinality(Charging(i) \cup {k})
    BY <2>1, <2>2, FS_Subset
  <2>4. Cardinality(Charging(i)') \in Nat
    BY <2>3, FS_CardinalityType
  <2>5. failures[i] \in Nat /\ own[i] \in Nat /\ hangUps \in Nat
    BY RouterAssumption DEF ChargeInv, LookupInv, TypeOK, RouterAssumption
  <2>. QED  BY <1>1, <2>2, <2>3, <2>4, <2>5 DEF ChargeInv, isOpen
<1>. QED  BY <1>1, <1>2 DEF ChargeInv

(* A provider that is being called has not been told of yet. *)
LEMMA CalledIsUntold ==
  ASSUME LookupInv, NEW k \in Keys, pc[k] = "call"
  PROVE  at[k] \in Providers /\ outcome[k][at[k]] = "none"
<1>1. at[k] \in Providers /\ out[k] = "none" /\ Way(k)
  BY DEF LookupInv, TypeOK, Stand, Keys
<1>2. at[k] >= at[k]
  BY <1>1, RouterAssumption DEF Providers, RouterAssumption
<1>. QED  BY <1>1, <1>2 DEF Way

(* An answer clears the provider's count and its history. *)
LEMMA SuccessClears ==
  ASSUME LookupInv, ChargeInv, NEW k \in Keys, NEW p \in Providers, p = at[k],
         RouterStep(k), AttemptSucceeds(k)
  PROVE  ChargeInv'
<1>1. /\ outcome[k][p] = "none" /\ outcome'[k][p] = "ok"
      /\ failures' = [failures EXCEPT ![p] = 0] /\ openFor' = [openFor EXCEPT ![p] = 0]
  <2>1. outcome[k][p] = "none"
    BY CalledIsUntold DEF AttemptSucceeds
  <2>2. outcome' = [outcome EXCEPT ![k][p] = "ok"] /\ markSuccess(p)
    BY DEF AttemptSucceeds
  <2>3. outcome'[k][p] = "ok"
    BY <2>2 DEF LookupInv, TypeOK, Keys
  <2>. QED  BY <2>1, <2>2, <2>3 DEF markSuccess
<1>2. own' = [own EXCEPT ![p] = 0] /\ hangUps' = hangUps
  BY <1>1 DEF RouterStep, ChargeInv
<1>3. \A i \in Providers : Charging(i)' \subseteq Charging(i)
  BY StepAddsNoCharge DEF Step, Keys
<1>4. ASSUME NEW i \in Providers
      PROVE  /\ isOpen(i)' => failures'[i] = Threshold
             /\ IsFiniteSet(Charging(i)')
             /\ Cardinality(Charging(i)') <= hangUps'
             /\ failures'[i] + Cardinality(Charging(i)') <= own'[i] + hangUps'
  <2>1. IsFiniteSet(Charging(i)') /\ Cardinality(Charging(i)') <= Cardinality(Charging(i))
    BY <1>3, FS_Subset DEF ChargeInv
  <2>2. Cardinality(Charging(i)) \in Nat /\ Cardinality(Charging(i)') \in Nat
    BY <2>1, FS_CardinalityType DEF ChargeInv
  <2>3. failures[i] \in Nat /\ own[i] \in Nat /\ hangUps \in Nat
    BY RouterAssumption DEF ChargeInv, LookupInv, TypeOK, RouterAssumption
  <2>4. CASE i = p
    <3>1. failures'[i] = 0 /\ own'[i] = 0 /\ openFor'[i] = 0
      BY <1>1, <1>2, <2>4 DEF ChargeInv, LookupInv, TypeOK
    <3>. QED  BY <1>2, <2>1, <2>2, <2>3, <3>1 DEF ChargeInv, isOpen
  <2>5. CASE i # p
    <3>1. failures'[i] = failures[i] /\ own'[i] = own[i] /\ openFor'[i] = openFor[i]
      BY <1>1, <1>2, <2>5 DEF ChargeInv, LookupInv, TypeOK
    <3>. QED  BY <1>2, <2>1, <2>2, <2>3, <3>1 DEF ChargeInv, isOpen
  <2>. QED  BY <2>4, <2>5
<1>5. own' \in [Providers -> 0 .. Threshold] /\ hangUps' \in Nat
  BY <1>1, <1>2, RouterAssumption DEF ChargeInv, RouterAssumption
<1>. QED  BY <1>4, <1>5 DEF ChargeInv

(* A failure is one of a lookup that was waited for, or a charge that is now
   borne: the lookup moves on and cannot charge this provider again.      *)
LEMMA FailureIsAccountedFor ==
  ASSUME LookupInv, ChargeInv, NEW k \in Keys, NEW p \in Providers, p = at[k],
         RouterStep(k), ProviderFails(k)
  PROVE  ChargeInv'
<1>type. /\ Threshold \in Nat \ {0} /\ failures \in [Providers -> 0 .. Threshold]
         /\ own \in [Providers -> 0 .. Threshold] /\ hangUps \in Nat
         /\ openFor \in [Providers -> 0 .. Cooldown] /\ at \in [Callers -> 1 .. N + 1]
         /\ N \in Nat /\ Cooldown \in Nat
  BY RouterAssumption DEF LookupInv, ChargeInv, TypeOK, RouterAssumption
<1>1. /\ outcome[k][p] = "none" /\ outcome'[k][p] = "failed"
      /\ at' = [at EXCEPT ![k] = @ + 1] /\ UNCHANGED canceled /\ markFailure(p)
  <2>1. outcome[k][p] = "none"
    BY CalledIsUntold DEF ProviderFails
  <2>2. /\ outcome' = [outcome EXCEPT ![k][p] = "failed"] /\ markFailure(p)
        /\ at' = [at EXCEPT ![k] = @ + 1] /\ UNCHANGED canceled
    BY DEF ProviderFails, advance
  <2>3. outcome'[k][p] = "failed"
    BY <2>2 DEF LookupInv, TypeOK, Keys
  <2>. QED  BY <2>1, <2>2, <2>3
<1>2. /\ own' = [own EXCEPT ![p] = IF canceled[k] THEN @ ELSE atThreshold(@ + 1)]
      /\ hangUps' = hangUps
  BY <1>1 DEF RouterStep, ChargeInv
<1>3. \A i \in Providers : Charging(i)' \subseteq Charging(i)
  BY StepAddsNoCharge DEF Step, Keys
<1>4. atThreshold(failures[p] + 1) \in 0 .. Threshold
      /\ atThreshold(failures[p] + 1) <= failures[p] + 1
  BY <1>type, <1>1 DEF atThreshold
<1>5. own' \in [Providers -> 0 .. Threshold]
  BY <1>type, <1>1, <1>2 DEF atThreshold
<1>6. ASSUME NEW i \in Providers, i # p
      PROVE  /\ isOpen(i)' => failures'[i] = Threshold
             /\ IsFiniteSet(Charging(i)')
             /\ Cardinality(Charging(i)') <= hangUps'
             /\ failures'[i] + Cardinality(Charging(i)') <= own'[i] + hangUps'
  <2>1. IsFiniteSet(Charging(i)') /\ Cardinality(Charging(i)') <= Cardinality(Charging(i))
    BY <1>3, FS_Subset DEF ChargeInv
  <2>2. Cardinality(Charging(i)) \in Nat /\ Cardinality(Charging(i)') \in Nat
    BY <2>1, FS_CardinalityType DEF ChargeInv
  <2>3. failures'[i] = failures[i] /\ own'[i] = own[i] /\ openFor'[i] = openFor[i]
    BY <1>type, <1>1, <1>2, <1>6 DEF markFailure
  <2>. QED  BY <1>type, <1>2, <2>1, <2>2, <2>3 DEF ChargeInv, isOpen
<1>7. /\ isOpen(p)' => failures'[p] = Threshold
      /\ IsFiniteSet(Charging(p)')
      /\ Cardinality(Charging(p)') <= hangUps'
      /\ failures'[p] + Cardinality(Charging(p)') <= own'[p] + hangUps'
  <2>1. IsFiniteSet(Charging(p)') /\ Cardinality(Charging(p)') <= Cardinality(Charging(p))
    BY <1>1, <1>3, FS_Subset DEF ChargeInv
  <2>2. Cardinality(Charging(p)) \in Nat /\ Cardinality(Charging(p)') \in Nat
    BY <1>1, <2>1, FS_CardinalityType DEF ChargeInv
  <2>3. failures'[p] = atThreshold(failures[p] + 1)
    BY <1>type, <1>1 DEF markFailure
  <2>4. isOpen(p)' => failures'[p] = Threshold
    <3>1. CASE atThreshold(failures[p] + 1) = Threshold
      BY <2>3, <3>1
    <3>2. CASE atThreshold(failures[p] + 1) # Threshold
      <4>1. openFor'[p] = openFor[p] /\ failures[p] # Threshold
        BY <1>type, <1>1, <3>2 DEF markFailure, atThreshold
      <4>. QED  BY <1>1, <4>1 DEF ChargeInv, isOpen
    <3>. QED  BY <3>1, <3>2
  <2>5. failures[p] + Cardinality(Charging(p)) <= own[p] + hangUps
        /\ Cardinality(Charging(p)) <= hangUps
    BY <1>1 DEF ChargeInv
  <2>6. CASE canceled[k]
    <3>1. k \in Charging(p) /\ k \notin Charging(p)'
      BY <1>type, <1>1, <2>6 DEF Charging, Keys, Providers
    <3>2. Charging(p)' \subseteq Charging(p) \ {k}
      BY <1>1, <1>3, <3>1
    <3>3. /\ IsFiniteSet(Charging(p) \ {k})
          /\ Cardinality(Charging(p) \ {k}) = Cardinality(Charging(p)) - 1
      BY <1>1, <3>1, FS_RemoveElement DEF ChargeInv
    <3>4. Cardinality(Charging(p)') <= Cardinality(Charging(p)) - 1
      BY <3>2, <3>3, FS_Subset
    <3>5. own'[p] = own[p]
      BY <1>type, <1>1, <1>2, <2>6
    <3>. QED  BY <1>type, <1>1, <1>2, <1>4, <2>1, <2>2, <2>3, <2>4, <2>5, <3>4, <3>5
  <2>7. CASE ~canceled[k]
    <3>1. own'[p] = atThreshold(own[p] + 1)
      BY <1>type, <1>1, <1>2, <2>7
    <3>2. atThreshold(own[p] + 1) = own[p] + 1 \/ atThreshold(own[p] + 1) = Threshold
      BY <1>type, <1>1 DEF atThreshold
    <3>. QED  BY <1>type, <1>1, <1>2, <1>4, <2>1, <2>2, <2>3, <2>4, <2>5, <3>1, <3>2
  <2>. QED  BY <2>6, <2>7
<1>. QED  BY <1>type, <1>2, <1>5, <1>6, <1>7 DEF ChargeInv

LEMMA NextCharge == LookupInv /\ ChargeInv /\ [LookupNext]_lookupVars => ChargeInv'
<1>. SUFFICES ASSUME LookupInv, ChargeInv, [LookupNext]_lookupVars
              PROVE  ChargeInv'
  OBVIOUS
<1>1. CASE CoolDown
  <2>1. UNCHANGED <<failures, own, hangUps, canceled, at>>
    BY <1>1 DEF CoolDown, Tick, fetchVars
  <2>2. \A i \in Providers : isOpen(i)' => isOpen(i)
    BY <1>1, RouterAssumption
    DEF CoolDown, Tick, isOpen, LookupInv, TypeOK, RouterAssumption
  <2>3. \A i \in Providers : Charging(i)' \subseteq Charging(i)
    BY <2>1 DEF Charging
  <2>. QED  BY <2>1, <2>2, <2>3, QuietSteps
<1>2. ASSUME NEW k \in Keys, RouterStep(k)
      PROVE  ChargeInv'
  <2>1. CASE AttemptSucceeds(k)
    BY <1>2, <2>1, CalledIsUntold, SuccessClears DEF AttemptSucceeds
  <2>2. CASE ProviderFails(k)
    BY <1>2, <2>2, CalledIsUntold, FailureIsAccountedFor DEF ProviderFails
  <2>3. CASE ~AttemptSucceeds(k) /\ ~ProviderFails(k)
    <3>1. UNCHANGED <<failures, openFor, own, hangUps>>
      BY <1>2, <2>3, UnmarkedSteps
    <3>2. \A i \in Providers : Charging(i)' \subseteq Charging(i)
      BY <1>2, StepAddsNoCharge DEF RouterStep, Keys
    <3>. QED  BY <3>1, <3>2, QuietSteps DEF isOpen
  <2>. QED  BY <2>1, <2>2, <2>3
<1>3. ASSUME NEW k \in Keys, LeaderReturns(k) \/ (\E p \in Procs : Search(p, k))
      PROVE  ChargeInv'
  <2>1. /\ Drop(k) \/ Fetch(k)
        /\ UNCHANGED <<failures, openFor, own, hangUps>>
    BY <1>3 DEF LeaderReturns, Search, Drop, Fetch, breakerVars
  <2>2. \A i \in Providers : Charging(i)' \subseteq Charging(i)
    BY <2>1, StepAddsNoCharge DEF Keys
  <2>. QED  BY <2>1, <2>2, QuietSteps DEF isOpen
<1>4. ASSUME NEW k \in Keys, HangUp(k)
      PROVE  ChargeInv'
  BY <1>4, HangUpIsCounted
<1>5. ASSUME UNCHANGED <<vars, own, hangUps>>
      PROVE  ChargeInv'
  BY <1>5 DEF vars, ChargeInv, Charging, isOpen
<1>6. ASSUME NEW p \in Procs, NEW k \in Keys, Follow(p, k)
      PROVE  UNCHANGED <<vars, own, hangUps>>
  BY <1>6 DEF Follow
<1>7. ASSUME NEW p \in Procs, FollowerReturns(p)
      PROVE  UNCHANGED <<vars, own, hangUps>>
  BY <1>7 DEF FollowerReturns
<1>8. CASE UNCHANGED lookupVars
  BY <1>5, <1>8 DEF lookupVars
<1>. QED  BY <1>1, <1>2, <1>3, <1>4, <1>5, <1>6, <1>7, <1>8 DEF LookupNext, Lead

(* What a circuit breaker holds is accounted for by the lookups that were
   waited for and the contexts that ended.                                *)
THEOREM ChargeInvHolds == LookupSpec => []ChargeInv
  BY InitCharge, NextCharge, LookupInvHolds, PTL DEF LookupSpec

(* Single flight and circuit breaker together: for any number of requests and
   keys, a provider is shut off only by lookups somebody waited for, each
   counted once, and by clients that went away, each counted once.        *)
THEOREM OpenCircuitsAreAccountedFor == LookupSpec => []OpenIsAccountedFor
<1>1. LookupInv /\ ChargeInv => OpenIsAccountedFor
  <2>. SUFFICES ASSUME LookupInv, ChargeInv, NEW i \in Providers, isOpen(i)
                PROVE  own[i] + hangUps >= Threshold
    BY DEF OpenIsAccountedFor
  <2>1. Cardinality(Charging(i)) \in Nat
    BY FS_CardinalityType DEF ChargeInv
  <2>2. failures[i] = Threshold /\ Threshold \in Nat /\ own[i] \in Nat /\ hangUps \in Nat
        /\ failures[i] + Cardinality(Charging(i)) <= own[i] + hangUps
    BY RouterAssumption DEF ChargeInv, RouterAssumption
  <2>. QED  BY <2>1, <2>2
<1>. QED  BY <1>1, LookupInvHolds, ChargeInvHolds, PTL

-----------------------------------------------------------------------------
(* Who waits for whom                                                      *)

(* The lookup of k has a leader who came for k, without a result while it goes
   on and with one once it has ended.                                     *)
Led(k) ==
  /\ leader[k] = None <=> pc[k] = "idle" /\ out[k] = "none"
  /\ leader[k] # None =>
       /\ wants[leader[k]] = k
       /\ pc[k] # "idle" <=> got[leader[k]] = None

(* Who has no result yet came for a lookup that is going on. *)
Served(p) ==
  /\ wants[p] = None => got[p] = None
  /\ wants[p] # None /\ got[p] = None => pc[wants[p]] # "idle"

FlightInv ==
  /\ wants \in [Procs -> Keys \cup {None}]
  /\ got \in [Procs -> {"ok", "open", "failed", "not_found"} \cup {None}]
  /\ leader \in [Keys -> Procs \cup {None}]
  /\ \A k \in Keys : Led(k)
  /\ \A p \in Procs : Served(p)

(* A lookup on its way, for which a leader and its followers wait. *)
UnderWay(k) == pc[k] # "idle" /\ leader[k] \in Procs /\ wants[leader[k]] = k

(* Who has a result waits for nobody: a leader has one only when its lookup has
   ended, and can take its call out of the map.                           *)
Leaves(p) ==
  /\ got[p] # None
  /\ \A k \in Keys : leader[k] = p => wants[p] = k /\ pc[k] = "idle" /\ out[k] # "none"

NobodyWaitsInVain ==
  \A p \in Procs : wants[p] # None => UnderWay(wants[p]) \/ Leaves(p)

(* At first nobody has come. *)
LEMMA InitFlights == LookupInit => FlightInv
  BY LookupAssumption DEF LookupInit, Init, FlightInv, Led, Served, Keys

(* The router's answers are results. *)
LEMMA StepEnds ==
  ASSUME LookupInv, NEW k \in Keys, Step(k)
  PROVE  /\ pc[k] # "idle" /\ out[k] = "none"
         /\ \A j \in Keys \ {k} : pc'[j] = pc[j] /\ out'[j] = out[j]
         /\ \/ pc'[k] # "idle" /\ out'[k] = "none"
            \/ pc'[k] = "idle" /\ out'[k] \in {"ok", "open", "failed", "not_found"}
<1>1. pc[k] # "idle" /\ out[k] = "none"
  <2>1. pc[k] # "idle"
    BY DEF Step, SkipUnsupported, SkipOpen, Admit, AttemptSucceeds, AttemptFails,
           ProviderFails, ReturnError
  <2> QED  BY <2>1 DEF LookupInv, Stand, Keys
<1>2. CASE SkipUnsupported(k) \/ SkipOpen(k) \/ Admit(k) \/ ProviderFails(k)
  BY <1>1, <1>2
     DEF SkipUnsupported, SkipOpen, Admit, ProviderFails, advance, LookupInv, TypeOK, Keys
<1>3. CASE AttemptFails(k)
  BY <1>1, <1>3 DEF AttemptFails
<1>4. CASE AttemptSucceeds(k)
  BY <1>1, <1>4 DEF AttemptSucceeds, leave, LookupInv, TypeOK, Keys
<1>5. CASE ReturnError(k)
  <2>1. (IF firstErr[k] = "nil" THEN "not_found" ELSE firstErr[k])
          \in {"ok", "open", "failed", "not_found"}
    BY DEF LookupInv, TypeOK, Errors, Keys
  <2> QED  BY <1>1, <1>5, <2>1 DEF ReturnError, leave, LookupInv, TypeOK, Keys
<1> QED  BY <1>2, <1>3, <1>4, <1>5 DEF Step

(* Every step keeps a lookup led and its followers served. *)
LEMMA NextFlights ==
  ASSUME LookupInv, FlightInv, [LookupNext]_lookupVars
  PROVE  FlightInv'
<1> USE LookupAssumption DEF Keys
<1> DEFINE Results == {"ok", "open", "failed", "not_found"}
<1>1. CASE UNCHANGED <<pc, out, wants, got, leader>>
  BY <1>1 DEF FlightInv, Led, Served
<1>2. ASSUME NEW p \in Procs, NEW k \in Keys, Search(p, k)
      PROVE  FlightInv'
  <2>1. /\ pc[k] = "idle" /\ out[k] = "none" /\ wants[p] = None
        /\ pc' = [pc EXCEPT ![k] = "look"] /\ wants' = [wants EXCEPT ![p] = k]
        /\ leader' = [leader EXCEPT ![k] = p] /\ UNCHANGED <<out, got>>
    BY <1>2 DEF Search, Fetch, Flight!Start
  <2>2. pc \in [Keys -> {"idle", "look", "call"}]
    BY DEF LookupInv, TypeOK
  <2>3. got[p] = None /\ \A j \in Keys : leader[j] # p
    BY <2>1 DEF FlightInv, Served, Led
  <2>4. \A j \in Keys : Led(j)'
    BY <2>1, <2>2, <2>3 DEF FlightInv, Led
  <2>5. \A q \in Procs : Served(q)'
    BY <2>1, <2>2, <2>3 DEF FlightInv, Served
  <2> QED  BY <2>1, <2>4, <2>5 DEF FlightInv
<1>3. ASSUME NEW p \in Procs, NEW k \in Keys, Follow(p, k)
      PROVE  FlightInv'
  <2>1. /\ wants[p] = None /\ wants' = [wants EXCEPT ![p] = k]
        /\ UNCHANGED <<pc, out, leader>>
        /\ \/ pc[k] # "idle" /\ UNCHANGED got
           \/ out[k] # "none" /\ out[k] # None /\ got' = [got EXCEPT ![p] = out[k]]
    BY <1>3 DEF Follow, Flight!Join, Flight!JoinLate, running, last, vars
  <2>2. out[k] \in Results \cup {"none"}
    BY DEF LookupInv, TypeOK
  <2>3. got[p] = None /\ \A j \in Keys : leader[j] # p
    BY <2>1 DEF FlightInv, Served, Led
  <2>4. \A j \in Keys : Led(j)'
    BY <2>1, <2>2, <2>3 DEF FlightInv, Led
  <2>5. \A q \in Procs : Served(q)'
    BY <2>1, <2>2, <2>3 DEF FlightInv, Served
  <2>6. got' \in [Procs -> Results \cup {None}]
    BY <2>1, <2>2 DEF FlightInv
  <2> QED  BY <2>1, <2>4, <2>5, <2>6 DEF FlightInv
<1>4. ASSUME NEW k \in Keys, RouterStep(k)
      PROVE  FlightInv'
  <2>1. Step(k) /\ UNCHANGED leader
    BY <1>4 DEF RouterStep
  <2>2. /\ pc[k] # "idle" /\ out[k] = "none"
        /\ \A j \in Keys \ {k} : pc'[j] = pc[j] /\ out'[j] = out[j]
        /\ \/ pc'[k] # "idle" /\ out'[k] = "none"
           \/ pc'[k] = "idle" /\ out'[k] \in Results
    BY <2>1, StepEnds
  <2>3. CASE pc'[k] # "idle"
    <3>1. UNCHANGED <<wants, got>>
      BY <1>4, <2>3 DEF RouterStep
    <3>2. \A j \in Keys : (pc'[j] = "idle" <=> pc[j] = "idle") /\ out'[j] = out[j]
      BY <2>2, <2>3
    <3> QED  BY <2>1, <3>1, <3>2 DEF FlightInv, Led, Served
  <2>4. CASE pc'[k] = "idle"
    <3>1. /\ UNCHANGED wants
          /\ got' = [p \in Procs |-> IF wants[p] = k /\ got[p] = None THEN out'[k] ELSE got[p]]
      BY <1>4, <2>4 DEF RouterStep, Close, Flight!Finish
    <3>2. out'[k] \in Results
      BY <2>2, <2>4
    <3>3. got' \in [Procs -> Results \cup {None}]
      BY <3>1, <3>2 DEF FlightInv
    <3>4. ASSUME NEW j \in Keys
          PROVE  Led(j)'
      <4>1. CASE j = k
        <5>1. leader[k] \in Procs /\ wants[leader[k]] = k /\ got[leader[k]] = None
          BY <2>2 DEF FlightInv, Led
        <5> QED  BY <4>1, <5>1, <2>1, <2>2, <2>4, <3>1, <3>2 DEF Led
      <4>2. CASE j # k
        <5>1. leader[j] # None => leader[j] \in Procs /\ wants[leader[j]] = j
          BY DEF FlightInv, Led
        <5>2. leader[j] # None => got'[leader[j]] = got[leader[j]]
          BY <4>2, <5>1, <3>1
        <5> QED  BY <4>2, <5>1, <5>2, <2>1, <2>2, <3>1 DEF FlightInv, Led
      <4> QED  BY <4>1, <4>2
    <3>5. ASSUME NEW p \in Procs
          PROVE  Served(p)'
      <4>1. wants[p] \in Keys \cup {None} /\ Served(p)
        BY DEF FlightInv
      <4>2. wants[p] = k => got'[p] # None
        BY <3>1, <3>2
      <4>3. wants[p] # k => got'[p] = got[p]
        BY <3>1
      <4> QED  BY <4>1, <4>2, <4>3, <2>2, <3>1 DEF Served
    <3> QED  BY <2>1, <3>1, <3>3, <3>4, <3>5 DEF FlightInv
  <2> QED  BY <2>3, <2>4
<1>5. ASSUME NEW p \in Procs, FollowerReturns(p)
      PROVE  FlightInv'
  <2>1. /\ \A k \in Keys : leader[k] # p
        /\ wants' = [wants EXCEPT ![p] = None] /\ got' = [got EXCEPT ![p] = None]
        /\ UNCHANGED <<pc, out, leader>>
    BY <1>5 DEF FollowerReturns, Flight!Leave, vars
  <2> QED  BY <2>1 DEF FlightInv, Led, Served
<1>6. ASSUME NEW k \in Keys, LeaderReturns(k)
      PROVE  FlightInv'
  <2> DEFINE p == leader[k]
  <2>1. /\ p # None /\ pc[k] = "idle" /\ out[k] # "none"
        /\ out' = [out EXCEPT ![k] = "none"] /\ leader' = [leader EXCEPT ![k] = None]
        /\ wants' = [wants EXCEPT ![p] = None] /\ got' = [got EXCEPT ![p] = None]
        /\ UNCHANGED pc
    BY <1>6 DEF LeaderReturns, Drop, Flight!Retire, Flight!Leave
  <2>2. /\ p \in Procs /\ wants[p] = k
        /\ \A j \in Keys : j # k => leader[j] # p
    BY <2>1 DEF FlightInv, Led
  <2>3. out \in [Keys -> Results \cup {"none"}]
    BY DEF LookupInv, TypeOK
  <2> HIDE DEF p
  <2>4. \A j \in Keys : Led(j)'
    BY <2>1, <2>2, <2>3 DEF FlightInv, Led
  <2>5. \A q \in Procs : Served(q)'
    BY <2>1, <2>2 DEF FlightInv, Served
  <2> QED  BY <2>1, <2>2, <2>4, <2>5 DEF FlightInv
<1>7. ASSUME NEW k \in Keys, HangUp(k)
      PROVE  UNCHANGED <<pc, out, wants, got, leader>>
  BY <1>7 DEF HangUp, Cancel
<1>8. CoolDown => UNCHANGED <<pc, out, wants, got, leader>>
  BY DEF CoolDown, Tick, fetchVars
<1>9. UNCHANGED lookupVars => UNCHANGED <<pc, out, wants, got, leader>>
  BY DEF lookupVars, vars
<1> QED
  BY <1>1, <1>2, <1>3, <1>4, <1>5, <1>6, <1>7, <1>8, <1>9 DEF LookupNext, Lead

(* Everybody who waits has somebody to wait for. *)
THEOREM FlightInvHolds == LookupSpec => []FlightInv
<1>1. LookupSpec => LookupInit /\ [][LookupNext]_lookupVars
  BY PTL DEF LookupSpec
<1> QED  BY <1>1, InitFlights, NextFlights, LookupInvHolds, PTL

(* The safety half of EverySearchReturns: who came for a key leaves, or waits for
   a lookup that is on its way with a leader of its own, however leaders and
   followers come and go and whoever hangs up.                            *)
THEOREM NobodyIsForgotten == LookupSpec => []NobodyWaitsInVain
<1>1. FlightInv => NobodyWaitsInVain
  <2> SUFFICES ASSUME FlightInv, NEW p \in Procs, wants[p] # None
               PROVE  UnderWay(wants[p]) \/ Leaves(p)
    BY DEF NobodyWaitsInVain
  <2>1. CASE got[p] = None
    <3>1. wants[p] \in Keys /\ pc[wants[p]] # "idle"
      BY <2>1 DEF FlightInv, Served
    <3> QED  BY <3>1 DEF FlightInv, Led, UnderWay
  <2>2. CASE got[p] # None
    <3>1. \A k \in Keys : leader[k] = p => leader[k] # None
      BY LookupAssumption
    <3> QED  BY <2>2, <3>1 DEF FlightInv, Led, Leaves
  <2> QED  BY <2>1, <2>2
<1> QED  BY <1>1, FlightInvHolds, PTL

-----------------------------------------------------------------------------
(* The steps that a lookup has left, at most: for each provider to come a look
   and retries + 1 calls, and the error at the end.                       *)
stepsLeft(k) ==
  LET fromHere == (N + 1 - at[k]) * (retries + 2)
  IN  CASE pc[k] = "idle" -> 0
        [] pc[k] = "look" -> fromHere + 1
        [] pc[k] = "call" -> fromHere - attempt[k]

(* No step of a lookup brings it back to where it has been, whatever others do
   to the breakers meanwhile and whether or not its context is done.      *)
LookupsGetShorter ==
  [][\A k \in Keys : pc[k] # "idle" =>
       \/ UNCHANGED <<pc[k], at[k], attempt[k]>>
       \/ stepsLeft(k)' < stepsLeft(k)]_lookupVars

(* The attempts of a lookup that is not calling anybody. *)
FreshAttempt == \A k \in Keys : pc[k] # "call" => attempt[k] = 0

(* Behind a provider are the calls of one provider less. *)
LEMMA OneLess ==
  ASSUME NEW m \in Int, NEW w \in Int
  PROVE  (m - 1) * w = m * w - w
  OBVIOUS

(* So a lookup has a bounded number of steps, and one as long as it goes on. *)
LEMMA StepsAreBounded ==
  ASSUME LookupInv, NEW k \in Keys
  PROVE  /\ stepsLeft(k) \in 0 .. N * (retries + 2) + 1
         /\ pc[k] # "idle" => stepsLeft(k) > 0
<1> DEFINE m == N + 1 - at[k]
           w == retries + 2
<1>1. /\ N \in Nat /\ retries \in Nat /\ at[k] \in 1 .. N + 1 /\ attempt[k] \in 0 .. retries
      /\ pc[k] \in {"idle", "look", "call"}
      /\ pc[k] = "call" => at[k] \in 1 .. N
  BY RouterAssumption DEF LookupInv, TypeOK, Keys, Stand, Providers
<1>2. m \in 0 .. N /\ w \in Nat /\ w > 0 /\ (pc[k] = "call" => m > 0)
  BY <1>1
<1>3. stepsLeft(k) = CASE pc[k] = "idle" -> 0
                       [] pc[k] = "look" -> m * w + 1
                       [] pc[k] = "call" -> m * w - attempt[k]
  BY DEF stepsLeft
<1>4. w = retries + 2
  OBVIOUS
<1> HIDE DEF m, w
<1>5. m * w \in Nat /\ m * w <= N * w /\ (m > 0 => m * w >= w)
  BY <1>1, <1>2
<1>6. N * w \in Nat
  BY <1>1, <1>2
<1> QED  BY <1>1, <1>2, <1>3, <1>4, <1>5, <1>6

(* Of another key nothing is changed. *)
LEMMA StepsOfOthers ==
  ASSUME LookupInv, NEW k \in Keys, Step(k), NEW j \in Keys, j # k
  PROVE  UNCHANGED <<pc[j], at[j], attempt[j]>>
  BY DEF Step, SkipUnsupported, SkipOpen, Admit, AttemptSucceeds, AttemptFails, ProviderFails,
         ReturnError, advance, leave, LookupInv, TypeOK, Keys

(* Its own step leaves it with fewer. *)
LEMMA StepGetsShorter ==
  ASSUME LookupInv, LookupInv', FreshAttempt, NEW k \in Keys, Step(k)
  PROVE  stepsLeft(k)' < stepsLeft(k)
<1> DEFINE m == N + 1 - at[k]
           w == retries + 2
<1>1. /\ N \in Nat /\ retries \in Nat /\ at[k] \in 1 .. N + 1 /\ attempt[k] \in 0 .. retries
      /\ pc \in [Keys -> {"idle", "look", "call"}] /\ at \in [Keys -> 1 .. N + 1]
      /\ attempt \in [Keys -> 0 .. retries]
  BY RouterAssumption DEF LookupInv, TypeOK, Keys
<1>2. m \in Nat /\ w \in Nat /\ w > 0 /\ w = retries + 2
  BY <1>1
<1>3. stepsLeft(k) = CASE pc[k] = "idle" -> 0
                       [] pc[k] = "look" -> m * w + 1
                       [] pc[k] = "call" -> m * w - attempt[k]
  BY DEF stepsLeft
<1>4. pc[k] # "idle" /\ stepsLeft(k) \in Nat /\ stepsLeft(k) > 0
  <2>1. pc[k] # "idle"
    BY StepEnds
  <2> QED  BY <2>1, StepsAreBounded
<1>5. CASE SkipUnsupported(k) \/ SkipOpen(k) \/ ProviderFails(k)
  <2>1. /\ pc'[k] = "look" /\ at'[k] = at[k] + 1
        /\ pc[k] \in {"look", "call"}
    BY <1>1, <1>5 DEF SkipUnsupported, SkipOpen, ProviderFails, advance
  <2>2. stepsLeft(k)' = (m - 1) * w + 1
    <3>1. N + 1 - at'[k] = m - 1
      BY <1>1, <2>1
    <3>2. stepsLeft(k)' = (N + 1 - at'[k]) * w + 1
      BY <2>1 DEF stepsLeft
    <3> QED  BY <3>1, <3>2
  <2> HIDE DEF m, w
  <2>3. (m - 1) * w = m * w - w /\ m * w \in Int
    BY <1>2, OneLess
  <2> QED  BY <1>1, <1>2, <1>3, <2>1, <2>2, <2>3
<1>6. CASE Admit(k)
  <2>1. pc[k] = "look" /\ pc'[k] = "call" /\ at'[k] = at[k] /\ attempt'[k] = attempt[k]
        /\ attempt[k] = 0
    BY <1>1, <1>6 DEF Admit, FreshAttempt
  <2>2. stepsLeft(k)' = m * w - attempt[k]
    BY <2>1 DEF stepsLeft
  <2> HIDE DEF m, w
  <2>3. m * w \in Int
    BY <1>2
  <2> QED  BY <1>3, <2>1, <2>2, <2>3
<1>7. CASE AttemptFails(k)
  <2>1. pc[k] = "call" /\ pc'[k] = "call" /\ at'[k] = at[k] /\ attempt'[k] = attempt[k] + 1
    BY <1>1, <1>7 DEF AttemptFails
  <2>2. stepsLeft(k)' = m * w - (attempt[k] + 1)
    BY <2>1 DEF stepsLeft
  <2> HIDE DEF m, w
  <2>3. m * w \in Int
    BY <1>2
  <2> QED  BY <1>1, <1>3, <2>1, <2>2, <2>3
<1>8. CASE AttemptSucceeds(k) \/ ReturnError(k)
  <2>1. pc'[k] = "idle"
    BY <1>1, <1>8 DEF AttemptSucceeds, ReturnError, leave
  <2>2. stepsLeft(k)' = 0
    BY <2>1 DEF stepsLeft
  <2> QED  BY <1>4, <2>2
<1> QED  BY <1>5, <1>6, <1>7, <1>8 DEF Step

(* Attempts are counted anew for every provider. *)
LEMMA NextFresh ==
  ASSUME LookupInv, FreshAttempt, [LookupNext]_lookupVars
  PROVE  FreshAttempt'
<1>1. RouterMoves
  BY LookupMovesRouter
<1>2. ASSUME NEW k \in Keys, Step(k)
      PROVE  FreshAttempt'
  BY <1>2 DEF Step, SkipUnsupported, SkipOpen, Admit, AttemptSucceeds, AttemptFails,
     ProviderFails, ReturnError, advance, leave, LookupInv, TypeOK, Keys, FreshAttempt
<1>3. ASSUME NEW k \in Keys, Fetch(k) \/ Drop(k) \/ Cancel(k)
      PROVE  FreshAttempt'
  BY <1>3 DEF Fetch, Drop, Cancel, LookupInv, TypeOK, Keys, FreshAttempt
<1>4. CASE Tick \/ UNCHANGED vars
  BY <1>4 DEF Tick, vars, fetchVars, FreshAttempt
<1> QED  BY <1>1, <1>2, <1>3, <1>4 DEF RouterMoves, Keys

(* Each lookup takes at most N * (retries + 2) + 1 steps (StepsAreBounded), so that
   who waits for it waits for no more: what fairness has to add to have
   EverySearchReturns is that they are taken.                             *)
THEOREM LookupsEnd == LookupSpec => LookupsGetShorter
<1>1. LookupInit => FreshAttempt
  BY DEF LookupInit, Init, FreshAttempt, Keys
<1>2. LookupInv /\ FreshAttempt /\ [LookupNext]_lookupVars => FreshAttempt'
  BY NextFresh
<1>3. LookupInv /\ LookupInv' /\ FreshAttempt /\ [LookupNext]_lookupVars =>
        [\A k \in Keys : pc[k] # "idle" =>
           \/ UNCHANGED <<pc[k], at[k], attempt[k]>>
           \/ stepsLeft(k)' < stepsLeft(k)]_lookupVars
  <2> SUFFICES ASSUME LookupInv, LookupInv', FreshAttempt, [LookupNext]_lookupVars,
                      NEW k \in Keys, pc[k] # "idle"
               PROVE  \/ UNCHANGED <<pc[k], at[k], attempt[k]>>
                      \/ stepsLeft(k)' < stepsLeft(k)
    OBVIOUS
  <2>1. RouterMoves
    BY LookupMovesRouter
  <2>2. ASSUME NEW c \in Keys, Step(c)
        PROVE  \/ UNCHANGED <<pc[k], at[k], attempt[k]>>
               \/ stepsLeft(k)' < stepsLeft(k)
    BY <2>2, StepsOfOthers, StepGetsShorter
  <2>3. ASSUME NEW c \in Keys, Fetch(c) \/ Drop(c) \/ Cancel(c)
        PROVE  UNCHANGED <<pc[k], at[k], attempt[k]>>
    BY <2>3 DEF Fetch, Drop, Cancel, LookupInv, TypeOK, Keys
  <2>4. CASE Tick \/ UNCHANGED vars
    BY <2>4 DEF Tick, vars, fetchVars
  <2> QED  BY <2>1, <2>2, <2>3, <2>4 DEF RouterMoves, Keys
<1> QED  BY <1>1, <1>2, <1>3, LookupInvHolds, PTL DEF LookupSpec, LookupsGetShorter

-----------------------------------------------------------------------------
(* Lookups as flights                                                      *)

(* What of a flight a step of the router that does not end its lookup leaves
   alone.                                                                 *)
LEMMA SameFlight ==
  ASSUME \A k \in Keys : (pc'[k] = "idle" <=> pc[k] = "idle") /\ out'[k] = out[k],
         UNCHANGED <<wants, got>>
  PROVE  UNCHANGED Flight!flightVars
<1>1. running' = running
  BY DEF running
<1>2. last' = last
  BY DEF last
<1> QED  BY <1>1, <1>2 DEF Flight!flightVars

(* At first no flight is on its way and none has ended. *)
LEMMA InitIsFlightInit == LookupInit => Flight!FlightInit
<1> SUFFICES ASSUME LookupInit PROVE Flight!FlightInit
  OBVIOUS
<1>1. \A k \in Keys : pc[k] = "idle" /\ out[k] = "none"
  BY DEF LookupInit, Init, Keys
<1>2. running = {} /\ last = [k \in Keys |-> None]
  BY <1>1 DEF running, last
<1> QED  BY <1>2 DEF LookupInit, Flight!FlightInit

(* Every step is one of SingleFlight or none of its business. *)
LEMMA NextIsFlightNext ==
  ASSUME LookupInv, FlightInv, [LookupNext]_lookupVars
  PROVE  Flight!FlightNext \/ UNCHANGED Flight!flightVars
<1>1. ASSUME NEW p \in Procs, NEW k \in Keys, Search(p, k) \/ Follow(p, k)
      PROVE  Flight!FlightNext
  BY <1>1 DEF Search, Follow, Flight!FlightNext
<1>2. ASSUME NEW k \in Keys, RouterStep(k)
      PROVE  Flight!FlightNext \/ UNCHANGED Flight!flightVars
  <2>1. /\ pc[k] # "idle" /\ out[k] = "none"
        /\ \A j \in Keys \ {k} : pc'[j] = pc[j] /\ out'[j] = out[j]
        /\ \/ pc'[k] # "idle" /\ out'[k] = "none"
           \/ pc'[k] = "idle" /\ out'[k] \in {"ok", "open", "failed", "not_found"}
    BY <1>2, StepEnds DEF RouterStep
  <2>2. CASE pc'[k] = "idle"
    <3>1. Flight!Finish(k, out'[k])
      BY <1>2, <2>2 DEF RouterStep, Close
    <3> QED  BY <2>1, <2>2, <3>1 DEF Flight!FlightNext
  <2>3. CASE pc'[k] # "idle"
    <3>1. \A j \in Keys : (pc'[j] = "idle" <=> pc[j] = "idle") /\ out'[j] = out[j]
      BY <2>1, <2>3
    <3>2. UNCHANGED <<wants, got>>
      BY <1>2, <2>3 DEF RouterStep
    <3> QED  BY <3>1, <3>2, SameFlight
  <2> QED  BY <2>2, <2>3
<1>3. ASSUME NEW p \in Procs, FollowerReturns(p)
      PROVE  Flight!FlightNext
  <2>1. Flight!Leave(p) /\ UNCHANGED <<pc, out>>
    BY <1>3 DEF FollowerReturns, vars
  <2>2. UNCHANGED <<running, last>>
    BY <2>1 DEF running, last
  <2> QED  BY <2>1, <2>2 DEF Flight!FlightNext, Flight!Return
<1>4. ASSUME NEW k \in Keys, LeaderReturns(k)
      PROVE  Flight!FlightNext
  <2>1. leader[k] \in Procs
    BY <1>4 DEF LeaderReturns, FlightInv
  <2> QED  BY <1>4, <2>1 DEF LeaderReturns, Flight!FlightNext
<1>5. ASSUME UNCHANGED <<pc, out, wants, got>>
      PROVE  UNCHANGED Flight!flightVars
  BY <1>5, SameFlight
<1>6. ASSUME NEW k \in Keys, HangUp(k)
      PROVE  UNCHANGED <<pc, out, wants, got>>
  BY <1>6 DEF HangUp, Cancel
<1>7. CoolDown \/ UNCHANGED lookupVars => UNCHANGED <<pc, out, wants, got>>
  BY DEF CoolDown, Tick, fetchVars, lookupVars, vars
<1> QED
  BY <1>1, <1>2, <1>3, <1>4, <1>5, <1>6, <1>7 DEF LookupNext, Lead

(* A lookup that many wait for, with its fallbacks, breakers and contexts that
   end, is a single flight: one router run at a time for a key, whose result
   everybody gets who came while it ran.                                  *)
THEOREM LookupsAreSingleFlights == LookupSpec => Flight!FlightSpec
<1>1. LookupInit => Flight!FlightInit
  BY InitIsFlightInit
<1>2. LookupInv /\ FlightInv /\ [LookupNext]_lookupVars =>
        [Flight!FlightNext]_(Flight!flightVars)
  BY NextIsFlightNext
<1>3. LookupSpec => LookupInit /\ [][LookupNext]_lookupVars
  BY PTL DEF LookupSpec
<1> QED
  BY <1>1, <1>2, <1>3, FlightInvHolds, LookupInvHolds, PTL DEF Flight!FlightSpec
=============================================================================
