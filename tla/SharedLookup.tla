----------------------------- MODULE SharedLookup -----------------------------
(***************************************************************************)
(* core.Service.doSingleFlight over providers.ProviderRouter: whoever      *)
(* comes for a key that is being looked up waits for that lookup, and each *)
(* lookup runs the router once, under the context of the goroutine that    *)
(* leads it.  Lookups of different keys meet in the circuit breakers.      *)
(*                                                                         *)
(* The flights are those of SingleFlight, which FineService is shown to    *)
(* implement: a step here is a step of the router, of a flight, or one of  *)
(* each at once.  A search that the cache answers does not come here.      *)
(***************************************************************************)
EXTENDS ProviderRouter

CONSTANTS
  Procs,       \* requests and background refreshes
  MaxHangUps,  \* bound on the contexts that end while they lead a lookup
  None

ASSUME LookupAssumption ==
  /\ MaxHangUps \in Nat
  /\ None \notin Callers \cup Procs \cup {"ok", "open", "failed", "not_found"}

VARIABLES
  wants,   \* the key each process has come for
  got,     \* what it will leave with
  leader,  \* who runs the lookup of each key
  own,     \* history: lookups each provider failed since it last answered,
           \* while their leaders were waiting; more than Threshold are alike
  hangUps  \* history: leaders whose context has ended during a lookup

Keys == Callers

running == {k \in Keys : pc[k] # "idle"}
last == [k \in Keys |-> IF out[k] = "none" THEN None ELSE out[k]]

Flight == INSTANCE SingleFlight
            WITH Results <- {"ok", "open", "failed", "not_found"}

lookupVars == <<vars, wants, got, leader, own, hangUps>>

LookupInit ==
  /\ Init
  /\ wants = [p \in Procs |-> None]
  /\ got = [p \in Procs |-> None]
  /\ leader = [k \in Keys |-> None]
  /\ own = [i \in Providers |-> 0]
  /\ hangUps = 0

-----------------------------------------------------------------------------
(* The first to come for k registers a call and runs Fetch. *)
Search(p, k) ==
  /\ Fetch(k) /\ Flight!Start(p, k)
  /\ leader' = [leader EXCEPT ![k] = p]
  /\ UNCHANGED <<own, hangUps>>

(* A later one finds the call, done or not, and waits for it. *)
Follow(p, k) ==
  /\ UNCHANGED <<vars, leader, own, hangUps>>
  /\ Flight!Join(p, k) \/ Flight!JoinLate(p, k)

(* The client of the leader goes away, or the three seconds of a refresh are
   over.  Followers have contexts too, but nobody looks at them.          *)
HangUp(k) ==
  /\ hangUps < MaxHangUps /\ ~canceled[k]
  /\ Cancel(k)
  /\ hangUps' = hangUps + 1
  /\ UNCHANGED <<wants, got, leader, own>>

(* Slip: the waiting callers are left to the next flight. *)
CloseForLeader(k) ==
  /\ got' = [got EXCEPT ![leader[k]] = out'[k]]
  /\ UNCHANGED wants

(* done is closed with the result of fn. *)
Close(k) == Flight!Finish(k, out'[k])

RouterStep(k) ==
  /\ Step(k)
  /\ IF pc'[k] = "idle" THEN Close(k) ELSE UNCHANGED <<wants, got>>
  /\ own' = [i \in Providers |->
               IF i # at[k] \/ outcome'[k][i] = outcome[k][i] THEN own[i]
               ELSE IF outcome'[k][i] = "ok" THEN 0
               ELSE IF outcome'[k][i] = "failed" /\ ~canceled[k]
                 THEN atThreshold(own[i] + 1) ELSE own[i]]
  /\ UNCHANGED <<leader, hangUps>>

(* A follower wakes up and leaves. *)
FollowerReturns(p) ==
  /\ \A k \in Keys : leader[k] # p
  /\ Flight!Leave(p)
  /\ UNCHANGED <<vars, leader, own, hangUps>>

(* The leader takes its call out of the map and leaves. *)
LeaderReturns(k) ==
  /\ leader[k] # None
  /\ Drop(k) /\ Flight!Retire(leader[k], k)
  /\ leader' = [leader EXCEPT ![k] = None]
  /\ UNCHANGED <<own, hangUps>>

CoolDown == Tick /\ UNCHANGED <<wants, got, leader, own, hangUps>>

Lead(k) == RouterStep(k) \/ LeaderReturns(k)

LookupNext ==
  \/ CoolDown
  \/ \E k \in Keys : HangUp(k) \/ Lead(k)
  \/ \E p \in Procs, k \in Keys : Search(p, k) \/ Follow(p, k)
  \/ \E p \in Procs : FollowerReturns(p)

(* A provider call ends, as it runs under the router's timeout; a goroutine
   that can go on does, be it the leader of a key or a follower.          *)
LookupSpec ==
  /\ LookupInit /\ [][LookupNext]_lookupVars
  /\ WF_lookupVars(CoolDown)
  /\ \A k \in Keys : WF_lookupVars(Lead(k))
  /\ \A p \in Procs : WF_lookupVars(FollowerReturns(p))

-----------------------------------------------------------------------------
(* A circuit is open only for failures that somebody waited for: of Threshold
   lookups since the provider last answered, or of fewer and as many
   contexts that ended.  However many requests share a lookup, however
   often it retries and whatever other lookups do meanwhile, it weighs
   once; and who hangs up can weigh once on each provider, never more.    *)
OpenIsAccountedFor ==
  \A i \in Providers : isOpen(i) => own[i] + hangUps >= Threshold

(* Everybody who comes for a key leaves with a result in the end, though the
   leader's client has gone and a follower waits without a limit.         *)
EverySearchReturns == \A p \in Procs : wants[p] # None ~> wants[p] = None
=============================================================================
