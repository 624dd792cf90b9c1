--------------------------- MODULE ChatSessionProofs ---------------------------
(***************************************************************************)
(* NoTurnOverwritten, FullHistoryUnlessOrphaned and that ChatSession       *)
(* implements Conversations, for any keys, handlers, sessions and turns.   *)
(*                                                                         *)
(* A handler that has locked its session is the only one at it, so that    *)
(* what it copied is what the session still holds (Held).  The clean-up    *)
(* looks at keys that have a session, since nobody else may add or remove  *)
(* one meanwhile (Scan).  From both it follows that a conversation which   *)
(* was not orphaned has all its answers in the session the store has for   *)
(* it, and that its handlers are at that session and no other (Whole).     *)
(*                                                                         *)
(* No session is of two conversations (Apart), so that a lock, a copy or a *)
(* reply at one session is at most one conversation's, and every step is a *)
(* step of Conversations or of none.                                       *)
(*                                                                         *)
(* At the end: of the two levels of locks none is waited for in a circle,  *)
(* and a handler has only so many steps of its own.                        *)
(***************************************************************************)
EXTENDS ChatSession, TLAPS

Held(h) ==
  /\ pc[h] # "out" => key[h] \in Keys /\ turn[h] \in Turns
  /\ IF pc[h] \in {"lock", "turn"} THEN sess[h] \in Sessions ELSE sess[h] = None
  /\ pc[h] = "turn" => lock[sess[h]] = h /\ snapshot[h] = contents[sess[h]]

Scan ==
  /\ cleaner # "sleep" => \A k \in scanning : sessions[k] # None
  /\ cleaner \in {"look", "delete"} =>
       scanned \in Keys /\ scanned \notin scanning /\ sessions[scanned] # None

(* The cleaner has decided to delete the session of k. *)
doomed(k) == cleaner = "delete" /\ expired /\ scanned = k

Whole(k) ==
  /\ IF sessions[k] = None THEN answered[k] = {}
                           ELSE answered[k] \subseteq contents[sessions[k]]
  /\ \A h \in Handlers : key[h] = k => sess[h] \in {None, sessions[k]}
  /\ doomed(k) => answered[k] = {} /\ \A h \in Handlers : key[h] = k => sess[h] = None

ChatInv ==
  /\ TypeOK /\ Scan
  /\ \A h \in Handlers : Held(h)
  /\ \A k \in Keys \ orphaned : Whole(k)

-----------------------------------------------------------------------------
LEMMA InitChat == Init => ChatInv
<1>. SUFFICES ASSUME Init PROVE ChatInv
  OBVIOUS
<1>. USE ChatAssumption DEF ChatAssumption, Init
<1>1. TypeOK
  <2>1. /\ idle \in [Sessions -> 0 .. sessionTTL + 1] /\ turns \in 0 .. MaxTurns
        /\ request \in [Handlers -> 0 .. MaxRequests] /\ turn \in [Handlers -> 0 .. MaxTurns]
    OBVIOUS
  <2>. QED  BY <2>1 DEF TypeOK
<1>2. Scan /\ (\A h \in Handlers : Held(h)) /\ (\A k \in Keys : Whole(k))
  BY DEF Scan, Held, Whole, doomed
<1>. QED  BY <1>1, <1>2 DEF ChatInv

LEMMA TickKeepsChat == ASSUME ChatInv, Tick PROVE ChatInv'
<1>1. idle' \in [Sessions -> 0 .. sessionTTL + 1]
  BY ChatAssumption DEF Tick, ChatInv, TypeOK, ChatAssumption
<1>2. UNCHANGED <<sessions, cleanerVars, contents, lock, handlerVars, historyVars>>
  BY DEF Tick
<1>. QED  BY <1>1, <1>2 DEF ChatInv, TypeOK, Scan, Held, Whole, doomed, cleanerVars,
                           handlerVars, historyVars

(* A request comes in. *)
LEMMA RequestKeepsChat ==
  ASSUME ChatInv, NEW h \in Handlers, NEW k \in Keys, FleetChat(h, k)
  PROVE  ChatInv'
<1>1. /\ pc' = [pc EXCEPT ![h] = "find"] /\ key' = [key EXCEPT ![h] = k]
      /\ turns' = turns + 1 /\ turn' = [turn EXCEPT ![h] = turns'] /\ turns < MaxTurns
      /\ UNCHANGED <<sessions, cleanerVars, contents, idle, lock, sess, request, snapshot,
                     historyVars>>
  BY DEF FleetChat, Goto
<1>2. turns' \in 0 .. MaxTurns
  BY <1>1, ChatAssumption DEF ChatInv, TypeOK, ChatAssumption
<1>3. TypeOK' /\ Scan'
  BY <1>1, <1>2 DEF ChatInv, TypeOK, Scan, cleanerVars, historyVars
<1>4. sess[h] = None
  BY DEF FleetChat, ChatInv, Held
<1>5. \A g \in Handlers : Held(g)'
  <2>1. turns' \in Turns
    BY <1>1, <1>2, ChatAssumption DEF ChatInv, TypeOK, Turns, ChatAssumption
  <2>. QED  BY <1>1, <1>4, <2>1 DEF ChatInv, TypeOK, Held
<1>6. ASSUME NEW j \in Keys \ orphaned'
      PROVE  Whole(j)'
  BY <1>1, <1>4, <1>6 DEF ChatInv, TypeOK, Whole, doomed, cleanerVars, historyVars
<1>. QED  BY <1>3, <1>5, <1>6 DEF ChatInv

(* A handler takes the session the store has. *)
LEMMA FindKeepsChat ==
  ASSUME ChatInv, NEW h \in Handlers, Find(h) \/ FindAgain(h)
  PROVE  ChatInv'
<1>1. /\ pc[h] \in {"find", "create"} /\ key[h] \in Keys /\ sess[h] = None
      /\ cleaner = "sleep"
      /\ UNCHANGED <<sessions, cleanerVars, contents, idle, lock, key, request, snapshot,
                     turn, turns, historyVars>>
  BY DEF Find, FindAgain, storeLocked, ChatInv, Held
<1>2. \/ pc' = [pc EXCEPT ![h] = "create"] /\ UNCHANGED sess
      \/ /\ pc' = [pc EXCEPT ![h] = "lock"]
         /\ sess' = [sess EXCEPT ![h] = sessions[key[h]]] /\ sessions[key[h]] # None
  BY DEF Find, FindAgain, Goto
<1>3. TypeOK' /\ Scan'
  BY <1>1, <1>2 DEF ChatInv, TypeOK, Scan, cleanerVars, historyVars
<1>4. \A g \in Handlers : Held(g)'
  BY <1>1, <1>2 DEF ChatInv, TypeOK, Held
<1>5. ASSUME NEW j \in Keys \ orphaned'
      PROVE  Whole(j)'
  BY <1>1, <1>2, <1>5 DEF ChatInv, TypeOK, Whole, doomed, cleanerVars, historyVars
<1>. QED  BY <1>3, <1>4, <1>5 DEF ChatInv

(* It makes one, of an object nobody refers to. *)
LEMMA CreateKeepsChat ==
  ASSUME ChatInv, NEW h \in Handlers, NEW s \in Sessions, Create(h, s)
  PROVE  ChatInv'
<1>1. /\ pc[h] = "create" /\ key[h] \in Keys /\ sess[h] = None /\ cleaner = "sleep"
      /\ sessions[key[h]] = None
      /\ \A k \in Keys : sessions[k] # s
      /\ \A g \in Handlers : sess[g] # s
  BY DEF Create, storeLocked, FreeSessions, ChatInv, Held
<1>2. /\ sessions' = [sessions EXCEPT ![key[h]] = s]
      /\ contents' = [contents EXCEPT ![s] = {}] /\ idle' = [idle EXCEPT ![s] = 0]
      /\ sess' = [sess EXCEPT ![h] = s] /\ pc' = [pc EXCEPT ![h] = "lock"]
      /\ UNCHANGED <<cleanerVars, lock, key, request, snapshot, turn, turns, historyVars>>
  BY DEF Create, Goto
<1>3. s # None
  BY ChatAssumption DEF ChatAssumption
<1>4. TypeOK' /\ Scan'
  BY <1>1, <1>2, ChatAssumption
  DEF ChatInv, TypeOK, Scan, cleanerVars, historyVars, ChatAssumption
<1>5. \A g \in Handlers : Held(g)'
  BY <1>1, <1>2 DEF ChatInv, TypeOK, Held
<1>6. ASSUME NEW j \in Keys \ orphaned'
      PROVE  Whole(j)'
  <2>1. Whole(j) /\ ~ doomed(j)'
    BY <1>1, <1>2 DEF ChatInv, doomed, cleanerVars, historyVars
  <2>2. CASE j = key[h]
    <3>1. /\ sessions'[j] = s /\ contents'[s] = {} /\ answered'[j] = {}
          /\ \A g \in Handlers : key'[g] = j => sess'[g] \in {None, s}
      BY <1>1, <1>2, <2>1, <2>2 DEF ChatInv, TypeOK, Whole, historyVars
    <3>. QED  BY <1>3, <2>1, <3>1 DEF Whole
  <2>3. CASE j # key[h]
    <3>1. /\ sessions'[j] = sessions[j] /\ answered'[j] = answered[j]
          /\ sessions[j] # None => contents'[sessions[j]] = contents[sessions[j]]
          /\ \A g \in Handlers : key'[g] = j => key[g] = j /\ sess'[g] = sess[g]
      BY <1>1, <1>2, <2>3 DEF ChatInv, TypeOK, historyVars
    <3>. QED  BY <2>1, <3>1 DEF Whole
  <2>. QED  BY <2>2, <2>3
<1>. QED  BY <1>4, <1>5, <1>6 DEF ChatInv

(* It locks its session and copies the history. *)
LEMMA BeginKeepsChat ==
  ASSUME ChatInv, NEW h \in Handlers, Begin(h) \/ CallTool(h)
  PROVE  ChatInv'
<1>1. UNCHANGED <<sessions, cleanerVars, contents, key, sess, turn, turns, historyVars>>
  BY DEF Begin, CallTool
<1>2. TypeOK'
  <2>1. MaxRequests \in Nat \ {0} /\ sessionTTL \in Nat
    BY ChatAssumption DEF ChatAssumption
  <2>2. pc[h] = "lock" => sess[h] \in Sessions
    BY DEF ChatInv, Held
  <2>3. request' \in [Handlers -> 0 .. MaxRequests]
    BY <2>1 DEF Begin, CallTool, ChatInv, TypeOK
  <2>4. /\ idle' \in [Sessions -> 0 .. sessionTTL + 1]
        /\ lock' \in [Sessions -> Handlers \cup {None}]
        /\ pc' \in [Handlers -> {"out", "find", "create", "lock", "turn"}]
        /\ snapshot' \in [Handlers -> SUBSET Turns]
    BY <2>1, <2>2 DEF Begin, CallTool, Goto, ChatInv, TypeOK
  <2>. QED  BY <1>1, <2>3, <2>4 DEF ChatInv, TypeOK, cleanerVars, historyVars
<1>3. Scan'
  BY <1>1 DEF ChatInv, Scan, cleanerVars
<1>4. \A g \in Handlers : Held(g)'
  BY <1>1, ChatAssumption DEF Begin, CallTool, Goto, ChatInv, TypeOK, Held, ChatAssumption
<1>5. \A j \in Keys : Whole(j) => Whole(j)'
  BY <1>1 DEF Whole, doomed, cleanerVars, historyVars
<1>6. orphaned' = orphaned
  BY <1>1 DEF historyVars
<1>. QED  BY <1>2, <1>3, <1>4, <1>5, <1>6 DEF ChatInv

(* The turn ends, with a reply or without one. *)
LEMMA EndKeepsChat ==
  ASSUME ChatInv, NEW h \in Handlers, Reply(h) \/ Fail(h)
  PROVE  ChatInv'
<1>1. /\ pc[h] = "turn" /\ key[h] \in Keys /\ turn[h] \in Turns
      /\ sess[h] \in Sessions /\ lock[sess[h]] = h /\ snapshot[h] = contents[sess[h]]
  BY DEF Reply, Fail, ChatInv, Held
<1>2. PICK s \in Sessions : s = sess[h]
  BY <1>1
<1>3. /\ lock' = [lock EXCEPT ![s] = None] /\ pc' = [pc EXCEPT ![h] = "out"]
      /\ key' = [key EXCEPT ![h] = None] /\ sess' = [sess EXCEPT ![h] = None]
      /\ request' = [request EXCEPT ![h] = 0] /\ snapshot' = [snapshot EXCEPT ![h] = {}]
      /\ turn' = [turn EXCEPT ![h] = 0]
      /\ UNCHANGED <<sessions, cleanerVars, idle, turns, orphaned>>
  BY <1>2 DEF Reply, Fail, Leave, Forget, Goto, historyVars
<1>4. \/ UNCHANGED <<contents, answered>>
      \/ /\ contents' = [contents EXCEPT ![s] = contents[s] \cup {turn[h]}]
         /\ answered' = [answered EXCEPT ![key[h]] = answered[key[h]] \cup {turn[h]}]
  BY <1>1, <1>2 DEF Reply, Fail, historyVars
<1>5. TypeOK'
  <2>1. contents' \in [Sessions -> SUBSET Turns] /\ answered' \in [Keys -> SUBSET Turns]
    BY <1>1, <1>4 DEF ChatInv, TypeOK
  <2>2. /\ lock' \in [Sessions -> Handlers \cup {None}]
        /\ pc' \in [Handlers -> {"out", "find", "create", "lock", "turn"}]
        /\ key' \in [Handlers -> Keys \cup {None}]
        /\ sess' \in [Handlers -> Sessions \cup {None}]
        /\ snapshot' \in [Handlers -> SUBSET Turns]
    BY <1>3 DEF ChatInv, TypeOK
  <2>3. request' \in [Handlers -> 0 .. MaxRequests] /\ turn' \in [Handlers -> 0 .. MaxTurns]
    BY <1>3, ChatAssumption DEF ChatInv, TypeOK, ChatAssumption
  <2>. QED  BY <1>3, <2>1, <2>2, <2>3 DEF ChatInv, TypeOK, cleanerVars
<1>6. Scan'
  BY <1>3 DEF ChatInv, Scan, cleanerVars
<1>7. \A g \in Handlers : Held(g)'
  <2>. TAKE g \in Handlers
  <2>1. CASE g = h
    BY <1>3, <2>1 DEF ChatInv, TypeOK, Held
  <2>2. CASE g # h
    <3>1. /\ pc'[g] = pc[g] /\ key'[g] = key[g] /\ sess'[g] = sess[g]
          /\ turn'[g] = turn[g] /\ snapshot'[g] = snapshot[g]
      BY <1>3, <2>2 DEF ChatInv, TypeOK
    <3>2. pc[g] = "turn" => sess[g] \in Sessions /\ sess[g] # s
      BY <1>1, <1>2, <2>2 DEF ChatInv, Held
    <3>3. pc[g] = "turn" => lock'[sess[g]] = lock[sess[g]]
                            /\ contents'[sess[g]] = contents[sess[g]]
      BY <1>3, <1>4, <3>2 DEF ChatInv, TypeOK
    <3>. QED  BY <3>1, <3>3 DEF ChatInv, Held
  <2>. QED  BY <2>1, <2>2
<1>8. ASSUME NEW j \in Keys \ orphaned'
      PROVE  Whole(j)'
  <2>1. Whole(j) /\ (doomed(j)' <=> doomed(j)) /\ sessions'[j] = sessions[j]
    BY <1>3 DEF ChatInv, doomed, cleanerVars
  <2>2. \A g \in Handlers : key'[g] = j => key[g] = j /\ sess'[g] = sess[g]
    BY <1>3, ChatAssumption DEF ChatInv, TypeOK, ChatAssumption
  <2>3. sessions[j] # None => contents[sessions[j]] \subseteq contents'[sessions[j]]
    BY <1>4 DEF ChatInv, TypeOK
  <2>4. CASE answered'[j] = answered[j]
    BY <2>1, <2>2, <2>3, <2>4 DEF Whole
  <2>5. CASE answered'[j] # answered[j]
    <3>1. /\ j = key[h] /\ answered'[j] = answered[j] \cup {turn[h]}
          /\ contents'[s] = contents[s] \cup {turn[h]}
      BY <1>1, <1>4, <2>5 DEF ChatInv, TypeOK
    <3>2. s = sessions[j] /\ s # None /\ ~ doomed(j)
      BY <1>2, <2>1, <3>1, ChatAssumption DEF Whole, ChatAssumption
    <3>. QED  BY <2>1, <2>2, <3>1, <3>2 DEF Whole
  <2>. QED  BY <2>4, <2>5
<1>. QED  BY <1>5, <1>6, <1>7, <1>8 DEF ChatInv

-----------------------------------------------------------------------------
(* The clean-up moves on. *)
LEMMA ScanKeepsChat ==
  ASSUME ChatInv,
         CleanupStart \/ (\E k \in Keys : CleanupNext(k)) \/ CleanupKeep \/ CleanupEnd
  PROVE  ChatInv'
<1>1. UNCHANGED <<sessions, contents, idle, lock, handlerVars, historyVars>>
  BY DEF CleanupStart, CleanupNext, CleanupKeep, CleanupEnd
<1>2. TypeOK' /\ Scan'
  BY <1>1 DEF CleanupStart, CleanupNext, CleanupKeep, CleanupEnd, ChatInv, TypeOK, Scan,
              handlerVars, historyVars
<1>3. \A h \in Handlers : Held(h)'
  BY <1>1 DEF ChatInv, Held, handlerVars
<1>4. \A k \in Keys : ~ doomed(k)'
  BY DEF CleanupStart, CleanupNext, CleanupKeep, CleanupEnd, doomed
<1>5. \A k \in Keys : Whole(k) => Whole(k)'
  BY <1>1, <1>4 DEF Whole, handlerVars, historyVars
<1>. QED  BY <1>1, <1>2, <1>3, <1>5 DEF ChatInv, historyVars

(* It finds a session expired, while nobody has hold of it or the key is one
   of the orphaned, or finds that it is not.                              *)
LEMMA LookKeepsChat == ASSUME ChatInv, CleanupLook PROVE ChatInv'
<1>1. /\ cleaner = "look" /\ cleaner' = "delete" /\ Found(expired')
      /\ UNCHANGED <<sessions, scanning, scanned, contents, idle, lock, handlerVars>>
      /\ scanned \in Keys /\ sessions[scanned] # None /\ sessions[scanned] \in Sessions
  BY DEF CleanupLook, ChatInv, Scan, TypeOK
<1>2. expired' \in BOOLEAN
  <2>1. idle[sessions[scanned]] \in Nat /\ sessionTTL \in Nat
    BY <1>1, ChatAssumption DEF ChatInv, TypeOK, ChatAssumption
  <2>. QED  BY <2>1 DEF CleanupLook
<1>3. answered' \in [Keys -> SUBSET Turns] /\ orphaned' \subseteq Keys
  BY <1>1 DEF Found, historyVars, ChatInv, TypeOK
<1>4. TypeOK' /\ Scan'
  BY <1>1, <1>2, <1>3 DEF ChatInv, TypeOK, Scan, handlerVars
<1>5. \A h \in Handlers : Held(h)'
  BY <1>1 DEF ChatInv, Held, handlerVars
<1>6. ASSUME NEW j \in Keys \ orphaned'
      PROVE  Whole(j)'
  <2>1. j \notin orphaned /\ Whole(j)
    BY <1>1, <1>6 DEF Found, historyVars, ChatInv
  <2>2. CASE expired' /\ j = scanned
    <3>1. answered'[j] = {} /\ \A h \in Handlers : sess[h] # sessions[j]
      BY <1>1, <1>6, <2>2 DEF Found, ChatInv, TypeOK
    <3>2. \A h \in Handlers : key[h] = j => sess[h] = None
      BY <2>1, <3>1 DEF Whole
    <3>. QED  BY <1>1, <2>1, <2>2, <3>1, <3>2 DEF Whole, handlerVars
  <2>3. CASE ~ (expired' /\ j = scanned)
    <3>1. answered'[j] = answered[j] /\ ~ doomed(j)'
      BY <1>1, <2>3 DEF Found, historyVars, ChatInv, TypeOK, doomed
    <3>. QED  BY <1>1, <2>1, <3>1 DEF Whole, handlerVars
  <2>. QED  BY <2>2, <2>3
<1>. QED  BY <1>4, <1>5, <1>6 DEF ChatInv

(* It deletes the session it found expired. *)
LEMMA DeleteKeepsChat == ASSUME ChatInv, CleanupDelete PROVE ChatInv'
<1>1. /\ doomed(scanned) /\ scanned \in Keys /\ scanned \notin scanning
      /\ sessions' = [sessions EXCEPT ![scanned] = None]
      /\ cleaner' = "scan" /\ scanned' = None /\ expired' = FALSE
      /\ UNCHANGED <<scanning, contents, idle, lock, handlerVars, historyVars>>
      /\ \A k \in scanning : sessions[k] # None
  BY DEF CleanupDelete, ChatInv, Scan, doomed
<1>2. TypeOK' /\ Scan'
  BY <1>1 DEF ChatInv, TypeOK, Scan, handlerVars, historyVars
<1>3. \A h \in Handlers : Held(h)'
  BY <1>1 DEF ChatInv, Held, handlerVars
<1>4. ASSUME NEW j \in Keys \ orphaned'
      PROVE  Whole(j)'
  <2>1. Whole(j) /\ ~ doomed(j)'
    BY <1>1 DEF ChatInv, historyVars, doomed
  <2>. QED  BY <1>1, <2>1 DEF Whole, ChatInv, TypeOK, handlerVars, historyVars
<1>. QED  BY <1>2, <1>3, <1>4 DEF ChatInv

LEMMA NextChat == ChatInv /\ [Next]_vars => ChatInv'
<1>. SUFFICES ASSUME ChatInv, [Next]_vars PROVE ChatInv'
  OBVIOUS
<1>1. CASE Tick
  BY <1>1, TickKeepsChat
<1>2. CASE CleanupStart \/ CleanerScan
  BY <1>2, ScanKeepsChat, LookKeepsChat, DeleteKeepsChat DEF CleanerScan
<1>3. ASSUME NEW h \in Handlers, NEW k \in Keys, FleetChat(h, k)
      PROVE  ChatInv'
  BY <1>3, RequestKeepsChat
<1>4. ASSUME NEW h \in Handlers, HandlerStep(h)
      PROVE  ChatInv'
  <2>1. CASE \E s \in Sessions : Create(h, s)
    BY <2>1, CreateKeepsChat
  <2>. QED  BY <1>4, <2>1, FindKeepsChat, BeginKeepsChat, EndKeepsChat DEF HandlerStep
<1>5. CASE UNCHANGED vars
  BY <1>5 DEF vars, ChatInv, TypeOK, Scan, Held, Whole, doomed
<1>. QED  BY <1>1, <1>2, <1>3, <1>4, <1>5 DEF Next

(* Locks, the clean-up's scan and the conversations keep together. *)
THEOREM ChatInvHolds == Spec => []ChatInv
  BY InitChat, NextChat, PTL DEF Spec

-----------------------------------------------------------------------------
(* FleetChat copies the history of a session, talks to Gemini for minutes and
   writes all of it back, and yet no turn another handler has answered in the
   meantime is lost: there was none, as the session was locked.           *)
THEOREM TurnsAreKept == Spec => NoTurnOverwritten
<1>1. ASSUME ChatInv, [Next]_vars, NEW s \in Sessions \ FreeSessions
      PROVE  contents[s] \subseteq contents'[s]
  <2>1. CASE UNCHANGED contents
    BY <2>1
  <2>2. ASSUME NEW h \in Handlers, Reply(h)
        PROVE  contents[s] \subseteq contents'[s]
    <3>1. pc[h] = "turn" /\ Held(h)
      BY <1>1, <2>2 DEF Reply, ChatInv
    <3>2. snapshot[h] = contents[sess[h]]
      BY <3>1 DEF Held
    <3>. QED  BY <1>1, <2>2, <3>2 DEF Reply, ChatInv, TypeOK
  <2>3. ASSUME NEW h \in Handlers, NEW f \in Sessions, Create(h, f)
        PROVE  contents[s] \subseteq contents'[s]
    BY <1>1, <2>3 DEF Create, ChatInv, TypeOK
  <2>4. \/ UNCHANGED contents
        \/ \E h \in Handlers : Reply(h) \/ \E f \in Sessions : Create(h, f)
    BY <1>1 DEF Next, vars, Tick, CleanupStart, CleanerScan, CleanupNext, CleanupLook,
                CleanupKeep, CleanupDelete, CleanupEnd, FleetChat, HandlerStep, Find,
                FindAgain, Begin, CallTool, Fail
  <2>. QED  BY <2>1, <2>2, <2>3, <2>4
<1>2. ChatInv /\ [Next]_vars =>
        [\A s \in Sessions \ FreeSessions : contents[s] \subseteq contents'[s]]_vars
  BY <1>1
<1>. QED  BY <1>2, ChatInvHolds, PTL DEF Spec, NoTurnOverwritten

(* Each turn of a conversation that was not orphaned starts from everything
   that was answered in it since the clean-up last found it expired.      *)
THEOREM HistoryIsFull == Spec => FullHistoryUnlessOrphaned
<1>1. ASSUME ChatInv, [Next]_vars, NEW h \in Handlers,
             pc[h] = "lock", pc'[h] = "turn", key[h] \notin orphaned
      PROVE  answered[key[h]] \subseteq snapshot'[h]
  <2>1. Begin(h)
    BY <1>1 DEF Next, vars, Tick, CleanupStart, CleanerScan, CleanupNext, CleanupLook,
                CleanupKeep, CleanupDelete, CleanupEnd, FleetChat, HandlerStep, Find,
                FindAgain, Create, Begin, CallTool, Reply, Fail, Leave, Forget, Goto,
                handlerVars, ChatInv, TypeOK
  <2>2. snapshot'[h] = contents[sess[h]]
    BY <1>1, <2>1 DEF Begin, ChatInv, TypeOK
  <2>3. key[h] \in Keys /\ sess[h] \in Sessions
    BY <1>1 DEF ChatInv, Held
  <2>4. Whole(key[h]) /\ sess[h] # None
    BY <1>1, <2>3, ChatAssumption DEF ChatInv, ChatAssumption
  <2>5. sess[h] = sessions[key[h]]
    BY <2>4 DEF Whole
  <2>. QED  BY <2>2, <2>4, <2>5 DEF Whole
<1>2. ChatInv /\ [Next]_vars =>
        [\A h \in Handlers :
           pc[h] = "lock" /\ pc'[h] = "turn" /\ key[h] \notin orphaned =>
             answered[key[h]] \subseteq snapshot'[h]]_vars
  BY <1>1
<1>. QED  BY <1>2, ChatInvHolds, PTL DEF Spec, FullHistoryUnlessOrphaned

-----------------------------------------------------------------------------
(* The conversations as threads                                            *)

(* A session is of one conversation: no two keys have the same one, and who has
   hold of a session that the store has came for its key.  A lock is held by
   a handler that is at a turn in that session.                           *)
Apart ==
  /\ \A j, k \in Keys : sessions[j] # None /\ sessions[j] = sessions[k] => j = k
  /\ \A h \in Handlers, k \in Keys : sess[h] # None /\ sess[h] = sessions[k] => key[h] = k
  /\ \A s \in Sessions : lock[s] # None => pc[lock[s]] = "turn" /\ sess[lock[s]] = s

LEMMA InitApart == Init => Apart
  BY DEF Init, Apart

(* No step hands a session of one conversation to another. *)
LEMMA NextApart == ASSUME ChatInv, Apart, [Next]_vars PROVE Apart'
<1>1. CASE UNCHANGED <<sessions, sess, key, lock, pc>>
  BY <1>1 DEF Apart
<1>2. ASSUME NEW h \in Handlers, NEW k \in Keys, FleetChat(h, k)
      PROVE  Apart'
  <2>1. /\ pc[h] = "out" /\ sess[h] = None
        /\ pc' = [pc EXCEPT ![h] = "find"] /\ key' = [key EXCEPT ![h] = k]
        /\ UNCHANGED <<sessions, lock, sess>>
    BY <1>2 DEF FleetChat, Goto, ChatInv, Held
  <2>2. \A s \in Sessions : lock[s] # None => lock[s] # h
    BY <2>1 DEF Apart
  <2>. QED  BY <2>1, <2>2 DEF Apart, ChatInv, TypeOK
<1>3. ASSUME NEW h \in Handlers, Find(h) \/ FindAgain(h)
      PROVE  Apart'
  <2>1. /\ pc[h] \in {"find", "create"} /\ key[h] \in Keys
        /\ UNCHANGED <<sessions, lock, key>>
    BY <1>3 DEF Find, FindAgain, ChatInv, Held
  <2>2. \/ pc' = [pc EXCEPT ![h] = "create"] /\ UNCHANGED sess
        \/ /\ pc' = [pc EXCEPT ![h] = "lock"]
           /\ sess' = [sess EXCEPT ![h] = sessions[key[h]]] /\ sessions[key[h]] # None
    BY <1>3 DEF Find, FindAgain, Goto
  <2>3. \A s \in Sessions : lock[s] # None => lock[s] # h
    BY <2>1 DEF Apart
  <2>. QED  BY <2>1, <2>2, <2>3 DEF Apart, ChatInv, TypeOK
<1>4. ASSUME NEW h \in Handlers, NEW s \in Sessions, Create(h, s)
      PROVE  Apart'
  <2>1. /\ pc[h] = "create" /\ key[h] \in Keys /\ s # None
        /\ \A k \in Keys : sessions[k] # s
        /\ \A g \in Handlers : sess[g] # s
        /\ sessions' = [sessions EXCEPT ![key[h]] = s] /\ sess' = [sess EXCEPT ![h] = s]
        /\ pc' = [pc EXCEPT ![h] = "lock"] /\ UNCHANGED <<lock, key>>
    BY <1>4, ChatAssumption
       DEF Create, Goto, FreeSessions, ChatInv, Held, ChatAssumption
  <2>2. \A r \in Sessions : lock[r] # None => lock[r] # h
    BY <2>1 DEF Apart
  <2>3. \A j, k \in Keys : sessions'[j] # None /\ sessions'[j] = sessions'[k] => j = k
    BY <2>1 DEF Apart, ChatInv, TypeOK
  <2>4. \A g \in Handlers, k \in Keys :
          sess'[g] # None /\ sess'[g] = sessions'[k] => key'[g] = k
    BY <2>1 DEF Apart, ChatInv, TypeOK
  <2>5. \A r \in Sessions : lock'[r] # None => pc'[lock'[r]] = "turn" /\ sess'[lock'[r]] = r
    BY <2>1, <2>2 DEF Apart, ChatInv, TypeOK
  <2>. QED  BY <2>3, <2>4, <2>5 DEF Apart
<1>5. ASSUME NEW h \in Handlers, Begin(h)
      PROVE  Apart'
  <2>1. /\ pc[h] = "lock" /\ sess[h] \in Sessions /\ lock[sess[h]] = None
        /\ lock' = [lock EXCEPT ![sess[h]] = h] /\ pc' = [pc EXCEPT ![h] = "turn"]
        /\ UNCHANGED <<sessions, key, sess>>
    BY <1>5 DEF Begin, Goto, ChatInv, Held
  <2>. QED  BY <2>1 DEF Apart, ChatInv, TypeOK
<1>6. ASSUME NEW h \in Handlers, Reply(h) \/ Fail(h)
      PROVE  Apart'
  <2>1. /\ pc[h] = "turn" /\ sess[h] \in Sessions /\ lock[sess[h]] = h
        /\ lock' = [lock EXCEPT ![sess[h]] = None] /\ pc' = [pc EXCEPT ![h] = "out"]
        /\ key' = [key EXCEPT ![h] = None] /\ sess' = [sess EXCEPT ![h] = None]
        /\ UNCHANGED sessions
    BY <1>6 DEF Reply, Fail, Leave, Forget, Goto, ChatInv, Held
  <2>2. \A s \in Sessions : lock'[s] # None => lock'[s] = lock[s] /\ lock[s] # h
    BY <2>1 DEF Apart, ChatInv, TypeOK
  <2>. QED  BY <2>1, <2>2 DEF Apart, ChatInv, TypeOK
<1>7. CASE CleanupDelete
  <2>1. /\ sessions' = [sessions EXCEPT ![scanned] = None]
        /\ UNCHANGED <<lock, pc, key, sess>>
    BY <1>7 DEF CleanupDelete, handlerVars
  <2>. QED  BY <2>1 DEF Apart, ChatInv, TypeOK
<1>. QED
  BY <1>1, <1>2, <1>3, <1>4, <1>5, <1>6, <1>7
     DEF Next, vars, Tick, CleanupStart, CleanerScan, CleanupNext, CleanupLook, CleanupKeep,
         CleanupEnd, HandlerStep, CallTool, handlerVars

(* The four mapped values, and what changes them. *)
Mapped == <<asking, threads, speakers, recalled>>

LEMMA InitConversations == Init => Conversation!ConversationsInit
  BY DEF Init, Conversation!ConversationsInit, Conversation!Nothing, asking, threads, speakers,
         recalled

LEMMA SameMapped ==
  ASSUME UNCHANGED <<pc, key, turn, sessions, contents, lock, snapshot>>
  PROVE  UNCHANGED Mapped
  BY DEF Mapped, asking, threads, speakers, recalled

(* Asking is a matter of the handler alone. *)
LEMMA AskStep ==
  ASSUME ChatInv, NEW h \in Handlers, NEW k \in Keys, FleetChat(h, k)
  PROVE  Conversation!Ask(h, k, turn'[h])
<1>1. /\ pc[h] = "out" /\ pc' = [pc EXCEPT ![h] = "find"]
      /\ key' = [key EXCEPT ![h] = k] /\ turn' = [turn EXCEPT ![h] = turns']
      /\ UNCHANGED <<sessions, contents, lock, snapshot>>
  BY DEF FleetChat, Goto
<1>2. asking[h] = Conversation!Nothing
  BY <1>1 DEF asking, Conversation!Nothing
<1>3. asking' = [asking EXCEPT ![h] = [key |-> k, turn |-> turn'[h]]]
  BY <1>1 DEF asking, ChatInv, TypeOK
<1>4. UNCHANGED <<threads, speakers, recalled>>
  BY <1>1 DEF threads, speakers, recalled
<1>. QED  BY <1>2, <1>3, <1>4 DEF Conversation!Ask

(* Finding a session or making one changes no conversation. *)
LEMMA FindStutters ==
  ASSUME ChatInv, Apart, NEW h \in Handlers,
         Find(h) \/ FindAgain(h) \/ \E s \in Sessions : Create(h, s)
  PROVE  UNCHANGED Mapped
<1>1. /\ pc[h] \in {"find", "create"} /\ key[h] \in Keys
      /\ pc' \in {[pc EXCEPT ![h] = "create"], [pc EXCEPT ![h] = "lock"]}
      /\ UNCHANGED <<key, turn, lock, snapshot>>
  BY DEF Find, FindAgain, Create, Goto, ChatInv, Held
<1>2. asking' = asking
  BY <1>1 DEF asking, ChatInv, TypeOK
<1>3. threads' = threads /\ speakers' = speakers
  <2>1. CASE UNCHANGED <<sessions, contents>>
    BY <1>1, <2>1 DEF threads, speakers
  <2>2. ASSUME NEW s \in Sessions, Create(h, s)
        PROVE  threads' = threads /\ speakers' = speakers
    <3>1. /\ sessions[key[h]] = None /\ s # None
          /\ \A k \in Keys : sessions[k] # s
          /\ \A g \in Handlers : sess[g] # s
          /\ sessions' = [sessions EXCEPT ![key[h]] = s]
          /\ contents' = [contents EXCEPT ![s] = {}]
      BY <2>2, ChatAssumption DEF Create, FreeSessions, ChatAssumption
    <3>2. lock[s] = None
      BY <3>1 DEF Apart, ChatInv, TypeOK
    <3>3. \A k \in Keys : threads'[k] = threads[k] /\ speakers'[k] = speakers[k]
      BY <1>1, <3>1, <3>2 DEF threads, speakers, ChatInv, TypeOK
    <3>. QED  BY <3>3 DEF threads, speakers
  <2>. QED  BY <2>1, <2>2 DEF Find, FindAgain
<1>4. recalled' = recalled
  BY <1>1, <1>3 DEF recalled
<1>. QED  BY <1>2, <1>3, <1>4 DEF Mapped

(* Who gets the lock of the conversation's session speaks next, and is told of
   all that is in it; one whose session was deleted speaks unheard.       *)
LEMMA BeginSpeaks ==
  ASSUME ChatInv, Apart, NEW h \in Handlers, Begin(h)
  PROVE  Conversation!Speak(h, key[h]) \/ UNCHANGED Mapped
<1>1. PICK s \in Sessions : s = sess[h]
  BY DEF Begin, ChatInv, Held
<1>2. /\ pc[h] = "lock" /\ lock[s] = None /\ key[h] \in Keys /\ s # None /\ h # None
      /\ lock' = [lock EXCEPT ![s] = h] /\ pc' = [pc EXCEPT ![h] = "turn"]
      /\ snapshot' = [snapshot EXCEPT ![h] = contents[s]]
      /\ UNCHANGED <<sessions, contents, key, turn>>
  BY <1>1, ChatAssumption DEF Begin, Goto, ChatInv, Held, ChatAssumption
<1>3. asking' = asking /\ threads' = threads
  BY <1>2 DEF asking, threads, ChatInv, TypeOK
<1>4. \A k \in Keys : speakers[k] # h
  BY <1>2, ChatAssumption DEF speakers, Apart, ChatInv, TypeOK, ChatAssumption
<1>5. CASE sessions[key[h]] = s
  <2>1. \A k \in Keys : k # key[h] => sessions[k] # s
    BY <1>2, <1>5 DEF Apart
  <2>2. /\ speakers[key[h]] = None
        /\ speakers' = [speakers EXCEPT ![key[h]] = h]
    BY <1>2, <1>5, <2>1 DEF speakers, ChatInv, TypeOK
  <2>3. recalled' = [recalled EXCEPT ![key[h]] = threads[key[h]]]
    <3>1. recalled'[key[h]] = threads[key[h]]
      BY <1>2, <1>5, <2>2 DEF recalled, threads, speakers, ChatInv, TypeOK
    <3>2. \A k \in Keys \ {key[h]} : recalled'[k] = recalled[k]
      BY <1>2, <1>4, <2>2 DEF recalled, speakers, ChatInv, TypeOK
    <3>. QED  BY <3>1, <3>2 DEF recalled
  <2>4. asking[h].key = key[h]
    BY <1>2 DEF asking
  <2>. QED  BY <1>3, <2>2, <2>3, <2>4 DEF Conversation!Speak
<1>6. CASE sessions[key[h]] # s
  <2>1. \A k \in Keys : sessions[k] # s
    BY <1>1, <1>2, <1>6 DEF Apart
  <2>2. speakers' = speakers
    BY <1>2, <2>1 DEF speakers, ChatInv, TypeOK
  <2>3. \A k \in Keys : recalled'[k] = recalled[k]
    BY <1>2, <1>4, <2>2 DEF recalled, speakers, ChatInv, TypeOK
  <2>. QED  BY <1>3, <2>2, <2>3 DEF Mapped, recalled
<1>. QED  BY <1>5, <1>6

(* The turn of a conversation ends in it, and one nobody hears in none. *)
LEMMA EndIsHeard ==
  ASSUME ChatInv, Apart, NEW h \in Handlers, Reply(h) \/ Fail(h)
  PROVE  \/ Conversation!Answer(h, key[h]) \/ Conversation!GiveUp(h, key[h])
         \/ Conversation!AnswerUnheard(h)
<1>1. PICK s \in Sessions : s = sess[h]
  BY DEF Reply, Fail, ChatInv, Held
<1>2. /\ pc[h] = "turn" /\ lock[s] = h /\ key[h] \in Keys /\ turn[h] \in Turns
      /\ snapshot[h] = contents[s] /\ s # None /\ h # None
      /\ lock' = [lock EXCEPT ![s] = None] /\ pc' = [pc EXCEPT ![h] = "out"]
      /\ key' = [key EXCEPT ![h] = None] /\ turn' = [turn EXCEPT ![h] = 0]
      /\ snapshot' = [snapshot EXCEPT ![h] = {}]
      /\ UNCHANGED sessions
  BY <1>1, ChatAssumption
     DEF Reply, Fail, Leave, Forget, Goto, ChatInv, Held, ChatAssumption
<1>3. \/ Fail(h) /\ contents' = contents
      \/ Reply(h) /\ contents' = [contents EXCEPT ![s] = contents[s] \cup {turn[h]}]
  BY <1>1, <1>2 DEF Reply, Fail
<1>4. /\ asking[h] = [key |-> key[h], turn |-> turn[h]]
      /\ asking' = [asking EXCEPT ![h] = Conversation!Nothing]
  BY <1>2 DEF asking, Conversation!Nothing, ChatInv, TypeOK
<1>5. \A r \in Sessions : lock[r] = h => r = s
  BY <1>1, <1>2 DEF Apart
<1>6. CASE sessions[key[h]] = s
  <2>1. \A k \in Keys : k # key[h] => sessions[k] # s
    BY <1>2, <1>6 DEF Apart
  <2>2. /\ speakers[key[h]] = h
        /\ speakers' = [speakers EXCEPT ![key[h]] = None]
    BY <1>2, <1>6, <2>1 DEF speakers, ChatInv, TypeOK
  <2>3. \A k \in Keys \ {key[h]} : speakers[k] # h
    BY <1>2, <1>5, <2>1 DEF speakers, ChatInv, TypeOK
  <2>4. recalled' = [recalled EXCEPT ![key[h]] = {}]
    <3>1. \A k \in Keys \ {key[h]} : recalled'[k] = recalled[k]
      BY <1>2, <2>2, <2>3 DEF recalled, speakers, ChatInv, TypeOK
    <3>2. recalled'[key[h]] = {}
      BY <1>2, <2>2 DEF recalled, speakers
    <3>. QED  BY <3>1, <3>2 DEF recalled
  <2>5. Conversation!EndTurn(h, key[h])
    BY <1>4, <2>2, <2>4 DEF Conversation!EndTurn
  <2>6. CASE contents' = contents
    <3>1. threads' = threads
      BY <1>2, <2>6 DEF threads
    <3>. QED  BY <2>5, <3>1 DEF Conversation!GiveUp
  <2>7. CASE contents' = [contents EXCEPT ![s] = contents[s] \cup {turn[h]}]
    <3>1. threads' = [threads EXCEPT ![key[h]] = threads[key[h]] \cup {turn[h]}]
      BY <1>2, <1>6, <2>1, <2>7 DEF threads, ChatInv, TypeOK
    <3>2. asking[h].key = key[h] /\ asking[h].turn = turn[h]
      BY <1>4
    <3>. QED  BY <2>5, <3>1, <3>2 DEF Conversation!Answer
  <2>. QED  BY <1>3, <2>6, <2>7
<1>7. CASE sessions[key[h]] # s
  <2>1. \A k \in Keys : sessions[k] # s
    BY <1>1, <1>2, <1>7 DEF Apart
  <2>2. /\ \A k \in Keys : speakers[k] # h
        /\ speakers' = speakers /\ threads' = threads
    BY <1>2, <1>3, <1>5, <2>1 DEF speakers, threads, ChatInv, TypeOK
  <2>3. recalled' = recalled
    BY <1>2, <2>2 DEF recalled, speakers, ChatInv, TypeOK
  <2>4. asking[h] # Conversation!Nothing
    <3>1. key[h] # None
      BY <1>2, ChatAssumption DEF ChatAssumption
    <3>. QED  BY <1>4, <3>1 DEF Conversation!Nothing
  <2>. QED  BY <1>4, <2>2, <2>3, <2>4 DEF Conversation!AnswerUnheard
<1>. QED  BY <1>6, <1>7

(* Deleting a session forgets its conversation. *)
LEMMA DeleteForgets ==
  ASSUME ChatInv, CleanupDelete
  PROVE  scanned \in Keys /\ Conversation!Forget(scanned)
<1>1. /\ scanned \in Keys /\ sessions' = [sessions EXCEPT ![scanned] = None]
      /\ UNCHANGED <<pc, key, turn, contents, lock, snapshot>>
  BY DEF CleanupDelete, ChatInv, Scan, handlerVars
<1>2. asking' = asking
  BY <1>1 DEF asking
<1>3. /\ threads' = [threads EXCEPT ![scanned] = {}]
      /\ speakers' = [speakers EXCEPT ![scanned] = None]
  BY <1>1 DEF threads, speakers, ChatInv, TypeOK
<1>4. recalled' = [recalled EXCEPT ![scanned] = {}]
  <2>1. recalled'[scanned] = {}
    BY <1>1, <1>3 DEF recalled, speakers
  <2>2. \A k \in Keys \ {scanned} : recalled'[k] = recalled[k]
    BY <1>1, <1>3 DEF recalled, speakers
  <2>. QED  BY <2>1, <2>2 DEF recalled
<1>. QED  BY <1>1, <1>2, <1>3, <1>4 DEF Conversation!Forget

(* Every step is one of a conversation, or of none. *)
LEMMA NextConversations ==
  ASSUME ChatInv, Apart, [Next]_vars
  PROVE  Conversation!ConversationsNext \/ UNCHANGED Mapped
<1>. USE DEF Conversation!ConversationsNext
<1>1. ASSUME NEW h \in Handlers, NEW k \in Keys, FleetChat(h, k)
      PROVE  Conversation!ConversationsNext
  <2>1. turn'[h] \in Turns
    <3>1. pc'[h] = "find" /\ Held(h)'
      BY <1>1, RequestKeepsChat DEF FleetChat, Goto, ChatInv, TypeOK
    <3>. QED  BY <3>1 DEF Held
  <2>. QED  BY <1>1, <2>1, AskStep
<1>2. ASSUME NEW h \in Handlers, Begin(h) \/ Reply(h) \/ Fail(h)
      PROVE  Conversation!ConversationsNext \/ UNCHANGED Mapped
  <2>1. key[h] \in Keys
    BY <1>2 DEF Begin, Reply, Fail, ChatInv, Held
  <2>. QED  BY <1>2, <2>1, BeginSpeaks, EndIsHeard
<1>3. ASSUME NEW h \in Handlers, Find(h) \/ FindAgain(h) \/ \E s \in Sessions : Create(h, s)
      PROVE  UNCHANGED Mapped
  BY <1>3, FindStutters
<1>4. CASE CleanupDelete
  BY <1>4, DeleteForgets
<1>5. CASE UNCHANGED <<pc, key, turn, sessions, contents, lock, snapshot>>
  BY <1>5, SameMapped
<1>. QED
  BY <1>1, <1>2, <1>3, <1>4, <1>5
     DEF Next, vars, Tick, CleanupStart, CleanerScan, CleanupNext, CleanupLook, CleanupKeep,
         CleanupEnd, HandlerStep, CallTool, handlerVars

(* chatSessionStore and FleetChat implement Conversations: however handlers and
   the clean-up interleave, a conversation is one thread, to which its own
   turns are added one at a time.                                         *)
THEOREM ChatImplementsConversations == Spec => ImplementsConversations
<1>1. Init => Apart /\ Conversation!ConversationsInit
  BY InitApart, InitConversations
<1>2. ChatInv /\ Apart /\ [Next]_vars => Apart'
  BY NextApart
<1>3. ChatInv /\ Apart /\ [Next]_vars =>
        [Conversation!ConversationsNext]_(Conversation!conversationVars)
  BY NextConversations DEF Mapped, Conversation!conversationVars
<1>. QED
  BY <1>1, <1>2, <1>3, ChatInvHolds, PTL
     DEF Spec, ImplementsConversations, Conversation!ConversationsSpec

-----------------------------------------------------------------------------
(* Who waits for whom                                                      *)

(* A handler goes on but where it waits for the store's lock or a session's;
   the clean-up waits for the lock of the session it looks at alone.      *)
HandlerRuns(h) ==
  \/ pc[h] \in {"find", "create"} /\ ~storeLocked
  \/ pc[h] = "lock" /\ lock[sess[h]] = None
  \/ pc[h] = "turn"

CleanerRuns ==
  \/ cleaner \in {"scan", "delete"}
  \/ cleaner = "look" /\ lock[sessions[scanned]] = None

(* The lock of s is held by a handler at a turn, which waits for no lock. *)
HeldByATurn(s) == lock[s] \in Handlers /\ pc[lock[s]] = "turn"

(* Handlers wait for the clean-up, the clean-up for a handler at its turn, and
   handlers for one of these: nobody waits in a circle, and nobody for a
   lock that was left behind.                                             *)
NobodyWaitsInACircle ==
  /\ cleaner = "sleep" \/ CleanerRuns \/ HeldByATurn(sessions[scanned])
  /\ \A h \in Handlers :
       \/ pc[h] = "out" \/ HandlerRuns(h)
       \/ pc[h] \in {"find", "create"} /\ cleaner # "sleep"
       \/ pc[h] = "lock" /\ HeldByATurn(sess[h])

(* The safety half of EveryChatReturns: the clean-up waits for a session's lock with
   the store's in hand, handlers never hold both, and whoever has a session's
   lock lets go of it without waiting for another.                        *)
THEOREM LocksAreLetGo == Spec => []NobodyWaitsInACircle
<1>1. ChatInv /\ Apart => NobodyWaitsInACircle
  <2> SUFFICES ASSUME ChatInv, Apart PROVE NobodyWaitsInACircle
    OBVIOUS
  <2>1. \A s \in Sessions : lock[s] = None \/ HeldByATurn(s)
    BY DEF ChatInv, TypeOK, Apart, HeldByATurn
  <2>2. cleaner = "sleep" \/ CleanerRuns \/ HeldByATurn(sessions[scanned])
    <3>1. CASE cleaner = "look"
      <4>1. sessions[scanned] \in Sessions
        BY <3>1 DEF ChatInv, TypeOK, Scan
      <4> QED  BY <3>1, <4>1, <2>1 DEF CleanerRuns
    <3>2. CASE cleaner # "look"
      BY <3>2 DEF CleanerRuns, ChatInv, TypeOK
    <3> QED  BY <3>1, <3>2
  <2>3. ASSUME NEW h \in Handlers
        PROVE  \/ pc[h] = "out" \/ HandlerRuns(h)
               \/ pc[h] \in {"find", "create"} /\ cleaner # "sleep"
               \/ pc[h] = "lock" /\ HeldByATurn(sess[h])
    <3>1. pc[h] \in {"out", "find", "create", "lock", "turn"}
      BY DEF ChatInv, TypeOK
    <3>2. pc[h] = "lock" => sess[h] \in Sessions
      BY DEF ChatInv, Held
    <3> QED  BY <2>1, <3>1, <3>2 DEF HandlerRuns, storeLocked
  <2> QED  BY <2>2, <2>3 DEF NobodyWaitsInACircle
<1>2. Init => Apart
  BY InitApart
<1>3. ChatInv /\ Apart /\ [Next]_vars => Apart'
  BY NextApart
<1> QED  BY <1>1, <1>2, <1>3, ChatInvHolds, PTL DEF Spec

-----------------------------------------------------------------------------
(* Turns end                                                               *)

(* The steps a handler has left, at most. *)
stepsLeft(h) ==
  CASE pc[h] = "out"    -> 0
    [] pc[h] = "find"   -> MaxRequests + 4
    [] pc[h] = "create" -> MaxRequests + 3
    [] pc[h] = "lock"   -> MaxRequests + 2
    [] pc[h] = "turn"   -> MaxRequests + 1 - request[h]

(* No step of a handler brings it back to where it has been, and no step of the
   clean-up or of another handler moves it: a second look finds the session or
   makes one, and Gemini is asked so many times and no more.              *)
ChatsGetShorter ==
  [][\A h \in Handlers : pc[h] # "out" =>
       UNCHANGED <<pc[h], request[h]>> \/ stepsLeft(h)' < stepsLeft(h)]_vars

(* A step of h shortens what h has left, and moves nobody else. *)
LEMMA HandlerGetsShorter ==
  ASSUME ChatInv, NEW h \in Handlers, HandlerStep(h)
  PROVE  /\ stepsLeft(h)' < stepsLeft(h)
         /\ \A g \in Handlers \ {h} : UNCHANGED <<pc[g], request[g]>>
<1> USE DEF Goto
<1>1. /\ pc \in [Handlers -> {"out", "find", "create", "lock", "turn"}]
      /\ request \in [Handlers -> 0 .. MaxRequests]
      /\ MaxRequests \in Nat \ {0}
  BY ChatAssumption DEF ChatInv, TypeOK, ChatAssumption
<1>2. CASE Find(h)
  <2>1. /\ pc[h] = "find" /\ UNCHANGED request
        /\ pc' = [pc EXCEPT ![h] = "create"] \/ pc' = [pc EXCEPT ![h] = "lock"]
    BY <1>2 DEF Find
  <2> QED  BY <1>1, <2>1 DEF stepsLeft
<1>3. CASE FindAgain(h) \/ \E s \in Sessions : Create(h, s)
  <2>1. pc[h] = "create" /\ UNCHANGED request /\ pc' = [pc EXCEPT ![h] = "lock"]
    BY <1>3 DEF FindAgain, Create
  <2> QED  BY <1>1, <2>1 DEF stepsLeft
<1>4. CASE Begin(h)
  <2>1. /\ pc[h] = "lock" /\ pc' = [pc EXCEPT ![h] = "turn"]
        /\ request' = [request EXCEPT ![h] = 1]
    BY <1>4 DEF Begin
  <2> QED  BY <1>1, <2>1 DEF stepsLeft
<1>5. CASE CallTool(h)
  <2>1. /\ pc[h] = "turn" /\ UNCHANGED pc /\ request[h] < MaxRequests
        /\ request' = [request EXCEPT ![h] = @ + 1]
    BY <1>5 DEF CallTool
  <2> QED  BY <1>1, <2>1 DEF stepsLeft
<1>6. CASE Reply(h) \/ Fail(h)
  <2>1. /\ pc[h] = "turn" /\ pc' = [pc EXCEPT ![h] = "out"]
        /\ request' = [request EXCEPT ![h] = 0]
    BY <1>6 DEF Reply, Fail, Leave, Forget
  <2> QED  BY <1>1, <2>1 DEF stepsLeft
<1> QED  BY <1>2, <1>3, <1>4, <1>5, <1>6 DEF HandlerStep

(* With LocksAreLetGo, what EveryChatReturns needs of the locks' fairness: that
   handlers take their steps, of which each has MaxRequests + 4 at most.  *)
THEOREM ChatsEnd == Spec => ChatsGetShorter
<1>1. ChatInv /\ [Next]_vars =>
        [\A h \in Handlers : pc[h] # "out" =>
           UNCHANGED <<pc[h], request[h]>> \/ stepsLeft(h)' < stepsLeft(h)]_vars
  <2> SUFFICES ASSUME ChatInv, [Next]_vars, NEW h \in Handlers, pc[h] # "out"
               PROVE  UNCHANGED <<pc[h], request[h]>> \/ stepsLeft(h)' < stepsLeft(h)
    OBVIOUS
  <2>1. ASSUME NEW g \in Handlers, HandlerStep(g)
        PROVE  UNCHANGED <<pc[h], request[h]>> \/ stepsLeft(h)' < stepsLeft(h)
    BY <2>1, HandlerGetsShorter
  <2>2. ASSUME NEW g \in Handlers, NEW k \in Keys, FleetChat(g, k)
        PROVE  UNCHANGED <<pc[h], request[h]>>
    BY <2>2 DEF FleetChat, Goto, ChatInv, TypeOK
  <2>3. CASE Tick \/ CleanupStart \/ CleanerScan \/ UNCHANGED vars
    BY <2>3 DEF Tick, CleanupStart, CleanerScan, CleanupNext, CleanupLook, CleanupKeep,
       CleanupDelete, CleanupEnd, vars, handlerVars
  <2> QED  BY <2>1, <2>2, <2>3 DEF Next
<1> QED  BY <1>1, ChatInvHolds, PTL DEF Spec, ChatsGetShorter
=============================================================================
