----------------------------- MODULE ChatSession -----------------------------
(***************************************************************************)
(* The conversations of FleetChat: chatSessionStore, its clean-up          *)
(* goroutine, and the agentic loop a handler runs with the session locked. *)
(*                                                                         *)
(* A session's contents are abstracted to the set of turns they hold.  A   *)
(* handler keeps a pointer to its session from getOrCreate on but locks it *)
(* only afterwards; the clean-up holds the store's lock all along its scan *)
(* and takes each session's lock in turn.                                  *)
(***************************************************************************)
EXTENDS Naturals

CONSTANTS
  Keys,        \* "orgID:session_id"
  Handlers,    \* goroutines that serve POST /v1/fleet/chat
  Sessions,    \* chatSession objects; those nobody refers to are reused
  sessionTTL,  \* 30 minutes
  MaxRequests, \* requests to Gemini in one turn (4 in the code)
  MaxTurns,    \* bound: turns started
  None

ASSUME ChatAssumption ==
  /\ sessionTTL \in Nat /\ MaxRequests \in Nat \ {0} /\ MaxTurns \in Nat
  /\ None \notin Sessions /\ None \notin Keys /\ None \notin Handlers

Turns == 1 .. MaxTurns

VARIABLES
  sessions,  \* chatSessionStore.sessions
  scanning,  \* keys the clean-up has still to look at
  scanned,   \* the key whose session the clean-up has in hand
  expired,   \* what the clean-up read of that session
  cleaner,   \* where the clean-up is; it holds the store's lock unless "sleep"
  contents,  \* chatSession.contents
  idle,      \* time since chatSession.lastUsed, up to past sessionTTL
  lock,      \* chatSession.mu: None or its holder
  pc, key, sess, request,  \* each handler: where it is, what it works on
  snapshot,  \* the history it read when it locked the session
  turn,      \* the turn it is working on, 0 for none
  turns,     \* turns started so far
  answered,  \* history: turns answered under each key since the clean-up last
             \* found its session expired
  orphaned   \* history: keys whose session the clean-up found expired while a
             \* handler already had hold of it

cleanerVars == <<scanning, scanned, expired, cleaner>>
handlerVars == <<pc, key, sess, request, snapshot, turn, turns>>
vars == <<sessions, scanning, scanned, expired, cleaner, contents, idle, lock,
          pc, key, sess, request, snapshot, turn, turns, answered, orphaned>>
historyVars == <<answered, orphaned>>

TypeOK ==
  /\ sessions \in [Keys -> Sessions \cup {None}]
  /\ scanning \subseteq Keys
  /\ scanned \in Keys \cup {None}
  /\ expired \in BOOLEAN
  /\ cleaner \in {"sleep", "scan", "look", "delete"}
  /\ contents \in [Sessions -> SUBSET Turns]
  /\ idle \in [Sessions -> 0 .. sessionTTL + 1]
  /\ lock \in [Sessions -> Handlers \cup {None}]
  /\ pc \in [Handlers -> {"out", "find", "create", "lock", "turn"}]
  /\ key \in [Handlers -> Keys \cup {None}]
  /\ sess \in [Handlers -> Sessions \cup {None}]
  /\ request \in [Handlers -> 0 .. MaxRequests]
  /\ snapshot \in [Handlers -> SUBSET Turns]
  /\ turn \in [Handlers -> 0 .. MaxTurns]
  /\ turns \in 0 .. MaxTurns
  /\ answered \in [Keys -> SUBSET Turns]
  /\ orphaned \subseteq Keys

Init ==
  /\ sessions = [k \in Keys |-> None]
  /\ scanning = {} /\ scanned = None /\ expired = FALSE /\ cleaner = "sleep"
  /\ contents = [s \in Sessions |-> {}]
  /\ idle = [s \in Sessions |-> 0]
  /\ lock = [s \in Sessions |-> None]
  /\ pc = [h \in Handlers |-> "out"]
  /\ key = [h \in Handlers |-> None]
  /\ sess = [h \in Handlers |-> None]
  /\ request = [h \in Handlers |-> 0]
  /\ snapshot = [h \in Handlers |-> {}]
  /\ turn = [h \in Handlers |-> 0]
  /\ turns = 0
  /\ answered = [k \in Keys |-> {}]
  /\ orphaned = {}

Goto(h, label) == pc' = [pc EXCEPT ![h] = label]

(* The clean-up keeps the store's lock from its first look to its last. *)
storeLocked == cleaner # "sleep"

-----------------------------------------------------------------------------
(* FleetChat up to the session: the checks and the reads before it change
   nothing a conversation depends on.                                     *)
FleetChat(h, k) ==
  /\ pc[h] = "out"
  /\ turns < MaxTurns
  /\ Goto(h, "find")
  /\ key' = [key EXCEPT ![h] = k]
  /\ turns' = turns + 1
  /\ turn' = [turn EXCEPT ![h] = turns']
  /\ UNCHANGED <<sessions, cleanerVars, contents, idle, lock, sess, request, snapshot, historyVars>>

(* getOrCreate: a look under the read lock, then a second one under the
   write lock before a session is made.                                   *)
Find(h) ==
  /\ pc[h] = "find" /\ ~storeLocked
  /\ IF sessions[key[h]] = None
     THEN Goto(h, "create") /\ UNCHANGED sess
     ELSE Goto(h, "lock") /\ sess' = [sess EXCEPT ![h] = sessions[key[h]]]
  /\ UNCHANGED <<sessions, cleanerVars, contents, idle, lock, key, request, snapshot, turn, turns, historyVars>>

FindAgain(h) ==
  /\ pc[h] = "create" /\ ~storeLocked
  /\ sessions[key[h]] # None
  /\ sess' = [sess EXCEPT ![h] = sessions[key[h]]]
  /\ Goto(h, "lock")
  /\ UNCHANGED <<sessions, cleanerVars, contents, idle, lock, key, request, snapshot, turn, turns, historyVars>>

FreeSessions == {s \in Sessions : (\A k \in Keys : sessions[k] # s)
                                    /\ (\A h \in Handlers : sess[h] # s)}

(* Slip: no second look. *)
CreateUnchecked(h, s) ==
  /\ pc[h] = "create" /\ ~storeLocked
  /\ s \in FreeSessions
  /\ sessions' = [sessions EXCEPT ![key[h]] = s]
  /\ contents' = [contents EXCEPT ![s] = {}]
  /\ idle' = [idle EXCEPT ![s] = 0]
  /\ sess' = [sess EXCEPT ![h] = s]
  /\ Goto(h, "lock")
  /\ UNCHANGED <<cleanerVars, lock, key, request, snapshot, turn, turns, historyVars>>

Create(h, s) ==
  /\ pc[h] = "create" /\ ~storeLocked
  /\ sessions[key[h]] = None
  /\ s \in FreeSessions
  /\ sessions' = [sessions EXCEPT ![key[h]] = s]
  /\ contents' = [contents EXCEPT ![s] = {}]
  /\ idle' = [idle EXCEPT ![s] = 0]
  /\ sess' = [sess EXCEPT ![h] = s]
  /\ Goto(h, "lock")
  /\ UNCHANGED <<cleanerVars, lock, key, request, snapshot, turn, turns, historyVars>>

(* Slip: the session is not locked. *)
BeginUnlocked(h) ==
  /\ pc[h] = "lock"
  /\ idle' = [idle EXCEPT ![sess[h]] = 0]
  /\ snapshot' = [snapshot EXCEPT ![h] = contents[sess[h]]]
  /\ request' = [request EXCEPT ![h] = 1]
  /\ Goto(h, "turn")
  /\ UNCHANGED <<sessions, cleanerVars, contents, lock, key, sess, turn, turns, historyVars>>

(* sess.mu.Lock(), the time stamp and the copy of the history. *)
Begin(h) ==
  /\ pc[h] = "lock" /\ lock[sess[h]] = None
  /\ lock' = [lock EXCEPT ![sess[h]] = h]
  /\ idle' = [idle EXCEPT ![sess[h]] = 0]
  /\ snapshot' = [snapshot EXCEPT ![h] = contents[sess[h]]]
  /\ request' = [request EXCEPT ![h] = 1]
  /\ Goto(h, "turn")
  /\ UNCHANGED <<sessions, cleanerVars, contents, key, sess, turn, turns, historyVars>>

(* Gemini asks for consultar_multas and is asked again with its result. *)
CallTool(h) ==
  /\ pc[h] = "turn"
  /\ request[h] < MaxRequests
  /\ request' = [request EXCEPT ![h] = @ + 1]
  /\ UNCHANGED <<sessions, cleanerVars, contents, idle, lock, pc, key, sess, snapshot, turn, turns, historyVars>>

Forget(h) ==
  /\ Goto(h, "out")
  /\ key' = [key EXCEPT ![h] = None]
  /\ sess' = [sess EXCEPT ![h] = None]
  /\ request' = [request EXCEPT ![h] = 0]
  /\ snapshot' = [snapshot EXCEPT ![h] = {}]
  /\ turn' = [turn EXCEPT ![h] = 0]

(* The handler returns: the deferred Unlock, and its locals gone. *)
Leave(h) ==
  /\ lock' = [lock EXCEPT ![sess[h]] = None]
  /\ Forget(h)

(* A text ends the turn and is the only way into the history. *)
Reply(h) ==
  /\ pc[h] = "turn"
  /\ contents' = [contents EXCEPT ![sess[h]] = snapshot[h] \cup {turn[h]}]
  /\ answered' = [answered EXCEPT ![key[h]] = @ \cup {turn[h]}]
  /\ Leave(h)
  /\ UNCHANGED <<sessions, cleanerVars, idle, turns, orphaned>>

(* Slip: the error path returns with the session locked. *)
FailKeepsLock(h) ==
  /\ pc[h] = "turn"
  /\ Forget(h)
  /\ UNCHANGED <<sessions, cleanerVars, contents, idle, lock, turns, historyVars>>

(* An error of Gemini, an empty reply, a panic in the error branch, or one
   more tool call than is allowed.                                        *)
Fail(h) ==
  /\ pc[h] = "turn"
  /\ Leave(h)
  /\ UNCHANGED <<sessions, cleanerVars, contents, idle, turns, historyVars>>

-----------------------------------------------------------------------------
CleanupStart ==
  /\ cleaner = "sleep"
  /\ cleaner' = "scan"
  /\ scanning' = {k \in Keys : sessions[k] # None}
  /\ UNCHANGED <<sessions, scanned, expired, contents, idle, lock, handlerVars, historyVars>>

CleanupNext(k) ==
  /\ cleaner = "scan" /\ k \in scanning
  /\ cleaner' = "look" /\ scanned' = k /\ scanning' = scanning \ {k}
  /\ UNCHANGED <<sessions, expired, contents, idle, lock, handlerVars, historyVars>>

(* What an expired session means to the conversation it belongs to. *)
Found(isExpired) ==
  IF isExpired
  THEN /\ answered' = [answered EXCEPT ![scanned] = {}]
       /\ orphaned' = IF \E h \in Handlers : sess[h] = sessions[scanned]
                        THEN orphaned \cup {scanned} ELSE orphaned
  ELSE UNCHANGED historyVars

(* Slip: the comparison is the wrong way round. *)
CleanupLookAtActive ==
  /\ cleaner = "look" /\ lock[sessions[scanned]] = None
  /\ expired' = (idle[sessions[scanned]] < sessionTTL)
  /\ Found(expired')
  /\ cleaner' = "delete"
  /\ UNCHANGED <<sessions, scanning, scanned, contents, idle, lock, handlerVars>>

(* The session's lock is taken for the look at lastUsed only. *)
CleanupLook ==
  /\ cleaner = "look" /\ lock[sessions[scanned]] = None
  /\ expired' = (idle[sessions[scanned]] > sessionTTL)
  /\ Found(expired')
  /\ cleaner' = "delete"
  /\ UNCHANGED <<sessions, scanning, scanned, contents, idle, lock, handlerVars>>

CleanupKeep ==
  /\ cleaner = "delete" /\ ~expired
  /\ cleaner' = "scan" /\ scanned' = None
  /\ UNCHANGED <<sessions, scanning, expired, contents, idle, lock, handlerVars, historyVars>>

CleanupDelete ==
  /\ cleaner = "delete" /\ expired
  /\ sessions' = [sessions EXCEPT ![scanned] = None]
  /\ cleaner' = "scan" /\ scanned' = None /\ expired' = FALSE
  /\ UNCHANGED <<scanning, contents, idle, lock, handlerVars, historyVars>>

CleanupEnd ==
  /\ cleaner = "scan" /\ scanning = {}
  /\ cleaner' = "sleep"
  /\ UNCHANGED <<sessions, scanning, scanned, expired, contents, idle, lock, handlerVars, historyVars>>

(* A tick is a good part of sessionTTL.  A handler has its session for a few
   minutes at most, which is none.                                        *)
Aging == {s \in Sessions : (\E k \in Keys : sessions[k] = s)
                              /\ (\A h \in Handlers : sess[h] # s)}

Tick ==
  /\ idle' = [s \in Sessions |->
                IF s \in Aging /\ idle[s] <= sessionTTL THEN idle[s] + 1 ELSE idle[s]]
  /\ UNCHANGED <<sessions, cleanerVars, contents, lock, handlerVars, historyVars>>

HandlerStep(h) ==
  \/ Find(h) \/ FindAgain(h) \/ \E s \in Sessions : Create(h, s)
  \/ Begin(h) \/ CallTool(h) \/ Reply(h) \/ Fail(h)

CleanerScan ==
  \/ \E k \in Keys : CleanupNext(k)
  \/ CleanupLook \/ CleanupKeep \/ CleanupDelete \/ CleanupEnd

Next ==
  \/ Tick \/ CleanupStart \/ CleanerScan
  \/ \E h \in Handlers, k \in Keys : FleetChat(h, k)
  \/ \E h \in Handlers : HandlerStep(h)

Spec == Init /\ [][Next]_vars

(* Go's mutexes hand the lock to whoever waits long enough; requests to Gemini
   end after 30 seconds.  Nobody has to chat.                             *)
FairSpec ==
  /\ Spec
  /\ WF_vars(Tick) /\ WF_vars(CleanupStart) /\ WF_vars(CleanerScan)
  /\ SF_vars(CleanupLook)
  /\ \A h \in Handlers :
       /\ WF_vars(HandlerStep(h))
       /\ SF_vars(Find(h) \/ FindAgain(h) \/ \E s \in Sessions : Create(h, s))
       /\ SF_vars(Begin(h))

-----------------------------------------------------------------------------
(* No answered turn is lost to another one: handlers of one conversation that
   run at the same time write the history one after the other.            *)
NoTurnOverwritten ==
  [][\A s \in Sessions \ FreeSessions : contents[s] \subseteq contents'[s]]_vars

(* "chatSession holds a single conversation thread's full Gemini history": a
   turn starts from all that was answered under its key since the clean-up
   last found the conversation expired.                                   *)
FullHistory ==
  [][\A h \in Handlers :
       pc[h] = "lock" /\ pc'[h] = "turn" => answered[key[h]] \subseteq snapshot'[h]]_vars

(* The conversations whose session the clean-up never took away from under a
   handler are the ones this is true of: the two looks of getOrCreate, the
   session's lock and the store's leave no other way to lose a turn.      *)
FullHistoryUnlessOrphaned ==
  [][\A h \in Handlers :
       pc[h] = "lock" /\ pc'[h] = "turn" /\ key[h] \notin orphaned =>
         answered[key[h]] \subseteq snapshot'[h]]_vars

(* Every chat request ends, although the clean-up keeps all of them from their
   sessions while it waits for the lock of one.                           *)
EveryChatReturns == \A h \in Handlers : pc[h] # "out" ~> pc[h] = "out"

(* A conversation left alone is forgotten, so that the store stays bounded. *)
ForgottenWhenIdle ==
  \A k \in Keys :
    sessions[k] # None /\ idle[sessions[k]] > sessionTTL
      ~> sessions[k] = None \/ idle[sessions[k]] <= sessionTTL

-----------------------------------------------------------------------------
(* A conversation is the session the store has under its key: what it remembers
   is in that session, and who speaks in it holds that session's lock.  A
   session that was deleted under a handler belongs to no conversation.   *)
asking == [h \in Handlers |->
             IF pc[h] = "out" THEN [key |-> None, turn |-> None]
                              ELSE [key |-> key[h], turn |-> turn[h]]]
threads == [k \in Keys |-> IF sessions[k] = None THEN {} ELSE contents[sessions[k]]]
speakers == [k \in Keys |-> IF sessions[k] = None THEN None ELSE lock[sessions[k]]]
recalled == [k \in Keys |-> IF speakers[k] = None THEN {} ELSE snapshot[speakers[k]]]

Conversation == INSTANCE Conversations WITH
  asked <- asking, thread <- threads, speaker <- speakers, told <- recalled

(* Whatever the handlers, the clean-up and their locks do, each organization's
   conversation is one thread: turns enter it one at a time, whole and in no
   other conversation, and leave it only when all of it is forgotten.     *)
ImplementsConversations == Conversation!ConversationsSpec
=============================================================================
