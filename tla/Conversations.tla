---------------------------- MODULE Conversations ----------------------------
(***************************************************************************)
(* What FleetChat promises the people who chat, without the store, its     *)
(* locks, the session objects or the clean-up that it is made of: a        *)
(* conversation is one thread.  One turn of it goes on at a time; the turn *)
(* starts from the whole of the thread and is added to that thread and to  *)
(* no other; a thread never loses a turn, it is forgotten as a whole.      *)
(***************************************************************************)
CONSTANTS
  Keys,      \* conversations
  Handlers,  \* who serves them
  Turns,     \* questions with their answers
  None       \* no handler, and no conversation

VARIABLES
  asked,    \* the turn each handler has to serve and its conversation
  thread,   \* the turns each conversation remembers
  speaker,  \* who is at a turn of each conversation
  told      \* the turns that one was told of

conversationVars == <<asked, thread, speaker, told>>

Nothing == [key |-> None, turn |-> None]

ConversationsInit ==
  /\ asked = [h \in Handlers |-> Nothing]
  /\ thread = [k \in Keys |-> {}]
  /\ speaker = [k \in Keys |-> None]
  /\ told = [k \in Keys |-> {}]

Ask(h, k, t) ==
  /\ asked[h] = Nothing
  /\ asked' = [asked EXCEPT ![h] = [key |-> k, turn |-> t]]
  /\ UNCHANGED <<thread, speaker, told>>

(* The conversation's next turn. *)
Speak(h, k) ==
  /\ asked[h].key = k
  /\ speaker[k] = None
  /\ speaker' = [speaker EXCEPT ![k] = h]
  /\ told' = [told EXCEPT ![k] = thread[k]]
  /\ UNCHANGED <<asked, thread>>

EndTurn(h, k) ==
  /\ speaker[k] = h
  /\ speaker' = [speaker EXCEPT ![k] = None]
  /\ told' = [told EXCEPT ![k] = {}]
  /\ asked' = [asked EXCEPT ![h] = Nothing]

Answer(h, k) ==
  /\ asked[h].key = k
  /\ EndTurn(h, k)
  /\ thread' = [thread EXCEPT ![k] = @ \cup {asked[h].turn}]

GiveUp(h, k) ==
  /\ EndTurn(h, k)
  /\ UNCHANGED thread

(* A turn that began in a conversation since forgotten is in none. *)
AnswerUnheard(h) ==
  /\ asked[h] # Nothing
  /\ \A k \in Keys : speaker[k] # h
  /\ asked' = [asked EXCEPT ![h] = Nothing]
  /\ UNCHANGED <<thread, speaker, told>>

Forget(k) ==
  /\ thread' = [thread EXCEPT ![k] = {}]
  /\ speaker' = [speaker EXCEPT ![k] = None]
  /\ told' = [told EXCEPT ![k] = {}]
  /\ UNCHANGED asked

ConversationsNext ==
  \/ \E h \in Handlers, k \in Keys, t \in Turns : Ask(h, k, t)
  \/ \E h \in Handlers, k \in Keys : Speak(h, k) \/ Answer(h, k) \/ GiveUp(h, k)
  \/ \E h \in Handlers : AnswerUnheard(h)
  \/ \E k \in Keys : Forget(k)

ConversationsSpec == ConversationsInit /\ [][ConversationsNext]_conversationVars
=============================================================================
