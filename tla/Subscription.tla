----------------------------- MODULE Subscription -----------------------------
(***************************************************************************)
(* An organisation's account and what it pays for: CreateOrg, Login,       *)
(* FleetCreateCheckout, Mercado Pago and its notifications, MPWebhook, and *)
(* the tier check of FleetChat.                                            *)
(*                                                                         *)
(* Mercado Pago is external.  It keeps the payments, may notify of one as  *)
(* often as it likes while the payment lives, and sends a notification     *)
(* again until it reads a 200.  MPWebhook calls WriteHeader(200) first,    *)
(* but net/http keeps the header in its buffer until the handler returns:  *)
(* that is when the answer leaves.                                         *)
(***************************************************************************)
EXTENDS Integers

CONSTANTS
  Orgs,
  Payments,    \* payments Mercado Pago may come to hold; a bound
  Workers,     \* goroutines that serve the webhook
  Trial,       \* days until tier_expires_at of a new organisation (10)
  Month,       \* days an approved payment is good for (30)
  MaxNotices,  \* bound: notifications of one payment
  MaxCrashes,  \* bound: handlers cut short
  None

Tiers == {"free", "pro", "business"}

ASSUME SubscriptionAssumption ==
  /\ Trial \in Nat /\ Month \in Nat /\ Trial <= Month
  /\ MaxNotices \in Nat /\ MaxCrashes \in Nat
  /\ None \notin Orgs \cup Payments \cup Tiers

VARIABLES
  tokens,    \* the organisations somebody has a token of; a token has no expiry
  tier,      \* organizations.tier, None before the organisation is created
  left,      \* days until organizations.tier_expires_at, -1 once it is past
  ref,       \* external_reference of each payment, None until it is made
  status,    \* status of each payment at Mercado Pago: pending, rejected and
             \* whatever else is not approved are "other"
  notices,   \* how many notifications were made of each payment
  unacked,   \* notifications, as <<payment, number>>, that had no 200 yet
  pc, notice,  \* each webhook handler: where it is, which notification it has
  crashes,
  credited,  \* history: payments that have moved an expiry date
  sincePaid, \* history: days since an organisation was last credited, or None
  lost       \* history: approved payments a handler gave up on

mpVars == <<ref, status, unacked, notices>>
orgVars == <<tokens, tier, left, credited, sincePaid, lost>>
vars == <<tokens, tier, left, ref, status, unacked, notices, pc, notice, crashes,
          credited, sincePaid, lost>>

Notices == Payments \X (1 .. MaxNotices)
payment(w) == notice[w][1]

TypeOK ==
  /\ tokens \subseteq Orgs
  /\ tier \in [Orgs -> Tiers \cup {None}]
  /\ left \in [Orgs -> -1 .. Month]
  /\ ref \in [Payments -> Orgs \cup {None}]
  /\ status \in [Payments -> {"none", "other", "approved"}]
  /\ unacked \subseteq Notices
  /\ notices \in [Payments -> 0 .. MaxNotices]
  /\ pc \in [Workers -> {"idle", "get", "update"}]
  /\ notice \in [Workers -> Notices \cup {None}]
  /\ crashes \in 0 .. MaxCrashes
  /\ credited \subseteq Payments
  /\ sincePaid \in [Orgs -> 0 .. Month + 1 \cup {None}]
  /\ lost \subseteq Payments

Init ==
  /\ tokens = {}
  /\ tier = [o \in Orgs |-> None]
  /\ left = [o \in Orgs |-> -1]
  /\ ref = [p \in Payments |-> None]
  /\ status = [p \in Payments |-> "none"]
  /\ unacked = {}
  /\ notices = [p \in Payments |-> 0]
  /\ pc = [w \in Workers |-> "idle"]
  /\ notice = [w \in Workers |-> None]
  /\ crashes = 0
  /\ credited = {}
  /\ sincePaid = [o \in Orgs |-> None]
  /\ lost = {}

-----------------------------------------------------------------------------
Day ==
  /\ left' = [o \in Orgs |-> IF left[o] < 0 THEN left[o] ELSE left[o] - 1]
  /\ sincePaid' = [o \in Orgs |->
                     IF sincePaid[o] = None \/ sincePaid[o] > Month
                     THEN sincePaid[o] ELSE sincePaid[o] + 1]
  /\ UNCHANGED <<tokens, tier, mpVars, pc, notice, crashes, credited, lost>>

(* The columns' defaults: free, and a trial from now on. *)
CreateOrg(o) ==
  /\ tier[o] = None
  /\ tier' = [tier EXCEPT ![o] = "free"]
  /\ left' = [left EXCEPT ![o] = Trial]
  /\ UNCHANGED <<tokens, credited, sincePaid, lost, mpVars, pc, notice, crashes>>

(* No handler makes an organisation "business": that is done by hand. *)
MakeBusiness(o) ==
  /\ tier[o] # None
  /\ tier' = [tier EXCEPT ![o] = "business"]
  /\ UNCHANGED <<tokens, left, credited, sincePaid, lost, mpVars, pc, notice, crashes>>

(* The claims name the organisation and nothing else. *)
Login(o) ==
  /\ tier[o] # None
  /\ tokens' = tokens \cup {o}
  /\ UNCHANGED <<tier, left, credited, sincePaid, lost, mpVars, pc, notice, crashes>>

(* A request comes with a token of o. *)
orgIDFromToken(o) == o \in tokens

Notify(p) ==
  /\ notices[p] < MaxNotices
  /\ notices' = [notices EXCEPT ![p] = @ + 1]
  /\ unacked' = unacked \cup {<<p, notices'[p]>>}

(* FleetCreateCheckout hands out a preference that carries the org's id; the
   payment made from it is new to Mercado Pago, and may be decided at once. *)
Checkout(o, p, verdict) ==
  /\ orgIDFromToken(o)
  /\ status[p] = "none"
  /\ ref' = [ref EXCEPT ![p] = o]
  /\ status' = [status EXCEPT ![p] = verdict]
  /\ Notify(p)
  /\ UNCHANGED <<orgVars, pc, notice, crashes>>

Approve(p) ==
  /\ status[p] = "other"
  /\ status' = [status EXCEPT ![p] = "approved"]
  /\ Notify(p)
  /\ UNCHANGED <<orgVars, ref, pc, notice, crashes>>

(* Mercado Pago has more to say about a payment than its status. *)
NotifyAgain(p) ==
  /\ status[p] # "none"
  /\ Notify(p)
  /\ UNCHANGED <<orgVars, ref, status, pc, notice, crashes>>

-----------------------------------------------------------------------------
(* Slip: the 200 is flushed before the payment is looked at. *)
WebhookAcksFirst(w, n) ==
  /\ pc[w] = "idle" /\ n \in unacked
  /\ pc' = [pc EXCEPT ![w] = "get"]
  /\ notice' = [notice EXCEPT ![w] = n]
  /\ unacked' = unacked \ {n}
  /\ UNCHANGED <<orgVars, ref, status, notices, crashes>>

(* MPWebhook: a payment's notification is delivered; other topics return. *)
Webhook(w, n) ==
  /\ pc[w] = "idle" /\ n \in unacked
  /\ pc' = [pc EXCEPT ![w] = "get"]
  /\ notice' = [notice EXCEPT ![w] = n]
  /\ UNCHANGED <<orgVars, mpVars, crashes>>

(* The handler returns and the 200 goes out, whatever came of it. *)
Acknowledge(w) ==
  /\ pc' = [pc EXCEPT ![w] = "idle"]
  /\ notice' = [notice EXCEPT ![w] = None]
  /\ unacked' = unacked \ {notice[w]}

(* No answer from Mercado Pago: the notification is used up all the same. *)
GetPaymentFailed(w) ==
  /\ pc[w] = "get"
  /\ Acknowledge(w)
  /\ lost' = IF status[payment(w)] = "approved" THEN lost \cup {payment(w)} ELSE lost
  /\ UNCHANGED <<tokens, tier, left, credited, sincePaid, ref, status, notices, crashes>>

(* Slip: the status is not looked at. *)
GetPaymentUnchecked(w) ==
  /\ pc[w] = "get"
  /\ pc' = [pc EXCEPT ![w] = "update"]
  /\ UNCHANGED <<orgVars, mpVars, notice, crashes>>

GetPaymentApproved(w) ==
  /\ pc[w] = "get"
  /\ status[payment(w)] = "approved"
  /\ pc' = [pc EXCEPT ![w] = "update"]
  /\ UNCHANGED <<orgVars, mpVars, notice, crashes>>

GetPaymentOther(w) ==
  /\ pc[w] = "get"
  /\ status[payment(w)] # "approved"
  /\ Acknowledge(w)
  /\ UNCHANGED <<orgVars, ref, status, notices, crashes>>

(* Slip: an organisation that has a paid tier keeps its date. *)
UpdateOrgTierOnce(w) ==
  /\ pc[w] = "update"
  /\ LET o == ref[payment(w)]
     IN  /\ tier' = [tier EXCEPT ![o] = "pro"]
         /\ left' = [left EXCEPT ![o] = IF tier[o] = "free" THEN Month ELSE @]
         /\ sincePaid' = [sincePaid EXCEPT ![o] = 0]
  /\ credited' = credited \cup {payment(w)}
  /\ Acknowledge(w)
  /\ UNCHANGED <<tokens, ref, status, notices, crashes, lost>>

(* expiresAt is thirty days from now: not from the old expiry, and whatever
   the tier was.                                                          *)
UpdateOrgTier(w) ==
  /\ pc[w] = "update"
  /\ LET o == ref[payment(w)]
     IN  /\ tier' = [tier EXCEPT ![o] = "pro"]
         /\ left' = [left EXCEPT ![o] = Month]
         /\ sincePaid' = [sincePaid EXCEPT ![o] = 0]
  /\ credited' = credited \cup {payment(w)}
  /\ Acknowledge(w)
  /\ UNCHANGED <<tokens, ref, status, notices, crashes, lost>>

UpdateFailed(w) ==
  /\ pc[w] = "update"
  /\ Acknowledge(w)
  /\ lost' = lost \cup {payment(w)}
  /\ UNCHANGED <<tokens, tier, left, credited, sincePaid, ref, status, notices, crashes>>

(* The process dies under the handler: nothing is sent. *)
Crash(w) ==
  /\ pc[w] # "idle"
  /\ crashes < MaxCrashes
  /\ crashes' = crashes + 1
  /\ pc' = [pc EXCEPT ![w] = "idle"]
  /\ notice' = [notice EXCEPT ![w] = None]
  /\ UNCHANGED <<orgVars, mpVars>>

(* The row as every request reads it anew: a token says nothing of the tier. *)
GetOrg(o) == [Tier |-> tier[o], expired |-> left[o] < 0]

(* The tier check of FleetChat. *)
mayChat(o) == GetOrg(o).Tier = "business" \/ ~ GetOrg(o).expired

WebhookStep(w) ==
  \/ GetPaymentFailed(w) \/ GetPaymentApproved(w) \/ GetPaymentOther(w)
  \/ UpdateOrgTier(w) \/ UpdateFailed(w)

Next ==
  \/ Day
  \/ \E o \in Orgs : CreateOrg(o) \/ MakeBusiness(o) \/ Login(o)
  \/ \E o \in Orgs, p \in Payments, verdict \in {"other", "approved"} :
       Checkout(o, p, verdict)
  \/ \E p \in Payments : Approve(p) \/ NotifyAgain(p)
  \/ \E w \in Workers, n \in Notices : Webhook(w, n)
  \/ \E w \in Workers : WebhookStep(w) \/ Crash(w)

Spec == Init /\ [][Next]_vars

-----------------------------------------------------------------------------
(* The paid tier is only ever given for a payment that was approved, to the
   organisation its checkout was made for, whatever order and number the
   notifications of its other payments arrive in.                         *)
ProIsPaidFor ==
  \A o \in Orgs : tier[o] = "pro" =>
    \E p \in Payments : ref[p] = o /\ status[p] = "approved"

(* From the moment it is credited an organisation may chat for a whole month:
   no later notification takes days away.                                 *)
CreditLastsAMonth ==
  \A o \in Orgs : sincePaid[o] # None /\ sincePaid[o] <= Month => mayChat(o)

(* An approved payment is not forgotten: it is credited, or Mercado Pago or the
   database failed a handler that looked at it, or Mercado Pago still has a
   notification of it to repeat.  A crash of the handler costs nothing.   *)
ApprovedIsNotForgotten ==
  \A p \in Payments : status[p] = "approved" =>
    p \in credited \/ p \in lost \/ \E n \in unacked : n[1] = p
=============================================================================
