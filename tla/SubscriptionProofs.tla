-------------------------- MODULE SubscriptionProofs --------------------------
(***************************************************************************)
(* ProIsPaidFor, CreditLastsAMonth and ApprovedIsNotForgotten for any      *)
(* organisations, payments, handlers, notifications and crashes.           *)
(*                                                                         *)
(* None of them is inductive.  PaidInv adds what a handler knows after the *)
(* payment has been read (Handled), that a notification is of a payment    *)
(* that was made (Made), and that the days since a credit and the days     *)
(* left of it add up to a month (Credit), which is stronger than that the  *)
(* date has not passed.                                                    *)
(***************************************************************************)
EXTENDS Subscription, TLAPS

(* A payment that exists was made from a checkout of an organisation that
   exists, and notifications are of payments that exist.                  *)
Made ==
  /\ \A o \in tokens : tier[o] # None
  /\ \A p \in Payments : status[p] # "none" => ref[p] \in Orgs
  /\ \A n \in unacked : status[n[1]] # "none"

(* What a handler has in hand: past the GET, an approved payment. *)
Handled ==
  \A w \in Workers :
    /\ pc[w] # "idle" => notice[w] \in Notices /\ status[payment(w)] # "none"
    /\ pc[w] = "update" => status[payment(w)] = "approved"

Credit ==
  \A o \in Orgs : sincePaid[o] # None =>
    /\ tier[o] # None
    /\ sincePaid[o] <= Month => left[o] = Month - sincePaid[o]

PaidInv ==
  TypeOK /\ Made /\ Handled /\ Credit /\ ProIsPaidFor /\ ApprovedIsNotForgotten

-----------------------------------------------------------------------------
LEMMA InitPaid == Init => PaidInv
<1>. SUFFICES ASSUME Init PROVE PaidInv
  OBVIOUS
<1>. USE SubscriptionAssumption DEF SubscriptionAssumption, Init
<1>1. TypeOK
  BY DEF TypeOK, Tiers
<1>2. Made /\ Handled /\ Credit /\ ProIsPaidFor /\ ApprovedIsNotForgotten
  BY DEF Made, Handled, Credit, ProIsPaidFor, ApprovedIsNotForgotten, Tiers
<1>. QED  BY <1>1, <1>2 DEF PaidInv

(* A day passes: what is left shrinks as what has gone by grows. *)
LEMMA DayKeepsPaid == ASSUME PaidInv, Day PROVE PaidInv'
<1>1. /\ \A o \in Orgs : left[o] \in -1 .. Month
      /\ \A o \in Orgs : sincePaid[o] \in 0 .. Month + 1 \cup {None}
      /\ Month \in Nat
  BY SubscriptionAssumption DEF PaidInv, TypeOK, SubscriptionAssumption
<1>2. /\ left' \in [Orgs -> -1 .. Month]
      /\ \A o \in Orgs : left'[o] = IF left[o] < 0 THEN left[o] ELSE left[o] - 1
  BY <1>1 DEF Day
<1>3. /\ \A o \in Orgs : sincePaid'[o] = IF sincePaid[o] = None \/ sincePaid[o] > Month
                                         THEN sincePaid[o] ELSE sincePaid[o] + 1
      /\ sincePaid' = [o \in Orgs |-> sincePaid'[o]]
  BY DEF Day
<1>4. sincePaid' \in [Orgs -> 0 .. Month + 1 \cup {None}]
  BY <1>1, <1>3
<1>5. UNCHANGED <<tokens, tier, ref, status, unacked, notices, pc, notice, crashes,
                  credited, lost>>
  BY DEF Day, mpVars
<1>6. TypeOK'
  BY <1>2, <1>4, <1>5 DEF PaidInv, TypeOK
<1>7. Credit'
  <2>. SUFFICES ASSUME NEW o \in Orgs, sincePaid'[o] # None
                PROVE  /\ tier'[o] # None
                       /\ sincePaid'[o] <= Month => left'[o] = Month - sincePaid'[o]
    BY DEF Credit
  <2>1. sincePaid[o] # None
    BY <1>3
  <2>2. tier[o] # None /\ (sincePaid[o] <= Month => left[o] = Month - sincePaid[o])
    BY <2>1 DEF PaidInv, Credit
  <2>3. sincePaid[o] \in 0 .. Month + 1
    BY <1>1, <2>1
  <2>. QED  BY <1>1, <1>2, <1>3, <1>5, <2>1, <2>2, <2>3
<1>8. Made' /\ Handled' /\ ProIsPaidFor' /\ ApprovedIsNotForgotten'
  BY <1>5 DEF PaidInv, Made, Handled, ProIsPaidFor, ApprovedIsNotForgotten, payment
<1>. QED  BY <1>6, <1>7, <1>8 DEF PaidInv

(* What the organisations do to their own rows. *)
LEMMA AccountKeepsPaid ==
  ASSUME PaidInv, NEW o \in Orgs, CreateOrg(o) \/ MakeBusiness(o) \/ Login(o)
  PROVE  PaidInv'
<1>1. UNCHANGED <<ref, status, unacked, notices, pc, notice, crashes, credited,
                  sincePaid, lost>>
  BY DEF CreateOrg, MakeBusiness, Login, mpVars
<1>2. /\ Trial \in 0 .. Month
      /\ None \notin Tiers
  BY SubscriptionAssumption DEF SubscriptionAssumption
<1>3. /\ tier' \in [Orgs -> Tiers \cup {None}] /\ tokens' \subseteq Orgs
      /\ \A q \in Orgs : tier[q] # None => tier'[q] # None
      /\ \A q \in Orgs : tier'[q] = "pro" => tier[q] = "pro"
      /\ \A q \in tokens' : tier'[q] # None
  BY <1>2 DEF CreateOrg, MakeBusiness, Login, PaidInv, TypeOK, Made, Tiers
<1>4. /\ left' \in [Orgs -> -1 .. Month]
      /\ \A q \in Orgs : tier[q] # None => left'[q] = left[q]
  BY <1>2 DEF CreateOrg, MakeBusiness, Login, PaidInv, TypeOK
<1>5. TypeOK'
  BY <1>1, <1>3, <1>4 DEF PaidInv, TypeOK
<1>6. Credit'
  BY <1>1, <1>3, <1>4 DEF PaidInv, Credit
<1>7. Made' /\ Handled' /\ ProIsPaidFor' /\ ApprovedIsNotForgotten'
  BY <1>1, <1>3 DEF PaidInv, Made, Handled, ProIsPaidFor, ApprovedIsNotForgotten, payment
<1>. QED  BY <1>5, <1>6, <1>7 DEF PaidInv

(* Mercado Pago makes, decides and notifies of a payment: what was approved
   stays so, and of what is approved now there is a notification.         *)
LEMMA PaymentKeepsPaid ==
  ASSUME PaidInv, NEW p \in Payments,
         \/ \E o \in Orgs, v \in {"other", "approved"} : Checkout(o, p, v)
         \/ Approve(p) \/ NotifyAgain(p)
  PROVE  PaidInv'
<1>1. UNCHANGED <<tokens, tier, left, credited, sincePaid, lost, pc, notice, crashes>>
  BY DEF Checkout, Approve, NotifyAgain, orgVars
<1>2. /\ notices[p] \in 0 .. MaxNotices - 1 /\ MaxNotices \in Nat
      /\ notices' = [notices EXCEPT ![p] = notices[p] + 1]
      /\ unacked' = unacked \cup {<<p, notices'[p]>>}
  BY SubscriptionAssumption
  DEF Checkout, Approve, NotifyAgain, Notify, PaidInv, TypeOK, SubscriptionAssumption
<1>3. notices'[p] = notices[p] + 1 /\ notices'[p] \in 1 .. MaxNotices
  BY <1>2 DEF PaidInv, TypeOK
<1>4. notices' \in [Payments -> 0 .. MaxNotices] /\ unacked' \subseteq Notices
  BY <1>2, <1>3 DEF PaidInv, TypeOK, Notices
<1>5. /\ status' \in [Payments -> {"none", "other", "approved"}]
      /\ ref' \in [Payments -> Orgs \cup {None}]
      /\ status'[p] # "none" /\ ref'[p] \in Orgs
      /\ status[p] = "approved" => status'[p] = "approved"
      /\ status[p] # "none" => ref'[p] = ref[p]
      /\ \A q \in Payments \ {p} : status'[q] = status[q] /\ ref'[q] = ref[q]
  BY DEF Checkout, Approve, NotifyAgain, PaidInv, TypeOK, Made
<1>6. TypeOK'
  BY <1>1, <1>4, <1>5 DEF PaidInv, TypeOK
<1>7. Made'
  <2>1. \A n \in unacked : n[1] \in Payments /\ status[n[1]] # "none"
    BY DEF PaidInv, TypeOK, Made, Notices
  <2>2. \A n \in unacked' : n \in unacked \/ n[1] = p
    BY <1>2
  <2>3. \A n \in unacked' : status'[n[1]] # "none"
    BY <1>5, <2>1, <2>2
  <2>. QED  BY <1>1, <1>5, <2>3 DEF PaidInv, Made
<1>8. Handled'
  <2>. SUFFICES ASSUME NEW w \in Workers, pc[w] # "idle"
                PROVE  /\ notice[w] \in Notices /\ status'[notice[w][1]] # "none"
                       /\ pc[w] = "update" => status'[notice[w][1]] = "approved"
    BY <1>1 DEF Handled, payment
  <2>1. notice[w] \in Notices /\ notice[w][1] \in Payments
    BY DEF PaidInv, Handled, Notices
  <2>. QED  BY <1>5, <2>1 DEF PaidInv, Handled, payment
<1>9. Credit'
  BY <1>1 DEF PaidInv, Credit
<1>10. ProIsPaidFor'
  BY <1>1, <1>5 DEF PaidInv, ProIsPaidFor
<1>11. ApprovedIsNotForgotten'
  <2>. SUFFICES ASSUME NEW q \in Payments, status'[q] = "approved"
                PROVE  q \in credited \/ q \in lost \/ \E n \in unacked' : n[1] = q
    BY <1>1 DEF ApprovedIsNotForgotten
  <2>1. CASE q = p
    <3>1. <<p, notices'[p]>> \in unacked' /\ <<p, notices'[p]>>[1] = p
      BY <1>2
    <3>. QED  BY <2>1, <3>1
  <2>2. CASE q # p
    BY <1>2, <1>5, <2>2 DEF PaidInv, ApprovedIsNotForgotten
  <2>. QED  BY <2>1, <2>2
<1>. QED  BY <1>6, <1>7, <1>8, <1>9, <1>10, <1>11 DEF PaidInv

-----------------------------------------------------------------------------
(* What every step of a handler leaves alone, and what an answer takes away. *)
LEMMA HandlerMoves ==
  ASSUME PaidInv, NEW w \in Workers,
         (\E n \in Notices : Webhook(w, n)) \/ WebhookStep(w) \/ Crash(w)
  PROVE  /\ UNCHANGED <<tokens, ref, status, notices>>
         /\ crashes' \in 0 .. MaxCrashes
         /\ pc' \in [Workers -> {"idle", "get", "update"}]
         /\ notice' \in [Workers -> Notices \cup {None}]
         /\ unacked' \subseteq unacked /\ Made' /\ Handled'
<1>1. /\ UNCHANGED <<tokens, ref, status, notices>> /\ unacked' \subseteq unacked
      /\ \A o \in Orgs : tier[o] # None => tier'[o] # None
  BY SubscriptionAssumption
  DEF Webhook, WebhookStep, Crash, GetPaymentFailed, GetPaymentApproved, GetPaymentOther,
      UpdateOrgTier, UpdateFailed, Acknowledge, mpVars, orgVars, PaidInv, TypeOK,
      SubscriptionAssumption, Tiers
<1>2. crashes' \in 0 .. MaxCrashes
  BY SubscriptionAssumption
  DEF Webhook, WebhookStep, Crash, GetPaymentFailed, GetPaymentApproved, GetPaymentOther,
      UpdateOrgTier, UpdateFailed, PaidInv, TypeOK, SubscriptionAssumption
<1>3. /\ pc' \in [Workers -> {"idle", "get", "update"}]
      /\ notice' \in [Workers -> Notices \cup {None}]
      /\ \A v \in Workers \ {w} : pc'[v] = pc[v] /\ notice'[v] = notice[v]
  BY DEF Webhook, WebhookStep, Crash, GetPaymentFailed, GetPaymentApproved, GetPaymentOther,
         UpdateOrgTier, UpdateFailed, Acknowledge, PaidInv, TypeOK
<1>4. \/ pc'[w] = "idle"
      \/ pc'[w] = "get" /\ notice'[w] \in unacked
      \/ pc'[w] = "update" /\ pc[w] = "get" /\ notice'[w] = notice[w]
         /\ status[payment(w)] = "approved"
  BY DEF Webhook, WebhookStep, Crash, GetPaymentFailed, GetPaymentApproved, GetPaymentOther,
         UpdateOrgTier, UpdateFailed, Acknowledge, PaidInv, TypeOK
<1>5. Made'
  BY <1>1 DEF PaidInv, TypeOK, Made
<1>6. Handled'
  BY <1>1, <1>3, <1>4 DEF PaidInv, TypeOK, Made, Handled, payment
<1>. QED  BY <1>1, <1>2, <1>3, <1>5, <1>6

(* A handler that answers has credited the payment, given it up, or seen that
   it is not approved.                                                    *)
LEMMA AnswersAreAccountedFor ==
  ASSUME PaidInv, NEW w \in Workers,
         (\E n \in Notices : Webhook(w, n)) \/ WebhookStep(w) \/ Crash(w)
  PROVE  ApprovedIsNotForgotten' /\ credited' \subseteq Payments /\ lost' \subseteq Payments
<1>1. UNCHANGED status
  BY HandlerMoves
<1>2. /\ credited \subseteq credited' /\ lost \subseteq lost'
      /\ \/ unacked' = unacked
         \/ /\ pc[w] # "idle" /\ unacked' = unacked \ {notice[w]}
            /\ \/ payment(w) \in credited' \cup lost'
               \/ status[payment(w)] # "approved"
  BY DEF Webhook, WebhookStep, Crash, GetPaymentFailed, GetPaymentApproved, GetPaymentOther,
         UpdateOrgTier, UpdateFailed, Acknowledge, mpVars, orgVars
<1>3. ApprovedIsNotForgotten'
  BY <1>1, <1>2 DEF PaidInv, ApprovedIsNotForgotten, payment
<1>4. pc[w] # "idle" => payment(w) \in Payments
  BY DEF PaidInv, Handled, Notices, payment
<1>5. credited' \subseteq Payments /\ lost' \subseteq Payments
  BY <1>4
  DEF Webhook, WebhookStep, Crash, GetPaymentFailed, GetPaymentApproved, GetPaymentOther,
      UpdateOrgTier, UpdateFailed, orgVars, PaidInv, TypeOK
<1>. QED  BY <1>3, <1>5

LEMMA HandlerKeepsPaid ==
  ASSUME PaidInv, NEW w \in Workers,
         (\E n \in Notices : Webhook(w, n)) \/ WebhookStep(w) \/ Crash(w)
  PROVE  PaidInv'
<1>1. CASE UpdateOrgTier(w)
  <2>1. /\ pc[w] = "update" /\ payment(w) \in Payments
        /\ status[payment(w)] = "approved" /\ ref[payment(w)] \in Orgs
    BY <1>1 DEF UpdateOrgTier, PaidInv, Handled, Made, Notices, payment
  <2>2. PICK o \in Orgs : o = ref[payment(w)]
    BY <2>1
  <2>3. /\ tier' = [tier EXCEPT ![o] = "pro"] /\ left' = [left EXCEPT ![o] = Month]
        /\ sincePaid' = [sincePaid EXCEPT ![o] = 0]
    BY <1>1, <2>2 DEF UpdateOrgTier
  <2>4. UNCHANGED <<ref, status>>
    BY <1>1 DEF UpdateOrgTier
  <2>5. TypeOK'
    <3>1. /\ tier' \in [Orgs -> Tiers \cup {None}]
          /\ left' \in [Orgs -> -1 .. Month]
          /\ sincePaid' \in [Orgs -> 0 .. Month + 1 \cup {None}]
      BY <2>3, SubscriptionAssumption DEF PaidInv, TypeOK, Tiers, SubscriptionAssumption
    <3>. QED  BY <3>1, HandlerMoves, AnswersAreAccountedFor DEF PaidInv, TypeOK
  <2>6. Credit'
    BY <2>3, SubscriptionAssumption DEF PaidInv, TypeOK, Credit, Tiers, SubscriptionAssumption
  <2>7. ProIsPaidFor'
    <3>1. \A q \in Orgs : tier'[q] = "pro" => tier[q] = "pro" \/ q = o
      BY <2>3 DEF PaidInv, TypeOK
    <3>. QED  BY <2>1, <2>2, <2>4, <3>1 DEF PaidInv, ProIsPaidFor
  <2>. QED  BY <2>5, <2>6, <2>7, HandlerMoves, AnswersAreAccountedFor DEF PaidInv
<1>2. CASE ~ UpdateOrgTier(w)
  <2>1. UNCHANGED <<tier, left, sincePaid>>
    BY <1>2 DEF Webhook, WebhookStep, Crash, GetPaymentFailed, GetPaymentApproved,
                GetPaymentOther, UpdateFailed, orgVars
  <2>2. UNCHANGED <<tokens, ref, status>>
    BY HandlerMoves
  <2>3. TypeOK'
    BY <2>1, HandlerMoves, AnswersAreAccountedFor DEF PaidInv, TypeOK
  <2>4. Credit' /\ ProIsPaidFor'
    BY <2>1, <2>2 DEF PaidInv, Credit, ProIsPaidFor
  <2>. QED  BY <2>3, <2>4, HandlerMoves, AnswersAreAccountedFor DEF PaidInv
<1>. QED  BY <1>1, <1>2

LEMMA NextPaid == PaidInv /\ [Next]_vars => PaidInv'
<1>. SUFFICES ASSUME PaidInv, [Next]_vars PROVE PaidInv'
  OBVIOUS
<1>1. CASE Day
  BY <1>1, DayKeepsPaid
<1>2. ASSUME NEW o \in Orgs, CreateOrg(o) \/ MakeBusiness(o) \/ Login(o)
      PROVE  PaidInv'
  BY <1>2, AccountKeepsPaid
<1>3. ASSUME NEW p \in Payments,
             \/ \E o \in Orgs, v \in {"other", "approved"} : Checkout(o, p, v)
             \/ Approve(p) \/ NotifyAgain(p)
      PROVE  PaidInv'
  BY <1>3, PaymentKeepsPaid
<1>4. ASSUME NEW w \in Workers,
             (\E n \in Notices : Webhook(w, n)) \/ WebhookStep(w) \/ Crash(w)
      PROVE  PaidInv'
  BY <1>4, HandlerKeepsPaid
<1>5. CASE UNCHANGED vars
  BY <1>5 DEF vars, PaidInv, TypeOK, Made, Handled, Credit, ProIsPaidFor,
              ApprovedIsNotForgotten, payment
<1>. QED  BY <1>1, <1>2, <1>3, <1>4, <1>5 DEF Next

(* The types, the handlers' knowledge and the arithmetic of a credit hold
   throughout.                                                            *)
THEOREM PaidInvHolds == Spec => []PaidInv
  BY InitPaid, NextPaid, PTL DEF Spec

(* MPWebhook gives the paid tier for approved payments only and to the
   organisation whose checkout they came from.                            *)
THEOREM PaidTierIsPaidFor == Spec => []ProIsPaidFor
<1>1. PaidInv => ProIsPaidFor
  BY DEF PaidInv
<1>. QED  BY <1>1, PaidInvHolds, PTL

(* UpdateOrgTier sets the date thirty days ahead, and nothing that comes after
   it, be it a late or a repeated notification, takes a day away.         *)
THEOREM CreditIsKept == Spec => []CreditLastsAMonth
<1>1. PaidInv => CreditLastsAMonth
  <2>. SUFFICES ASSUME PaidInv, NEW o \in Orgs, sincePaid[o] # None, sincePaid[o] <= Month
                PROVE  mayChat(o)
    BY DEF CreditLastsAMonth
  <2>1. sincePaid[o] \in 0 .. Month + 1 /\ Month \in Nat /\ left[o] = Month - sincePaid[o]
    BY SubscriptionAssumption DEF PaidInv, TypeOK, Credit, SubscriptionAssumption
  <2>2. ~ (left[o] < 0)
    BY <2>1
  <2>. QED  BY <2>2 DEF mayChat, GetOrg
<1>. QED  BY <1>1, PaidInvHolds, PTL

(* A handler that dies before it returns leaves the notification to be made
   again: an approved payment is credited, given up by a failed call, or
   still to be told of.                                                   *)
THEOREM CrashesLoseNothing == Spec => []ApprovedIsNotForgotten
<1>1. PaidInv => ApprovedIsNotForgotten
  BY DEF PaidInv
<1>. QED  BY <1>1, PaidInvHolds, PTL
=============================================================================
