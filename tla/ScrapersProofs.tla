---------------------------- MODULE ScrapersProofs ----------------------------
(***************************************************************************)
(* Proofs about Scrapers: the session a form is sent in, and what is read  *)
(* from the answer.                                                        *)
(*                                                                         *)
(* The invariant says that a request is in the session its page gave it    *)
(* unless something came between, so that a site refuses a form only of a  *)
(* disturbed request.  What is said of fines follows from it and from what *)
(* the table of scrapers has in common, for any number of requests, any    *)
(* sessions and any subset of the table.                                   *)
(*                                                                         *)
(* A refusal uses something up of which no step makes more, so that they   *)
(* come to an end.                                                         *)
(*                                                                         *)
(* What is read is a matter of folds over sequences, and no induction over *)
(* sequences is at hand: a fold is unrolled into the list of what is left  *)
(* after each of its steps (FoldSteps), which has an invariant like any    *)
(* behaviour has, and what holds from 0 up to n is what no least number    *)
(* fails (AllUpTo).  Pages and amounts are of any length and any size; of  *)
(* rows and lists there are as many as the property speaks of.             *)
(***************************************************************************)
EXTENDS Scrapers, TLAPS, WellFoundedInduction, FiniteSetTheorems, SequenceTheorems

(* Who takes no answer it was not given for "no fines". *)
Careful == {CABA, SanMartin, Cordoba}

(* What the table of scrapers has in common: a query by plate is supported and
   asks about the plate; a query by document asks about the document, but for
   one scraper that asks about nothing, and one that always does; and the
   plate of the query is written only on what was found by it, with three
   exceptions when both are given and three for a document.               *)
AsksAsAsked(k) ==
  /\ "plate" \in k.queries /\ k.queries \subseteq everything
  /\ \/ /\ k.asks.plate = "plate"
        /\ \/ k.asks.document = "document"
           \/ k.asks.document = "nothing" /\ k = TresDeFebrero
        /\ k.asks.both \in {"plate", "document", "both"}
     \/ k = Tigre /\ k.asks = [q \in everything |-> "nothing"]

LabelsWhatItAskedFor(k) ==
  /\ k.label.plate = "asked"
  /\ \/ "document" \notin k.queries
     \/ k.label.document \in {"blank", "own"}
     \/ k.asks.document = "nothing"
     \/ k \in {SanMartin, LaMatanza, Mendoza}
  /\ k.label.both = "asked"
  /\ k.asks.both \in {"plate", "nothing"} \/ k \in {SantaFe, SanMartin, LaMatanza}

ClaimsOnlyWhatItRead(k) ==
  k \in Careful => \A f \in Failures : k.takes[f] # "empty"

(* The careful ones take no failure for an empty answer. *)
LEMMA ScrapersClaim == \A k \in Careful : ClaimsOnlyWhatItRead(k)
<1> USE DEF anyPage, anyJSON, gradedPage
<1>1. ASSUME NEW k, k.takes.refusal # "empty", k.takes.junk # "empty",
             k.takes.rowless # "empty", k.takes.blank # "empty",
             k.takes.cut # "empty", k.takes.down # "empty"
      PROVE  ClaimsOnlyWhatItRead(k)
  BY <1>1 DEF ClaimsOnlyWhatItRead, Failures
<1>2. ClaimsOnlyWhatItRead(CABA)
  BY <1>1 DEF CABA
<1>3. ClaimsOnlyWhatItRead(SanMartin)
  BY <1>1 DEF SanMartin
<1>4. ClaimsOnlyWhatItRead(Cordoba)
  BY <1>1 DEF Cordoba
<1> QED  BY <1>2, <1>3, <1>4 DEF Careful

(* What FoundAsAsked needs of a scraper. *)
WellDescribed(k) == AsksAsAsked(k) /\ LabelsWhatItAskedFor(k)

(* The whole table, one scraper at a time. *)
LEMMA ScrapersAsk == \A k \in AllScrapers : WellDescribed(k)
<1> USE DEF WellDescribed, AsksAsAsked, LabelsWhatItAskedFor, plateFirst,
            everything
<1>1. WellDescribed(CABA)
  BY DEF CABA
<1>2. WellDescribed(SantaFe)
  BY DEF SantaFe
<1>3. WellDescribed(Corrientes)
  BY DEF Corrientes
<1>4. WellDescribed(fetchSIGEIN)
  BY DEF fetchSIGEIN
<1>5. WellDescribed(SanMartin)
  BY DEF SanMartin
<1>6. WellDescribed(Tigre)
  BY DEF Tigre
<1>7. WellDescribed(Mendoza)
  BY DEF Mendoza
<1>8. WellDescribed(EntreRios)
  BY DEF EntreRios
<1>9. WellDescribed(Cordoba)
  BY DEF Cordoba
<1>10. WellDescribed(Chaco)
  BY DEF Chaco
<1>11. WellDescribed(SantaRosa)
  BY DEF SantaRosa
<1>12. WellDescribed(PBA)
  BY DEF PBA
<1>13. WellDescribed(TresDeFebrero)
  BY DEF TresDeFebrero, fetchSIGEIN
<1>14. WellDescribed(LaMatanza)
  BY DEF LaMatanza, SanMartin
<1>15. WellDescribed(Misiones)
  BY DEF Misiones, EntreRios
<1> HIDE DEF WellDescribed
<1> QED
  BY <1>1, <1>2, <1>3, <1>4, <1>5, <1>6, <1>7, <1>8, <1>9, <1>10, <1>11, <1>12, <1>13, <1>14, <1>15
     DEF AllScrapers, RioTercero, RoqueSaenzPena,
         VillaAngostura, LomasDeZamora, Avellaneda,
         AlmiranteBrown, Escobar, Posadas,
         VenadoTuerto, Salta, Jujuy

(* A search by what a query names finds fines where there are any, and those
   of the asked plate alone where that plate is what it writes on them.   *)
LabelledTruly(c, v) ==
  \/ plateOn(c, v) \in {v, "blank"}
  \/ kind \in {SantaFe, SanMartin, LaMatanza} /\ query[c] = "both"
  \/ kind \in {SanMartin, LaMatanza, Mendoza} /\ query[c] = "document"

(* Who asks its site about nothing. *)
AsksNothing(c) ==
  \/ kind = TresDeFebrero /\ query[c] = "document"
  \/ kind = Tigre

(* What is found is labelled truly, and a vehicle asked about is not missed, but
   by those that ask about nothing. *)
LEMMA FoundAsAsked ==
  ASSUME WellDescribed(kind), NEW c \in Requests, query[c] \in kind.queries,
         NEW F \in SUBSET Vehicles, NEW hits \in found(c, F)
  PROVE  /\ hits = {} /\ F \cap about(c) # {} => AsksNothing(c)
         /\ \A v \in hits : LabelledTruly(c, v)
<1> USE DEF Vehicles
<1>queries. query[c] \in {"plate", "document", "both"}
  BY DEF WellDescribed, AsksAsAsked, everything
<1>plates. \A v : plateOn(c, v) =
             [asked |-> "p", blank |-> "blank", own |-> v, document |-> "document"][kind.label[query[c]]]
  BY DEF plateOn
<1>4. CASE kind = Tigre /\ kind.asks = [q \in everything |-> "nothing"]
  <2>1. kind.asks[query[c]] = "nothing"
    BY <1>queries, <1>4 DEF everything
  <2>2. hits = {}
    BY <2>1 DEF found
  <2> QED  BY <1>4, <2>2 DEF AsksNothing
<1>5. SUFFICES ASSUME /\ kind.asks.plate = "plate"
                      /\ \/ kind.asks.document = "document"
                         \/ kind.asks.document = "nothing" /\ kind = TresDeFebrero
                      /\ kind.asks.both \in {"plate", "document", "both"}
               PROVE  /\ hits = {} /\ F \cap about(c) # {} => AsksNothing(c)
                      /\ \A v \in hits : LabelledTruly(c, v)
  BY <1>4 DEF WellDescribed, AsksAsAsked
<1>1. CASE query[c] = "plate"
  <2>1. kind.asks[query[c]] = "plate" /\ kind.label[query[c]] = "asked"
    BY <1>1, <1>5 DEF WellDescribed, LabelsWhatItAskedFor
  <2>2. hits = F \cap {"p"} /\ about(c) = {"p"}
    BY <1>1, <2>1 DEF found, about
  <2>3. \A v \in hits : plateOn(c, v) = v
    BY <2>1, <2>2, <1>plates
  <2> QED  BY <2>2, <2>3 DEF LabelledTruly
<1>2. CASE query[c] = "document"
  <2>1. \/ kind.asks[query[c]] = "document"
        \/ kind.asks[query[c]] = "nothing" /\ kind = TresDeFebrero
    BY <1>2, <1>5
  <2>2. /\ kind.asks[query[c]] = "document" => hits = F \cap {"p", "q"}
        /\ kind.asks[query[c]] = "nothing" => hits = F \cap {}
    BY <2>1 DEF found
  <2>5. about(c) = {"p", "q"}
    BY <1>2 DEF about
  <2>3. CASE kind.asks[query[c]] = "nothing"
    BY <1>2, <2>1, <2>2, <2>3 DEF AsksNothing
  <2>4. CASE kind.asks[query[c]] = "document"
    <3>1. \/ kind.label[query[c]] \in {"blank", "own"}
          \/ kind \in {SanMartin, LaMatanza, Mendoza}
      BY <1>2, <2>4 DEF WellDescribed, LabelsWhatItAskedFor
    <3>2. ASSUME NEW v \in hits
          PROVE  LabelledTruly(c, v)
      <4>1. kind.label[query[c]] = "blank" => plateOn(c, v) = "blank"
        BY <1>plates
      <4>2. kind.label[query[c]] = "own" => plateOn(c, v) = v
        BY <1>plates
      <4> QED  BY <1>2, <3>1, <4>1, <4>2 DEF LabelledTruly
    <3> QED  BY <2>2, <2>4, <2>5, <3>2
  <2> QED  BY <2>1, <2>3, <2>4
<1>3. CASE query[c] = "both"
  <2>1. kind.asks[query[c]] \in {"plate", "document", "both"} /\ kind.label[query[c]] = "asked"
    BY <1>3, <1>5 DEF WellDescribed, LabelsWhatItAskedFor
  <2>2. /\ kind.asks[query[c]] = "plate" => hits = F \cap {"p"}
        /\ kind.asks[query[c]] = "document" => hits = F \cap {"p", "q"}
        /\ kind.asks[query[c]] = "both" => hits \in {F \cap {"p"}, F \cap {"p", "q"}}
    BY DEF found
  <2>4. about(c) = {"p"}
    BY <1>3 DEF about
  <2>3. \A v \in hits : LabelledTruly(c, v)
    <3>1. CASE kind.asks[query[c]] = "plate"
      BY <2>1, <2>2, <3>1, <1>plates DEF LabelledTruly
    <3>2. CASE kind.asks[query[c]] # "plate"
      <4>1. kind \in {SantaFe, SanMartin, LaMatanza}
        BY <1>3, <2>1, <3>2 DEF WellDescribed, LabelsWhatItAskedFor
      <4> QED  BY <1>3, <4>1 DEF LabelledTruly
    <3> QED  BY <3>1, <3>2
  <2> QED  BY <2>1, <2>2, <2>3, <2>4
<1> QED  BY <1>queries, <1>1, <1>2, <1>3

-----------------------------------------------------------------------------
(* The session a form is sent in                                           *)

(* As long as nothing has come between a request and its site: the page leaves
   with the jar's cookie; its form waits for a session that the jar is in
   and that its hidden fields were drawn for; and the site will take it.   *)
InSession(c) ==
  ~ disturbed[c] =>
    /\ pc[c] = "page" => cookie[c] = jar
    /\ pc[c] = "form" /\ kind.page # "none" =>
         jar \in live /\ (kind.page = "cookie" \/ fields[c] = jar)
    /\ pc[c] = "search" => takesForm(c)

(* A function of the requests, whatever its values. *)
OnRequests(f) == f = [c \in Requests |-> f[c]]

FetchTypeOK ==
  /\ kind \in Kinds
  /\ pc \in [Requests -> {"idle", "page", "form", "search"}]
  /\ missed \in [Requests -> BOOLEAN] /\ disturbed \in [Requests -> BOOLEAN]
  /\ OnRequests(query) /\ OnRequests(cookie) /\ OnRequests(fields) /\ OnRequests(fines)

FetchInv ==
  /\ FetchTypeOK
  /\ \A c \in Requests : query[c] \in kind.queries /\ InSession(c)

(* The site answers who has no live session with a new one and the jar takes
   its cookie; the sessions of requests on their way live on.             *)
LEMMA VisitRenews ==
  ASSUME NEW c \in Requests, Visit(c)
  PROVE  \/ cookie[c] \in live /\ jar' = jar /\ live' = live
         \/ /\ cookie[c] \notin live /\ jar' \in live'
            /\ \A d \in Requests : cookie[d] \in live => cookie[d] \in live'
  BY DEF Visit, held

(* What a visit of c does to another request: it notices a new jar while it has
   a form in hand, and nothing else concerns it.                          *)
LEMMA OthersStayInSession ==
  ASSUME NEW c \in Requests, Visit(c), NEW d \in Requests, InSession(d),
         disturbed[d] \in BOOLEAN,
         pc'[d] = pc[d], cookie'[d] = cookie[d], fields'[d] = fields[d], kind' = kind,
         disturbed'[d] = (disturbed[d] \/ (pc[d] \in {"page", "form"} /\ jar' # jar))
  PROVE  InSession(d)'
<1> SUFFICES ASSUME ~ disturbed'[d]
             PROVE  /\ pc[d] = "page" => cookie[d] = jar'
                    /\ pc[d] = "form" /\ kind.page # "none" =>
                         jar' \in live' /\ (kind.page = "cookie" \/ fields[d] = jar')
                    /\ pc[d] = "search" => takesForm(d)'
  BY DEF InSession
<1>1. ~ disturbed[d] /\ (pc[d] \in {"page", "form"} => jar' = jar)
  OBVIOUS
<1>2. pc[d] = "page" => cookie[d] = jar'
  BY <1>1 DEF InSession
<1>3. pc[d] = "form" /\ kind.page # "none" =>
        jar' \in live' /\ (kind.page = "cookie" \/ fields[d] = jar')
  BY <1>1, VisitRenews DEF InSession
<1>4. pc[d] = "search" => takesForm(d)'
  BY <1>1, VisitRenews DEF InSession, takesForm
<1> QED  BY <1>2, <1>3, <1>4

(* What a request that ends, or one that is answered, leaves to the others. *)
LEMMA AnswerKeeps ==
  ASSUME FetchInv, NEW c \in Requests, NEW what, NEW hits, NEW F, answer(c, what, hits, F),
         kind' = kind, query' = query
  PROVE  /\ pc' = [pc EXCEPT ![c] = "idle"]
         /\ OnRequests(query)' /\ OnRequests(cookie)' /\ OnRequests(fields)' /\ OnRequests(fines)'
         /\ missed' \in [Requests -> BOOLEAN]
         /\ missed'[c] = (what = "empty" /\ F \cap about(c) # {})
         /\ fines'[c] = {<<v, plateOn(c, v)>> : v \in hits}
         /\ \A d \in Requests \ {c} :
              /\ pc'[d] = pc[d] /\ cookie'[d] = cookie[d] /\ fields'[d] = fields[d]
              /\ missed'[d] = missed[d] /\ fines'[d] = fines[d]
  BY DEF answer, FetchInv, FetchTypeOK, OnRequests

(* The scraper of a run is one of the table. *)
LEMMA KindIsDescribed == FetchInv => WellDescribed(kind)
  BY ScrapersAsk, KindsAssumption DEF FetchInv, FetchTypeOK

(* Every pc of Fetch, and a session the site forgets, keeps the invariant. *)
LEMMA NextFetch ==
  ASSUME FetchInv, [Next]_vars
  PROVE  FetchInv'
<1> USE DEF FetchInv, FetchTypeOK
<1>kind. \A k \in Kinds : "plate" \in k.queries
  BY ScrapersAsk, KindsAssumption DEF WellDescribed, AsksAsAsked
<1>1. ASSUME NEW c \in Requests, NEW q \in everything, Fetch(c, q)
      PROVE  FetchInv'
  <2>1. FetchTypeOK'
    BY <1>1 DEF Fetch, siteVars, OnRequests
  <2>2. \A d \in Requests : query'[d] \in kind'.queries
    BY <1>1 DEF Fetch, OnRequests
  <2>3. InSession(c)'
    BY <1>1 DEF Fetch, siteVars, InSession, OnRequests
  <2>4. ASSUME NEW d \in Requests, d # c
        PROVE  InSession(d)'
    BY <1>1, <2>4 DEF Fetch, siteVars, InSession, takesForm, OnRequests
  <2> QED  BY <2>1, <2>2, <2>3, <2>4
<1>2. ASSUME NEW c \in Requests, PageLoaded(c)
      PROVE  FetchInv'
  <2>1. /\ pc[c] = "page" /\ Visit(c)
        /\ pc' = [pc EXCEPT ![c] = "form"]
        /\ fields' = [fields EXCEPT ![c] = IF kind.page = "cookie" THEN None
                                           ELSE IF cookie[c] \in live THEN cookie[c] ELSE jar']
        /\ cookie' = [cookie EXCEPT ![c] = None]
        /\ disturbed' = [d \in Requests |->
             disturbed[d] \/ (d # c /\ pc[d] \in {"page", "form"} /\ jar' # jar)]
        /\ UNCHANGED <<kind, query, fines, missed>>
    BY <1>2 DEF PageLoaded, disturbs, visited
  <2>2. FetchTypeOK'
    BY <2>1 DEF OnRequests
  <2>3. InSession(c)'
    <3>1. SUFFICES ASSUME ~ disturbed[c]
                   PROVE  jar' \in live' /\ (kind.page = "cookie" \/ fields'[c] = jar')
      BY <2>1 DEF InSession
    <3>2. cookie[c] = jar
      BY <2>1, <3>1 DEF InSession
    <3> QED  BY <2>1, <3>2, VisitRenews DEF OnRequests
  <2>4. ASSUME NEW d \in Requests, d # c
        PROVE  InSession(d)'
    BY <2>1, <2>4, OthersStayInSession DEF OnRequests
  <2> QED  BY <2>1, <2>2, <2>3, <2>4
<1>3. ASSUME NEW c \in Requests, PageBroken(c)
      PROVE  FetchInv'
  <2>1. /\ Visit(c)
        /\ pc' = [pc EXCEPT ![c] = "form"]
        /\ cookie' = [cookie EXCEPT ![c] = None]
        /\ disturbed' = [d \in Requests |->
             disturbed[d] \/ d = c \/ (pc[d] \in {"page", "form"} /\ jar' # jar)]
        /\ UNCHANGED <<kind, query, fields, fines, missed>>
    BY <1>3 DEF PageBroken
  <2>2. FetchTypeOK'
    BY <2>1 DEF OnRequests
  <2>3. InSession(c)'
    BY <2>1 DEF InSession
  <2>4. ASSUME NEW d \in Requests, d # c
        PROVE  InSession(d)'
    BY <2>1, <2>4, OthersStayInSession DEF OnRequests
  <2> QED  BY <2>1, <2>2, <2>3, <2>4
<1>quiet. ASSUME NEW c \in Requests, NEW what, NEW hits, NEW F, answer(c, what, hits, F),
                 UNCHANGED <<kind, jar, live, query>>,
                 disturbed' \in [Requests -> BOOLEAN],
                 \A d \in Requests \ {c} : disturbed'[d] = disturbed[d]
          PROVE  FetchInv'
  <2>1. FetchTypeOK' /\ pc'[c] = "idle"
    BY <1>quiet, AnswerKeeps
  <2>2. InSession(c)'
    BY <2>1 DEF InSession
  <2>3. ASSUME NEW d \in Requests, d # c
        PROVE  InSession(d)'
    <3>1. /\ pc'[d] = pc[d] /\ cookie'[d] = cookie[d] /\ fields'[d] = fields[d]
          /\ disturbed'[d] = disturbed[d]
      BY <1>quiet, <2>3, AnswerKeeps
    <3> QED  BY <1>quiet, <3>1 DEF InSession, takesForm
  <2> QED  BY <1>quiet, <2>1, <2>2, <2>3
<1>4. ASSUME NEW c \in Requests, PageFails(c)
      PROVE  FetchInv'
  BY <1>4, <1>quiet DEF PageFails
<1>5. ASSUME NEW c \in Requests, SendForm(c)
      PROVE  FetchInv'
  <2>1. /\ pc[c] = "form"
        /\ pc' = [pc EXCEPT ![c] = "search"]
        /\ cookie' = [cookie EXCEPT ![c] = IF kind.page = "none" THEN None ELSE jar]
        /\ UNCHANGED <<kind, jar, live, query, fields, fines, missed, disturbed>>
    BY <1>5 DEF SendForm, siteVars
  <2>2. FetchTypeOK'
    BY <2>1 DEF OnRequests
  <2>3. InSession(c)'
    BY <2>1 DEF InSession, takesForm, OnRequests
  <2>4. ASSUME NEW d \in Requests, d # c
        PROVE  InSession(d)'
    BY <2>1, <2>4 DEF InSession, takesForm, OnRequests
  <2> QED  BY <2>1, <2>2, <2>3, <2>4
<1>6. ASSUME NEW c \in Requests, Answered(c)
      PROVE  FetchInv'
  BY <1>6, <1>quiet DEF Answered, siteVars
<1>7. ASSUME NEW c \in Requests, Refused(c)
      PROVE  FetchInv'
  <2>1. PICK F \in SUBSET Vehicles : answer(c, kind.takes.refusal, {}, F)
    BY <1>7 DEF Refused
  <2>2. /\ Visit(c)
        /\ disturbed' = [d \in Requests |->
             disturbed[d] \/ (d # c /\ pc[d] \in {"page", "form"} /\ jar' # jar)]
        /\ UNCHANGED <<kind, query>>
    BY <1>7 DEF Refused, disturbs
  <2>3. FetchTypeOK' /\ pc'[c] = "idle"
    BY <2>1, <2>2, AnswerKeeps
  <2>4. InSession(c)'
    BY <2>3 DEF InSession
  <2>5. ASSUME NEW d \in Requests, d # c
        PROVE  InSession(d)'
    BY <2>1, <2>2, <2>5, AnswerKeeps, OthersStayInSession
  <2> QED  BY <2>2, <2>3, <2>4, <2>5
<1>8. ASSUME NEW c \in Requests, SearchFails(c)
      PROVE  FetchInv'
  <2>1. PICK f \in Failures, F \in SUBSET Vehicles :
          answer(c, kind.takes[f], {}, F)
    BY <1>8 DEF SearchFails
  <2>2. /\ UNCHANGED <<kind, jar, live, query>>
        /\ disturbed' = [disturbed EXCEPT ![c] = TRUE]
    BY <1>8 DEF SearchFails
  <2> QED  BY <2>1, <2>2, <1>quiet
<1>9. ASSUME NEW s \in Sessions, Forget(s)
      PROVE  FetchInv'
  <2>1. /\ live' = live \ {s}
        /\ disturbed' = [c \in Requests |-> disturbed[c] \/ pc[c] # "idle"]
        /\ UNCHANGED <<kind, jar, pc, query, cookie, fields, fines, missed>>
    BY <1>9 DEF Forget
  <2>2. FetchTypeOK'
    BY <2>1 DEF OnRequests
  <2>3. \A c \in Requests : InSession(c)'
    BY <2>1 DEF InSession
  <2> QED  BY <2>1, <2>2, <2>3
<1>10. CASE UNCHANGED vars
  BY <1>10 DEF vars, siteVars, InSession, takesForm, OnRequests
<1> QED
  BY <1>1, <1>2, <1>3, <1>4, <1>5, <1>6, <1>7, <1>8, <1>9, <1>10
     DEF Next, Step

-----------------------------------------------------------------------------
(* What Fetch says                                                         *)

(* "No fines" where there were some: when it is said, and as long as it stands. *)
Excused(c) ==
  (disturbed[c] /\ kind \notin Careful) \/ AsksNothing(c)

FinesLabelled(c) ==
  \A f \in fines[c] :
    \/ f[2] \in {f[1], "blank"}
    \/ kind \in {SantaFe, SanMartin, LaMatanza} /\ query[c] = "both"
    \/ kind \in {SanMartin, LaMatanza, Mendoza} /\ query[c] = "document"

SaysTruly(c) == (missed[c] => Excused(c)) /\ FinesLabelled(c)

(* An answer to c leaves what the other requests have said alone. *)
LEMMA OthersSaid ==
  ASSUME FetchInv, NEW c \in Requests, NEW what, NEW hits, NEW F, answer(c, what, hits, F),
         UNCHANGED <<kind, query>>,
         NEW d \in Requests, d # c, disturbed[d] => disturbed'[d], SaysTruly(d)
  PROVE  SaysTruly(d)'
<1>1. missed'[d] = missed[d] /\ fines'[d] = fines[d]
  BY AnswerKeeps
<1> QED  BY <1>1 DEF SaysTruly, Excused, AsksNothing, FinesLabelled

(* A search that was read is read right. *)
LEMMA AnsweredTruly ==
  ASSUME FetchInv, NEW c \in Requests, NEW F \in SUBSET Vehicles,
         NEW hits \in found(c, F),
         answer(c, IF hits = {} THEN kind.takes.none ELSE "list", hits, F),
         UNCHANGED <<kind, query>>
  PROVE  SaysTruly(c)'
<1>1. /\ WellDescribed(kind) /\ query[c] \in kind.queries
      /\ \A v \in hits : LabelledTruly(c, v)
      /\ hits = {} /\ F \cap about(c) # {} =>
           AsksNothing(c)
  BY KindIsDescribed, FoundAsAsked DEF FetchInv
<1>2. /\ missed'[c] => hits = {} /\ F \cap about(c) # {}
      /\ fines'[c] = {<<v, plateOn(c, v)>> : v \in hits}
  BY AnswerKeeps
<1>3. (missed[c] => Excused(c))'
  BY <1>1, <1>2 DEF Excused, AsksNothing
<1>4. FinesLabelled(c)'
  <2> SUFFICES ASSUME NEW f \in fines'[c]
               PROVE  \/ f[2] \in {f[1], "blank"}
                      \/ /\ kind \in {SantaFe, SanMartin, LaMatanza}
                         /\ query[c] = "both"
                      \/ /\ kind \in {SanMartin, LaMatanza, Mendoza}
                         /\ query[c] = "document"
    BY DEF FinesLabelled
  <2>1. PICK v \in hits : f = <<v, plateOn(c, v)>>
    BY <1>2
  <2> QED  BY <1>1, <2>1 DEF LabelledTruly
<1> QED  BY <1>3, <1>4 DEF SaysTruly

(* An answer that lists no fines is excused if it claims there are none. *)
LEMMA EmptyAnswer ==
  ASSUME FetchInv, NEW c \in Requests, NEW what, NEW F, answer(c, what, {}, F),
         UNCHANGED <<kind, query>>,
         what = "empty" => disturbed'[c] /\ kind \notin Careful
  PROVE  SaysTruly(c)'
<1>1. (missed'[c] => what = "empty") /\ fines'[c] = {}
  BY AnswerKeeps
<1> QED  BY <1>1 DEF SaysTruly, Excused, AsksNothing, FinesLabelled

(* Every pc says truly. *)
LEMMA NextSays ==
  ASSUME FetchInv, [Next]_vars,
         \A c \in Requests : SaysTruly(c), NEW d \in Requests
  PROVE  SaysTruly(d)'
<1>1. ASSUME NEW c \in Requests, NEW q \in everything, Fetch(c, q)
      PROVE  SaysTruly(d)'
  BY <1>1 DEF Fetch, FetchInv, FetchTypeOK, OnRequests, SaysTruly, Excused, AsksNothing,
              FinesLabelled
<1>2. ASSUME NEW c \in Requests, PageLoaded(c)
      PROVE  SaysTruly(d)'
  BY <1>2 DEF PageLoaded, disturbs, SaysTruly, Excused, AsksNothing, FinesLabelled
<1>3. ASSUME NEW c \in Requests, PageBroken(c)
      PROVE  SaysTruly(d)'
  BY <1>3 DEF PageBroken, SaysTruly, Excused, AsksNothing, FinesLabelled
<1>4. ASSUME NEW c \in Requests, PageFails(c)
      PROVE  SaysTruly(d)'
  BY <1>4, EmptyAnswer, OthersSaid DEF PageFails
<1>5. ASSUME NEW c \in Requests, SendForm(c)
      PROVE  SaysTruly(d)'
  BY <1>5 DEF SendForm, SaysTruly, Excused, AsksNothing, FinesLabelled
<1>6. ASSUME NEW c \in Requests, Answered(c)
      PROVE  SaysTruly(d)'
  <2>1. PICK F \in SUBSET Vehicles :
          \E hits \in found(c, F) :
            answer(c, IF hits = {} THEN kind.takes.none ELSE "list", hits, F)
    BY <1>6 DEF Answered
  <2>3. PICK hits \in found(c, F) :
          answer(c, IF hits = {} THEN kind.takes.none ELSE "list", hits, F)
    BY <2>1
  <2>2. UNCHANGED <<kind, query, disturbed>>
    BY <1>6 DEF Answered
  <2> QED  BY <2>2, <2>3, AnsweredTruly, OthersSaid
<1>7. ASSUME NEW c \in Requests, Refused(c)
      PROVE  SaysTruly(d)'
  <2>1. PICK F \in SUBSET Vehicles : answer(c, kind.takes.refusal, {}, F)
    BY <1>7 DEF Refused
  <2>2. /\ pc[c] = "search" /\ ~ takesForm(c)
        /\ disturbed' = [e \in Requests |->
             disturbed[e] \/ (e # c /\ pc[e] \in {"page", "form"} /\ jar' # jar)]
        /\ UNCHANGED <<kind, query>>
    BY <1>7 DEF Refused, disturbs
  <2>3. disturbed'[c] /\ \A e \in Requests : disturbed[e] => disturbed'[e]
    BY <2>2 DEF FetchInv, InSession
  <2>4. kind.takes.refusal = "empty" => kind \notin Careful
    BY ScrapersClaim DEF ClaimsOnlyWhatItRead, Failures
  <2> QED  BY <2>1, <2>2, <2>3, <2>4, EmptyAnswer, OthersSaid
<1>8. ASSUME NEW c \in Requests, SearchFails(c)
      PROVE  SaysTruly(d)'
  <2>1. PICK f \in Failures, F \in SUBSET Vehicles :
          answer(c, kind.takes[f], {}, F)
    BY <1>8 DEF SearchFails
  <2>2. UNCHANGED <<kind, query>> /\ disturbed' = [disturbed EXCEPT ![c] = TRUE]
    BY <1>8 DEF SearchFails
  <2>3. disturbed'[c] /\ \A e \in Requests : disturbed[e] => disturbed'[e]
    BY <2>2 DEF FetchInv, FetchTypeOK
  <2>4. kind.takes[f] = "empty" => kind \notin Careful
    BY ScrapersClaim DEF ClaimsOnlyWhatItRead
  <2> QED  BY <2>1, <2>2, <2>3, <2>4, EmptyAnswer, OthersSaid
<1>9. ASSUME NEW s \in Sessions, Forget(s)
      PROVE  SaysTruly(d)'
  BY <1>9 DEF Forget, SaysTruly, Excused, AsksNothing, FinesLabelled
<1>10. CASE UNCHANGED vars
  BY <1>10 DEF vars, SaysTruly, Excused, AsksNothing, FinesLabelled
<1> QED
  BY <1>1, <1>2, <1>3, <1>4, <1>5, <1>6, <1>7, <1>8, <1>9, <1>10
     DEF Next, Step

(* Nobody has said anything yet. *)
LEMMA InitFetch ==
  ASSUME Init
  PROVE  FetchInv /\ \A c \in Requests : SaysTruly(c)
<1>1. kind \in Kinds /\ "plate" \in kind.queries
  BY ScrapersAsk, KindsAssumption DEF Init, WellDescribed, AsksAsAsked
<1>2. FetchTypeOK
  BY <1>1 DEF Init, FetchTypeOK, OnRequests
<1>3. \A c \in Requests : query[c] \in kind.queries /\ InSession(c) /\ SaysTruly(c)
  BY <1>1 DEF Init, InSession, SaysTruly, Excused, AsksNothing, FinesLabelled
<1> QED  BY <1>2, <1>3 DEF FetchInv

(* A form is in its session unless something came between, and what is said
   of fines follows from that.                                            *)
THEOREM FetchInvHolds == Spec => [](FetchInv /\ \A c \in Requests : SaysTruly(c))
<1>1. Init => FetchInv /\ \A c \in Requests : SaysTruly(c)
  BY InitFetch
<1>2. FetchInv /\ (\A c \in Requests : SaysTruly(c)) /\ [Next]_vars =>
        FetchInv' /\ (\A c \in Requests : SaysTruly(c))'
  BY NextFetch, NextSays
<1> QED  BY <1>1, <1>2, PTL DEF Spec

(* NoFinesIsTrue: a scraper that was not disturbed says "no fines" only of a
   query that has none, and three of them whatever happens; the two that ask
   about nothing are named.                                               *)
THEOREM NoFinesHolds == Spec => []NoFinesIsTrue
<1>1. (\A c \in Requests : SaysTruly(c)) => NoFinesIsTrue
  BY DEF SaysTruly, Excused, AsksNothing, Careful, NoFinesIsTrue
<1> QED  BY <1>1, FetchInvHolds, PTL

(* FinesAreLabelledTruly: a fine carries the plate of its own vehicle or none,
   but at the scrapers that write what was asked for on what they find by a
   document: three of them asked with both, three asked by document.      *)
THEOREM LabelsHold == Spec => []FinesAreLabelledTruly
<1>1. (\A c \in Requests : SaysTruly(c)) => FinesAreLabelledTruly
  BY DEF SaysTruly, FinesLabelled, FinesAreLabelledTruly
<1> QED  BY <1>1, FetchInvHolds, PTL

-----------------------------------------------------------------------------
(* Type correctness: the entries of the table that an answer is made of, and
   the session that is free for who comes without one. *)
WellTyped(k) ==
  /\ k.takes.none \in {"failed", "unsure", "empty"}
  /\ k.takes.refusal \in {"failed", "unsure", "empty"}
  /\ k.takes.junk \in {"failed", "unsure", "empty"}
  /\ k.takes.rowless \in {"failed", "unsure", "empty"}
  /\ k.takes.blank \in {"failed", "unsure", "empty"}
  /\ k.takes.cut \in {"failed", "unsure", "empty"}
  /\ k.takes.down \in {"failed", "unsure", "empty"}
  /\ k.label.plate \in {"asked", "blank", "own", "document"}
  /\ k.label.document \in {"asked", "blank", "own", "document"}
  /\ k.label.both \in {"asked", "blank", "own", "document"}

(* The entries of every scraper of the table are of those kinds. *)
LEMMA ScrapersTyped == \A k \in AllScrapers : WellTyped(k)
<1> USE DEF WellTyped, anyPage, anyJSON, gradedPage, everything
<1>1. WellTyped(CABA)
  BY DEF CABA
<1>2. WellTyped(SantaFe)
  BY DEF SantaFe
<1>3. WellTyped(Corrientes)
  BY DEF Corrientes
<1>4. WellTyped(fetchSIGEIN)
  BY DEF fetchSIGEIN
<1>5. WellTyped(SanMartin)
  BY DEF SanMartin
<1>6. WellTyped(Tigre)
  BY DEF Tigre
<1>7. WellTyped(Mendoza)
  BY DEF Mendoza
<1>8. WellTyped(EntreRios)
  BY DEF EntreRios
<1>9. WellTyped(Cordoba)
  BY DEF Cordoba
<1>10. WellTyped(Chaco)
  BY DEF Chaco
<1>11. WellTyped(SantaRosa)
  BY DEF SantaRosa
<1>12. WellTyped(PBA)
  BY DEF PBA
<1>13. WellTyped(TresDeFebrero)
  BY DEF TresDeFebrero, fetchSIGEIN
<1>14. WellTyped(LaMatanza)
  BY DEF LaMatanza, SanMartin
<1>15. WellTyped(Misiones)
  BY DEF Misiones, EntreRios
<1> HIDE DEF WellTyped
<1> QED
  BY <1>1, <1>2, <1>3, <1>4, <1>5, <1>6, <1>7, <1>8, <1>9, <1>10, <1>11, <1>12, <1>13, <1>14, <1>15
     DEF AllScrapers, RioTercero, RoqueSaenzPena, VillaAngostura, LomasDeZamora, Avellaneda,
         AlmiranteBrown, Escobar, Posadas, VenadoTuerto, Salta, Jujuy

(* There is always a session that nobody holds: the requests and the jar hold
   too few of them.                                                       *)
LEMMA AtMostOneEach ==
  ASSUME NEW f
  PROVE  LET held_ == {f[c] : c \in Requests}
         IN  IsFiniteSet(held_) /\ Cardinality(held_) <= Cardinality(Requests)
<1> DEFINE H == {f[c] : c \in Requests}
           g == [c \in Requests |-> f[c]]
<1>1. g \in Surjection(Requests, H)
  BY DEF Surjection
<1>2. IsFiniteSet(Requests)
  BY ScraperAssumption
<1> QED  BY <1>1, <1>2, FS_Surjection

(* So the site has one to hand out. *)
LEMMA FreshSession ==
  \E s \in Sessions : s \notin held \cup {jar}
<1> DEFINE C == {cookie[c] : c \in Requests}
           D == {fields[c] : c \in Requests}
           n == Cardinality(Requests)
<1>1. SUFFICES ASSUME Sessions \subseteq (C \cup D) \cup {jar}
               PROVE  FALSE
  BY DEF held
<1>2. /\ IsFiniteSet(C) /\ Cardinality(C) <= n
      /\ IsFiniteSet(D) /\ Cardinality(D) <= n
  BY AtMostOneEach
<1>3. n \in Nat /\ IsFiniteSet(Sessions) /\ Cardinality(Sessions) > 2 * n + 1
  BY ScraperAssumption, FS_CardinalityType
<1> HIDE DEF C, D, n
<1>4. /\ IsFiniteSet(C \cup D)
      /\ Cardinality(C \cup D) <= Cardinality(C) + Cardinality(D)
  <2>1. Cardinality(C \cap D) \in Nat
    <3>1. IsFiniteSet(C \cap D)
      BY <1>2, FS_Intersection
    <3> QED  BY <3>1, FS_CardinalityType
  <2> QED  BY <1>2, <2>1, FS_Union, FS_CardinalityType
<1>5. /\ IsFiniteSet((C \cup D) \cup {jar})
      /\ Cardinality((C \cup D) \cup {jar}) <= Cardinality(C \cup D) + 1
  <2> DEFINE S == C \cup D
  <2>1. IsFiniteSet(S) /\ Cardinality(S) \in Nat
    BY <1>4, FS_CardinalityType
  <2> HIDE DEF S
  <2>2. /\ IsFiniteSet(S \cup {jar})
        /\ Cardinality(S \cup {jar}) = IF jar \in S THEN Cardinality(S) ELSE Cardinality(S) + 1
    BY <2>1, FS_AddElement
  <2>3. IsFiniteSet(S \cup {jar}) /\ Cardinality(S \cup {jar}) <= Cardinality(S) + 1
    BY <2>1, <2>2
  <2> QED  BY <2>3 DEF S
<1>6. Cardinality(Sessions) <= Cardinality((C \cup D) \cup {jar})
  <2>1. Sessions \in SUBSET ((C \cup D) \cup {jar})
    BY <1>1
  <2> QED  BY <1>5, <2>1, FS_Subset
<1>7. /\ Cardinality(C) \in Nat /\ Cardinality(D) \in Nat /\ Cardinality(Sessions) \in Nat
      /\ Cardinality(C \cup D) \in Nat /\ Cardinality((C \cup D) \cup {jar}) \in Nat
  BY <1>2, <1>3, <1>4, <1>5, FS_CardinalityType
<1> QED  BY <1>2, <1>3, <1>4, <1>5, <1>6, <1>7

(* The types after a visit, an answer and a step. *)
LEMMA VisitTyped ==
  ASSUME TypeOK, NEW c \in Requests, Visit(c)
  PROVE  jar' \in Sessions \cup {None} /\ live' \subseteq Sessions
<1>1. CASE cookie[c] \in live
  BY <1>1 DEF Visit, TypeOK
<1>2. CASE cookie[c] \notin live
  <2>1. (CHOOSE x \in Sessions : x \notin held \cup {jar}) \in Sessions
    BY FreshSession
  <2> QED  BY <1>2, <2>1 DEF Visit, TypeOK
<1> QED  BY <1>1, <1>2

AnswerIsTyped ==
  /\ pc' \in [Requests -> {"idle", "page", "form", "search"}]
  /\ cookie' \in [Requests -> Sessions \cup {None}]
  /\ fields' \in [Requests -> Sessions \cup {None}]
  /\ said' \in [Requests -> {"nothing", "failed", "unsure", "empty", "list"}]
  /\ fines' \in [Requests -> SUBSET (Vehicles \X {"p", "q", "blank", "document"})]
  /\ missed' \in [Requests -> BOOLEAN]

(* An answer has the table's kinds and, on each vehicle, a plate of the four. *)
LEMMA AnswerTyped ==
  ASSUME TypeOK, NEW c \in Requests, NEW what \in {"failed", "unsure", "empty", "list"},
         NEW hits \in SUBSET Vehicles, NEW F, answer(c, what, hits, F)
  PROVE  AnswerIsTyped
<1>1. WellTyped(kind)
  BY ScrapersTyped, KindsAssumption DEF TypeOK
<1>2. query[c] \in {"plate", "document", "both"}
  BY DEF TypeOK, everything
<1>3. kind.label[query[c]] \in {"asked", "blank", "own", "document"}
  BY <1>1, <1>2 DEF WellTyped
<1>4. \A v \in Vehicles : plateOn(c, v) \in {"p", "q", "blank", "document"}
  <2> TAKE v \in Vehicles
  <2>1. v \in {"p", "q"}
    BY DEF Vehicles
  <2>2. plateOn(c, v) =
          [asked |-> "p", blank |-> "blank", own |-> v, document |-> "document"][kind.label[query[c]]]
    BY DEF plateOn
  <2> QED  BY <1>3, <2>1, <2>2
<1>5. {<<v, plateOn(c, v)>> : v \in hits} \subseteq Vehicles \X {"p", "q", "blank", "document"}
  BY <1>4
<1>6. (what = "empty" /\ F \cap about(c) # {}) \in BOOLEAN
  OBVIOUS
<1> QED  BY <1>5, <1>6 DEF answer, TypeOK, AnswerIsTyped

(* What an answer without fines is taken for. *)
LEMMA TakesTyped ==
  ASSUME TypeOK, NEW f \in Failures \cup {"none"}
  PROVE  kind.takes[f] \in {"failed", "unsure", "empty", "list"}
<1>1. WellTyped(kind)
  BY ScrapersTyped, KindsAssumption DEF TypeOK
<1>2. f \in {"none", "refusal", "junk", "rowless", "blank", "cut", "down"}
  BY DEF Failures
<1> QED  BY <1>1, <1>2 DEF WellTyped

(* What a search finds are vehicles. *)
LEMMA FoundTyped ==
  ASSUME TypeOK, NEW c \in Requests, NEW F \in SUBSET Vehicles, NEW hits \in found(c, F)
  PROVE  hits \in SUBSET Vehicles
<1>1. \A x : F \cap x \in SUBSET Vehicles
  OBVIOUS
<1> QED  BY <1>1 DEF found

(* Every step keeps the types. *)
LEMMA NextTyped ==
  ASSUME TypeOK, [Next]_vars
  PROVE  TypeOK'
<1> USE ScraperAssumption
<1>1. ASSUME NEW c \in Requests, NEW q \in everything, Fetch(c, q)
      PROVE  TypeOK'
  BY <1>1 DEF Fetch, TypeOK, siteVars
<1>2. ASSUME NEW c \in Requests, PageLoaded(c)
      PROVE  TypeOK'
  <2>1. jar' \in Sessions \cup {None} /\ live' \subseteq Sessions
    BY <1>2, VisitTyped DEF PageLoaded
  <2>2. visited(c) \in Sessions \cup {None}
    BY <2>1 DEF visited, TypeOK
  <2>3. disturbed' \in [Requests -> BOOLEAN]
    BY <1>2 DEF PageLoaded, disturbs, TypeOK
  <2> QED  BY <1>2, <2>1, <2>2, <2>3 DEF PageLoaded, TypeOK
<1>3. ASSUME NEW c \in Requests, PageBroken(c)
      PROVE  TypeOK'
  <2>1. jar' \in Sessions \cup {None} /\ live' \subseteq Sessions
    BY <1>3, VisitTyped DEF PageBroken
  <2> QED  BY <1>3, <2>1 DEF PageBroken, TypeOK
<1>4. ASSUME NEW c \in Requests, PageFails(c)
      PROVE  TypeOK'
  <2>1. answer(c, "failed", {}, {}) /\ {} \in SUBSET Vehicles
    BY <1>4 DEF PageFails
  <2>2. AnswerIsTyped
    BY <2>1, AnswerTyped
  <2>3. troubles' \in 0 .. MaxTroubles
    BY <1>4 DEF PageFails, TypeOK
  <2>4. UNCHANGED <<kind, jar, live, query, disturbed, refused>>
    BY <1>4 DEF PageFails
  <2> QED  BY <2>2, <2>3, <2>4 DEF TypeOK, AnswerIsTyped
<1>5. ASSUME NEW c \in Requests, SendForm(c)
      PROVE  TypeOK'
  BY <1>5 DEF SendForm, TypeOK, siteVars
<1>6. ASSUME NEW c \in Requests, Answered(c)
      PROVE  TypeOK'
  <2>1. PICK F \in SUBSET Vehicles :
          \E hits \in found(c, F) :
            answer(c, IF hits = {} THEN kind.takes.none ELSE "list", hits, F)
    BY <1>6 DEF Answered
  <2>2. PICK hits \in found(c, F) :
          answer(c, IF hits = {} THEN kind.takes.none ELSE "list", hits, F)
    BY <2>1
  <2>3. hits \in SUBSET Vehicles
    BY FoundTyped
  <2>4. (IF hits = {} THEN kind.takes.none ELSE "list") \in {"failed", "unsure", "empty", "list"}
    BY TakesTyped
  <2>5. UNCHANGED <<kind, jar, live, troubles, query, disturbed, refused>>
    BY <1>6 DEF Answered, siteVars
  <2>6. AnswerIsTyped
    BY <2>2, <2>3, <2>4, AnswerTyped
  <2> QED  BY <2>5, <2>6 DEF TypeOK, AnswerIsTyped
<1>7. ASSUME NEW c \in Requests, Refused(c)
      PROVE  TypeOK'
  <2>1. PICK F \in SUBSET Vehicles : answer(c, kind.takes.refusal, {}, F)
    BY <1>7 DEF Refused
  <2>2. jar' \in Sessions \cup {None} /\ live' \subseteq Sessions
    BY <1>7, VisitTyped DEF Refused
  <2>3. disturbed' \in [Requests -> BOOLEAN]
    BY <1>7 DEF Refused, disturbs, TypeOK
  <2>4. kind.takes.refusal \in {"failed", "unsure", "empty", "list"}
    BY TakesTyped DEF Failures
  <2>5. /\ UNCHANGED <<kind, troubles, query>>
        /\ refused' = [refused EXCEPT ![c] = TRUE]
    BY <1>7 DEF Refused
  <2>6. {} \in SUBSET Vehicles
    OBVIOUS
  <2>7. AnswerIsTyped
    BY <2>1, <2>4, <2>6, AnswerTyped
  <2> QED  BY <2>2, <2>3, <2>5, <2>7 DEF TypeOK, AnswerIsTyped
<1>8. ASSUME NEW c \in Requests, SearchFails(c)
      PROVE  TypeOK'
  <2>1. PICK f \in Failures, F \in SUBSET Vehicles : answer(c, kind.takes[f], {}, F)
    BY <1>8 DEF SearchFails
  <2>2. kind.takes[f] \in {"failed", "unsure", "empty", "list"}
    BY TakesTyped
  <2>3. {} \in SUBSET Vehicles
    OBVIOUS
  <2>4. AnswerIsTyped
    BY <2>1, <2>2, <2>3, AnswerTyped
  <2>5. troubles' \in 0 .. MaxTroubles
    BY <1>8 DEF SearchFails, TypeOK
  <2>6. disturbed' \in [Requests -> BOOLEAN]
    BY <1>8 DEF SearchFails, TypeOK
  <2>7. UNCHANGED <<kind, jar, live, query, refused>>
    BY <1>8 DEF SearchFails
  <2> QED  BY <2>4, <2>5, <2>6, <2>7 DEF TypeOK, AnswerIsTyped
<1>9. ASSUME NEW s \in Sessions, Forget(s)
      PROVE  TypeOK'
  BY <1>9 DEF Forget, TypeOK
<1>10. CASE UNCHANGED vars
  BY <1>10 DEF vars, siteVars, TypeOK
<1> QED
  BY <1>1, <1>2, <1>3, <1>4, <1>5, <1>6, <1>7, <1>8, <1>9, <1>10 DEF Next, Step

(* Type correctness: the site always has a session to hand out, and an answer is
   of those the table knows.                                              *)
THEOREM ScrapersTypes == Spec => []TypeOK
<1>1. Init => TypeOK
  BY ScraperAssumption, KindsAssumption DEF Init, TypeOK, everything
<1>2. TypeOK /\ [Next]_vars => TypeOK'
  BY NextTyped
<1> QED  BY <1>1, <1>2, PTL DEF Spec

-----------------------------------------------------------------------------
(* Refusals run out                                                        *)

(* Those whose cookie the site does not know: each may change the jar once. *)
Strangers ==
  {c \in Requests : kind.page # "none" /\ pc[c] \in {"page", "search"} /\ cookie[c] \notin live}

(* Those who are on their way with another session than the jar's. *)
Astray ==
  {c \in Requests :
     /\ kind.page # "none"
     /\ \/ pc[c] \in {"page", "search"} /\ cookie[c] # jar
        \/ pc[c] \in {"form", "search"} /\ kind.page # "cookie" /\ fields[c] # jar}

(* The changes of the jar to come. *)
unsettled == IF jar \in live THEN Cardinality(Strangers) ELSE Cardinality(Requests) + 1

(* What refusals use up: the troubles that are left; without a trouble, the changes
   of the jar; and between two changes those who are astray.              *)
Settles ==
  \/ troubles' > troubles
  \/ /\ UNCHANGED troubles
     /\ \/ unsettled' < unsettled
        \/ UNCHANGED unsettled /\ Cardinality(Astray)' < Cardinality(Astray)

(* No step gives any of it back. *)
NoWorse ==
  UNCHANGED <<troubles, unsettled>> /\ Cardinality(Astray)' <= Cardinality(Astray)

RefusalsRunOut ==
  [][/\ Settles \/ NoWorse
     /\ \A c \in Requests : refused'[c] => refused[c] \/ Settles]_vars

(* Of requests there are finitely many. *)
LEMMA Counted ==
  ASSUME NEW A, NEW B, A \subseteq B, B \subseteq Requests
  PROVE  /\ Cardinality(A) \in Nat /\ Cardinality(B) \in Nat /\ Cardinality(Requests) \in Nat
         /\ Cardinality(A) <= Cardinality(B) /\ Cardinality(B) <= Cardinality(Requests)
         /\ A # B => Cardinality(A) < Cardinality(B)
<1>1. IsFiniteSet(Requests)
  BY ScraperAssumption
<1>2. IsFiniteSet(B) /\ Cardinality(B) <= Cardinality(Requests)
  <2>1. B \in SUBSET Requests
    OBVIOUS
  <2> QED  BY <1>1, <2>1, FS_Subset
<1>3. /\ IsFiniteSet(A) /\ Cardinality(A) <= Cardinality(B)
      /\ Cardinality(B) = Cardinality(A) => B = A
  <2>1. A \in SUBSET B
    OBVIOUS
  <2> QED  BY <1>2, <2>1, FS_Subset
<1>4. /\ Cardinality(A) \in Nat /\ Cardinality(B) \in Nat /\ Cardinality(Requests) \in Nat
  BY <1>1, <1>2, <1>3, FS_CardinalityType
<1> QED  BY <1>2, <1>3, <1>4

(* While the jar keeps its session. *)
LEMMA JarStays ==
  ASSUME UNCHANGED <<jar, live, troubles>>, Astray' \subseteq Astray,
         jar \in live => Strangers' \subseteq Strangers
  PROVE  /\ Settles \/ NoWorse
         /\ Astray' # Astray => Settles
<1> DEFINE s == Cardinality(Strangers)
           t == Cardinality(Strangers)'
           a == Cardinality(Astray)
           b == Cardinality(Astray)'
<1>1. jar \in live => s \in Nat /\ t \in Nat /\ t <= s
  <2>1. Strangers \subseteq Requests
    BY DEF Strangers
  <2> QED  BY <2>1, Counted
<1>2. a \in Nat /\ b \in Nat /\ b <= a /\ (Astray' # Astray => b < a)
  <2>1. Astray \subseteq Requests
    BY DEF Astray
  <2> QED  BY <2>1, Counted
<1>3. unsettled' < unsettled \/ unsettled' = unsettled
  <2>1. CASE jar \in live
    <3>1. unsettled = s /\ unsettled' = t
      BY <2>1 DEF unsettled
    <3> HIDE DEF s, t
    <3> QED  BY <1>1, <2>1, <3>1
  <2>2. CASE jar \notin live
    BY <2>2 DEF unsettled
  <2> QED  BY <2>1, <2>2
<1> HIDE DEF a, b, s, t
<1> QED  BY <1>2, <1>3 DEF Settles, NoWorse, a, b

(* A stranger's visit gives the jar a session the site knows, and there is one
   stranger less.                                                         *)
LEMMA StrangerComes ==
  ASSUME NEW c \in Requests, c \in Strangers, Visit(c), cookie[c] \notin live,
         UNCHANGED troubles, c \notin Strangers',
         \A d \in Requests \ {c} : d \in Strangers' => d \in Strangers
  PROVE  Settles
<1> DEFINE s == Cardinality(Strangers)
           t == Cardinality(Strangers)'
           n == Cardinality(Requests)
<1>1. Strangers \subseteq Requests /\ Strangers' \subseteq Requests
  BY DEF Strangers
<1>2. s \in Nat /\ t \in Nat /\ n \in Nat /\ t < s /\ s <= n
  <2>1. Strangers' \subseteq Strangers /\ Strangers' # Strangers
    BY <1>1
  <2> QED  BY <1>1, <2>1, Counted
<1>3. jar' \in live'
  BY DEF Visit
<1>4. unsettled' = t /\ (unsettled = s \/ unsettled = n + 1)
  BY <1>3 DEF unsettled
<1> HIDE DEF s, t, n
<1>5. unsettled' < unsettled
  BY <1>2, <1>4
<1> QED  BY <1>5 DEF Settles

(* A visit makes nobody else a stranger. *)
LEMMA VisitOffends ==
  ASSUME TypeOK, NEW c \in Requests, Visit(c), kind' = kind,
         NEW d \in Requests, UNCHANGED <<pc[d], cookie[d]>>, d \in Strangers'
  PROVE  d \in Strangers
<1>1. cookie[d] \notin live'
  BY DEF Strangers
<1>2. cookie[d] \notin live
  <2>1. CASE cookie[c] \in live
    BY <1>1, <2>1 DEF Visit
  <2>2. CASE cookie[c] \notin live
    <3>1. live \cap held \subseteq live' /\ cookie[d] \in held
      BY <2>2 DEF Visit, held
    <3> QED  BY <1>1, <3>1
  <2> QED  BY <2>1, <2>2
<1> QED  BY <1>2 DEF Strangers

(* Where no page is asked for there is nothing to settle. *)
LEMMA NoPage ==
  ASSUME kind.page = "none", UNCHANGED <<kind, troubles>>, jar \in live => jar' \in live'
  PROVE  Settles \/ NoWorse
<1> DEFINE z == Cardinality({})
           n == Cardinality(Requests)
<1>1. Strangers = {} /\ Strangers' = {} /\ Astray = {} /\ Astray' = {}
  BY DEF Strangers, Astray
<1>2. z \in Nat /\ n \in Nat /\ z <= n
  BY Counted
<1>3. /\ unsettled = IF jar \in live THEN z ELSE n + 1
      /\ unsettled' = IF jar' \in live' THEN z ELSE n + 1
      /\ Cardinality(Astray) = z /\ Cardinality(Astray)' = z
  BY <1>1 DEF unsettled
<1> HIDE DEF z, n
<1> QED  BY <1>2, <1>3 DEF Settles, NoWorse

(* A request whose first page arrives, or whose form is not taken. *)
LEMMA VisitSettles ==
  ASSUME TypeOK, NEW c \in Requests, kind.page # "none", Visit(c), UNCHANGED <<kind, troubles>>,
         \A d \in Requests \ {c} : UNCHANGED <<pc[d], cookie[d], fields[d]>>,
         pc[c] \in {"page", "search"}, pc'[c] \in {"form", "idle"},
         cookie[c] \in live => (c \in Astray' => c \in Astray)
  PROVE  /\ Settles \/ NoWorse
         /\ cookie[c] \notin live \/ (c \in Astray /\ c \notin Astray') => Settles
<1>1. c \notin Strangers'
  BY DEF Strangers
<1>2. \A d \in Requests \ {c} : d \in Strangers' => d \in Strangers
  BY VisitOffends
<1>3. CASE cookie[c] \in live
  <2>1. UNCHANGED <<jar, live>>
    BY <1>3 DEF Visit
  <2>2. Strangers' \subseteq Strangers
    BY <1>1, <1>2 DEF Strangers
  <2>3. Astray' \subseteq Astray
    BY <1>3, <2>1 DEF Astray
  <2> QED  BY <1>3, <2>1, <2>2, <2>3, JarStays
<1>4. CASE cookie[c] \notin live
  <2>1. c \in Strangers
    BY <1>4 DEF Strangers
  <2> QED  BY <1>1, <1>2, <1>4, <2>1, StrangerComes
<1> QED  BY <1>3, <1>4

(* A request begins with the jar's cookie. *)
LEMMA FetchSettles ==
  ASSUME TypeOK, NEW c \in Requests, NEW q \in everything, Fetch(c, q)
  PROVE  /\ Settles \/ NoWorse
         /\ \A d \in Requests : refused'[d] => refused[d]
<1>1. UNCHANGED <<kind, jar, live, troubles, fields>>
  BY DEF Fetch, siteVars
<1>2. /\ \A d \in Requests \ {c} : UNCHANGED <<pc[d], cookie[d]>>
      /\ kind.page # "none" => pc'[c] = "page" /\ cookie'[c] = jar
  BY DEF Fetch, TypeOK
<1>3. jar \in live => Strangers' \subseteq Strangers
  BY <1>1, <1>2 DEF Strangers
<1>4. Astray' \subseteq Astray
  BY <1>1, <1>2 DEF Astray
<1>5. Settles \/ NoWorse
  BY <1>1, <1>3, <1>4, JarStays
<1> QED  BY <1>5 DEF Fetch, TypeOK

(* The form takes the jar's cookie. *)
LEMMA SendSettles ==
  ASSUME TypeOK, NEW c \in Requests, SendForm(c)
  PROVE  Settles \/ NoWorse
<1>1. UNCHANGED <<kind, jar, live, troubles, fields>>
  BY DEF SendForm, siteVars
<1>2. /\ \A d \in Requests \ {c} : UNCHANGED <<pc[d], cookie[d]>>
      /\ kind.page # "none" => cookie'[c] = jar
      /\ pc[c] = "form" /\ pc'[c] = "search"
  BY DEF SendForm, TypeOK
<1>3. jar \in live => Strangers' \subseteq Strangers
  BY <1>1, <1>2 DEF Strangers
<1>4. Astray' \subseteq Astray
  BY <1>1, <1>2 DEF Astray
<1> QED  BY <1>1, <1>3, <1>4, JarStays

(* The page arrives. *)
LEMMA PageSettles ==
  ASSUME TypeOK, NEW c \in Requests, PageLoaded(c)
  PROVE  Settles \/ NoWorse
<1>1. /\ Visit(c) /\ UNCHANGED <<kind, troubles>>
      /\ \A d \in Requests \ {c} : UNCHANGED <<pc[d], cookie[d], fields[d]>>
      /\ pc[c] = "page" /\ pc'[c] = "form"
      /\ fields'[c] = IF kind.page = "cookie" THEN None ELSE visited(c)
  BY DEF PageLoaded, TypeOK
<1>2. CASE kind.page = "none"
  <2>1. jar \in live => jar' \in live'
    BY <1>1 DEF Visit
  <2> QED  BY <1>1, <1>2, <2>1, NoPage
<1>3. CASE kind.page # "none"
  <2>1. ASSUME cookie[c] \in live, c \in Astray'
        PROVE  c \in Astray
    <3>1. UNCHANGED jar
      BY <1>1, <2>1 DEF Visit
    <3> QED  BY <1>1, <1>3, <2>1, <3>1 DEF Astray, visited
  <2> QED  BY <1>1, <1>3, <2>1, VisitSettles
<1> QED  BY <1>2, <1>3

(* An answer takes its request off the way. *)
LEMMA AnswerSettles ==
  ASSUME TypeOK, NEW c \in Requests, Answered(c)
  PROVE  Settles \/ NoWorse
<1>1. /\ UNCHANGED <<kind, jar, live, troubles>>
      /\ \A d \in Requests \ {c} : UNCHANGED <<pc[d], cookie[d], fields[d]>>
      /\ pc'[c] = "idle"
  BY DEF Answered, answer, siteVars, TypeOK
<1>2. jar \in live => Strangers' \subseteq Strangers
  BY <1>1 DEF Strangers
<1>3. Astray' \subseteq Astray
  BY <1>1 DEF Astray
<1> QED  BY <1>1, <1>2, <1>3, JarStays

(* A refusal is of a stranger, or of one who is astray. *)
LEMMA RefusalSettles ==
  ASSUME TypeOK, NEW c \in Requests, Refused(c)
  PROVE  Settles
<1>1. /\ Visit(c) /\ UNCHANGED <<kind, troubles>>
      /\ \A d \in Requests \ {c} : UNCHANGED <<pc[d], cookie[d], fields[d]>>
      /\ pc[c] = "search" /\ pc'[c] = "idle"
      /\ ~ takesForm(c)
  BY DEF Refused, answer, TypeOK
<1>2. kind.page # "none" /\ c \notin Astray'
  BY <1>1 DEF takesForm, Astray
<1>3. cookie[c] \in live => c \in Astray
  <2> SUFFICES ASSUME cookie[c] \in live
               PROVE  c \in Astray
    OBVIOUS
  <2>1. kind.page # "cookie" /\ fields[c] # cookie[c]
    BY <1>1 DEF takesForm
  <2> QED  BY <1>1, <1>2, <2>1 DEF Astray
<1> QED  BY <1>1, <1>2, <1>3, VisitSettles

(* The safety half of SessionsSettle, of which it needs nothing else: a refusal
   uses up a trouble of the site's, a change of the jar or a request that was
   astray, of which no step makes more, so that of these requests there are no
   more than (MaxTroubles + 1) * (n + 2) * (n + 1) refusals in all.       *)
THEOREM RefusalsEnd == Spec => RefusalsRunOut
<1>1. TypeOK /\ [Next]_vars =>
        [/\ Settles \/ NoWorse
         /\ \A c \in Requests : refused'[c] => refused[c] \/ Settles]_vars
  <2> SUFFICES ASSUME TypeOK, Next
               PROVE  /\ Settles \/ NoWorse
                      /\ \A c \in Requests : refused'[c] => refused[c] \/ Settles
    OBVIOUS
  <2>1. ASSUME NEW c \in Requests, NEW q \in everything, Fetch(c, q)
        PROVE  /\ Settles \/ NoWorse
               /\ \A d \in Requests : refused'[d] => refused[d]
    BY <2>1, FetchSettles
  <2>2. ASSUME NEW c \in Requests, PageLoaded(c) \/ SendForm(c) \/ Answered(c)
        PROVE  (Settles \/ NoWorse) /\ UNCHANGED refused
    <3>1. UNCHANGED refused
      BY <2>2 DEF PageLoaded, SendForm, Answered
    <3> QED  BY <2>2, <3>1, PageSettles, SendSettles, AnswerSettles
  <2>3. ASSUME NEW c \in Requests, Refused(c)
        PROVE  Settles
    BY <2>3, RefusalSettles
  <2>4. ASSUME NEW c \in Requests, PageBroken(c) \/ PageFails(c) \/ SearchFails(c)
        PROVE  Settles
    BY <2>4 DEF PageBroken, PageFails, SearchFails, TypeOK, Settles
  <2>5. ASSUME NEW s \in Sessions, Forget(s)
        PROVE  Settles
    BY <2>5 DEF Forget, TypeOK, Settles
  <2> QED  BY <2>1, <2>2, <2>3, <2>4, <2>5 DEF Next, Step
<1> QED  BY <1>1, ScrapersTypes, PTL DEF Spec, RefusalsRunOut

-----------------------------------------------------------------------------
(* Folds: what is left after each of their steps                           *)

(* The greatest of 1 .. m. *)
LEMMA MaxOfUpTo ==
  ASSUME NEW m \in Nat \ {0}
  PROVE  Max(1 .. m) = m
<1>1. m \in 1 .. m /\ \A y \in 1 .. m : m >= y
  OBVIOUS
<1>2. \A x \in 1 .. m : (\A y \in 1 .. m : x >= y) => x = m
  OBVIOUS
<1> QED  BY <1>1, <1>2 DEF Max

(* A set of numbers has a smallest one. *)
LEMMA SmallestExists ==
  ASSUME NEW T, T \subseteq Nat, T # {}
  PROVE  \E m \in T : \A n \in T : m <= n
<1>1. \E m \in T : \A n \in T : ~ (<<n, m>> \in OpToRel(<, Nat))
  BY NatLessThanWellFounded, WFMin
<1>2. \A m, n \in Nat : ~ (<<n, m>> \in OpToRel(<, Nat)) => m <= n
  BY DEF OpToRel
<1> QED  BY <1>1, <1>2

(* Min and Max of some indices. *)
LEMMA MinAndMax ==
  ASSUME NEW n \in Nat, NEW s \in SUBSET (1 .. n), s # {}
  PROVE  /\ Min(s) \in s /\ \A y \in s : Min(s) <= y
         /\ Max(s) \in s /\ \A y \in s : Max(s) >= y
<1>1. \E x \in s : \A y \in s : x <= y
  <2>1. s \subseteq Nat
    OBVIOUS
  <2> QED  BY <2>1, SmallestExists
<1>2. \E x \in s : \A y \in s : x >= y
  <2> DEFINE T == {n - y : y \in s}
  <2>1. T \subseteq Nat /\ T # {}
    <3>1. \A y \in s : n - y \in Nat
      OBVIOUS
    <3> QED  BY <3>1
  <2>2. \E x \in T : \A y \in T : x <= y
    <3> HIDE DEF T
    <3> QED  BY <2>1, SmallestExists
  <2>3. PICK x \in s : \A y \in s : n - x <= n - y
    BY <2>2
  <2> QED  BY <2>3
<1> QED  BY <1>1, <1>2 DEF Min, Max

(* Induction over 0 .. n: what 0 is in, and who follows a member, all are in. *)
LEMMA AllUpTo ==
  ASSUME NEW n \in Nat, NEW S, 0 \in S, \A m \in 0 .. n - 1 : m \in S => m + 1 \in S
  PROVE  0 .. n \subseteq S
<1> DEFINE T == (0 .. n) \ S
<1>1. SUFFICES ASSUME T # {}
               PROVE  FALSE
  OBVIOUS
<1>2. PICK x \in T : \A y \in T : x <= y
  <2>1. T \subseteq Nat
    OBVIOUS
  <2> HIDE DEF T
  <2> QED  BY <1>1, <2>1, SmallestExists
<1>3. x \in 0 .. n /\ x # 0
  OBVIOUS
<1>4. x - 1 \in 0 .. n - 1 /\ ~ (x <= x - 1)
  BY <1>3
<1>5. x - 1 \in S
  BY <1>2, <1>4
<1>6. (x - 1) + 1 \in S
  BY <1>4, <1>5
<1> QED  BY <1>3, <1>6

(* What a fold goes through: F makes the next value of the last one and of an
   index, and g says what there is after the indices in a set.      *)
Iterates(g, n, base, F) ==
  g = [s \in SUBSET (1 .. n) |->
         IF s = {} THEN base ELSE F[<<Max(s), g[s \ {Max(s)}]>>]]

(* What is left when the greatest index is taken out of them. *)
LEMMA MaxOfWithTop ==
  ASSUME NEW m \in Nat, NEW s \in SUBSET (1 .. m + 1), m + 1 \in s
  PROVE  Max(s) = m + 1 /\ s \ {m + 1} \in SUBSET (1 .. m)
<1>1. \A y \in s : m + 1 >= y
  OBVIOUS
<1>2. \A x \in s : (\A y \in s : x >= y) => x = m + 1
  <2> SUFFICES ASSUME NEW x \in s, \A y \in s : x >= y
               PROVE  x = m + 1
    OBVIOUS
  <2>1. x \in 1 .. m + 1 /\ x >= m + 1
    OBVIOUS
  <2> QED  BY <2>1
<1>3. Max(s) = m + 1
  BY <1>1, <1>2 DEF Max
<1>4. s \ {m + 1} \in SUBSET (1 .. m)
  OBVIOUS
<1> QED  BY <1>3, <1>4

(* There is such a function, for any number of steps. *)
LEMMA IterationExists ==
  ASSUME NEW n \in Nat, NEW V, NEW base \in V, NEW F \in [(1 .. n) \X V -> V]
  PROVE  \E g \in [SUBSET (1 .. n) -> V] : Iterates(g, n, base, F)
<1> DEFINE P(m) == \E g \in [SUBSET (1 .. m) -> V] : Iterates(g, m, base, F)
<1>1. P(0)
  <2> DEFINE g == [s \in SUBSET (1 .. 0) |-> base]
  <2>1. \A s \in SUBSET (1 .. 0) : s = {}
    OBVIOUS
  <2>2. g \in [SUBSET (1 .. 0) -> V]
    OBVIOUS
  <2>3. Iterates(g, 0, base, F)
    BY <2>1 DEF Iterates
  <2> QED  BY <2>2, <2>3
<1>2. ASSUME NEW m \in 0 .. n - 1, P(m)
      PROVE  P(m + 1)
  <2>1. PICK g \in [SUBSET (1 .. m) -> V] : Iterates(g, m, base, F)
    BY <1>2
  <2> DEFINE h == [s \in SUBSET (1 .. m + 1) |->
                     IF m + 1 \in s THEN F[<<m + 1, g[s \ {m + 1}]>>] ELSE g[s]]
  <2>2. \A s \in SUBSET (1 .. m + 1) : m + 1 \notin s => s \in SUBSET (1 .. m)
    OBVIOUS
  <2>3. h \in [SUBSET (1 .. m + 1) -> V]
    <3> SUFFICES ASSUME NEW s \in SUBSET (1 .. m + 1)
                 PROVE  (IF m + 1 \in s THEN F[<<m + 1, g[s \ {m + 1}]>>] ELSE g[s]) \in V
      OBVIOUS
    <3>1. m + 1 \in 1 .. n
      OBVIOUS
    <3>2. m + 1 \in s => g[s \ {m + 1}] \in V
      BY MaxOfWithTop
    <3> QED  BY <2>2, <3>1, <3>2
  <2>4. ASSUME NEW s \in SUBSET (1 .. m + 1)
        PROVE  h[s] = IF s = {} THEN base ELSE F[<<Max(s), h[s \ {Max(s)}]>>]
    <3>1. CASE m + 1 \in s
      <4>1. Max(s) = m + 1 /\ s \ {m + 1} \in SUBSET (1 .. m)
        BY <3>1, MaxOfWithTop
      <4>2. s \ {m + 1} \in SUBSET (1 .. m + 1) /\ m + 1 \notin s \ {m + 1}
        OBVIOUS
      <4>3. h[s \ {m + 1}] = g[s \ {m + 1}]
        BY <4>2
      <4> QED  BY <3>1, <4>1, <4>3
    <3>2. CASE m + 1 \notin s
      <4>1. s \in SUBSET (1 .. m)
        BY <2>2, <3>2
      <4>2. h[s] = IF s = {} THEN base ELSE F[<<Max(s), g[s \ {Max(s)}]>>]
        BY <2>1, <3>2, <4>1 DEF Iterates
      <4>3. h[s \ {Max(s)}] = g[s \ {Max(s)}]
        <5>1. s \ {Max(s)} \in SUBSET (1 .. m + 1) /\ m + 1 \notin s \ {Max(s)}
          BY <3>2
        <5> QED  BY <5>1
      <4> QED  BY <4>2, <4>3
    <3> QED  BY <3>1, <3>2
  <2>5. Iterates(h, m + 1, base, F)
    <3> HIDE DEF h
    <3>1. h = [s \in SUBSET (1 .. m + 1) |-> h[s]]
      BY <2>3
    <3> QED  BY <2>4, <3>1, Zenon DEF Iterates
  <2> QED  BY <2>3, <2>5
<1>3. P(n)
  <2> HIDE DEF P
  <2> DEFINE S == {m \in 0 .. n : P(m)}
  <2>1. 0 \in S /\ \A m \in 0 .. n - 1 : m \in S => m + 1 \in S
    BY <1>1, <1>2
  <2>2. 0 .. n \subseteq S
    <3> HIDE DEF S
    <3> QED  BY <2>1, AllUpTo
  <2> QED  BY <2>2
<1> QED  BY <1>3

(* The step from the first m - 1 indices to the first m. *)
LEMMA FirstIndices ==
  ASSUME NEW n \in Nat
  PROVE  /\ 1 .. 0 = {} /\ 1 .. 0 \in SUBSET (1 .. n)
         /\ \A m \in 1 .. n : /\ 1 .. m \in SUBSET (1 .. n) /\ 1 .. m # {}
                             /\ Max(1 .. m) = m /\ (1 .. m) \ {m} = 1 .. m - 1
  BY MaxOfUpTo

(* A fold that goes on as F does is what F makes of its base in n steps. *)
GoesOn(fold, n, V, base, F) ==
  /\ fold[{}] = base
  /\ \A s \in SUBSET (1 .. n) : s # {} /\ fold[s \ {Max(s)}] \in V =>
       fold[s] = F[<<Max(s), fold[s \ {Max(s)}]>>]

InSteps(last, n, V, base, F) ==
  \E h \in [0 .. n -> V] :
    /\ h[0] = base /\ h[n] = last
    /\ \A m \in 1 .. n : h[m] = F[<<m, h[m - 1]>>]

(* Its steps, one value after another. *)
LEMMA FoldSteps ==
  ASSUME NEW n \in Nat, NEW V, NEW base \in V, NEW F \in [(1 .. n) \X V -> V],
         NEW fold, GoesOn(fold, n, V, base, F)
  PROVE  InSteps(fold[1 .. n], n, V, base, F)
<1> DEFINE h == [m \in 0 .. n |-> fold[1 .. m]]
           S == {m \in 0 .. n : fold[1 .. m] \in V}
<1>1. fold[1 .. 0] = base
  BY FirstIndices DEF GoesOn
<1>2. ASSUME NEW m \in 1 .. n, m - 1 \in S
      PROVE  fold[1 .. m] = F[<<m, fold[1 .. m - 1]>>] /\ m \in S
  <2>1. /\ 1 .. m \in SUBSET (1 .. n) /\ 1 .. m # {}
        /\ Max(1 .. m) = m /\ (1 .. m) \ {m} = 1 .. m - 1
    BY FirstIndices
  <2>2. fold[1 .. m] = F[<<m, fold[1 .. m - 1]>>]
    BY <1>2, <2>1 DEF GoesOn
  <2>3. fold[1 .. m] \in V
    BY <1>2, <2>2
  <2> QED  BY <2>2, <2>3
<1>3. 0 .. n \subseteq S
  <2>1. 0 \in S
    BY <1>1
  <2>2. ASSUME NEW m \in 0 .. n - 1, m \in S
        PROVE  m + 1 \in S
    <3>1. m + 1 \in 1 .. n /\ (m + 1) - 1 = m
      OBVIOUS
    <3> HIDE DEF S
    <3> QED  BY <1>2, <2>2, <3>1
  <2> HIDE DEF S
  <2> QED  BY <2>1, <2>2, AllUpTo
<1>4. h \in [0 .. n -> V]
  BY <1>3
<1>5. h[0] = base /\ h[n] = fold[1 .. n]
  BY <1>1
<1>6. ASSUME NEW m \in 1 .. n
      PROVE  h[m] = F[<<m, h[m - 1]>>]
  <2>1. m - 1 \in 0 .. n /\ m \in 0 .. n
    OBVIOUS
  <2>2. fold[1 .. m] = F[<<m, fold[1 .. m - 1]>>]
    <3> HIDE DEF S
    <3> QED  BY <1>2, <1>3, <2>1
  <2> QED  BY <2>1, <2>2
<1> HIDE DEF h
<1> QED  BY <1>4, <1>5, <1>6 DEF InSteps

-----------------------------------------------------------------------------
(* CABA's page                                                             *)

skips(read, header) == header.ref # "" /\ \E i \in DOMAIN read : read[i].ref = header.ref

takes(page, read, header) ==
  IF skips(read, header) THEN read ELSE Append(read, fineOf(page, header))

(* The list after each header, from the one of the checkboxes on. *)
LEMMA ListGrows ==
  ASSUME NEW Actas, NEW page \in [boxes : Seq(Actas), headers : Seq(Actas)]
  PROVE  LET n == Len(page.headers)
             V == Seq({fineOf(page, a) : a \in Actas})
         IN  \E h \in [0 .. n -> V] :
               /\ h[0] = fromBoxes(page) /\ h[n] = parseCABAActas(page)
               /\ \A m \in 1 .. n : h[m] = takes(page, h[m - 1], page.headers[m])
<1> DEFINE n == Len(page.headers)
           W == {fineOf(page, a) : a \in Actas}
           V == Seq(W)
           F == [x \in (1 .. n) \X V |-> takes(page, x[2], page.headers[x[1]])]
           base == fromBoxes(page)
           Body(g) == [s \in SUBSET DOMAIN page.headers |->
                        IF s = {} THEN base
                        ELSE LET x == Max(s)
                             IN  IF /\ page.headers[x].ref # ""
                                    /\ \E i \in DOMAIN (g[s \ {x}]) :
                                         g[s \ {x}][i].ref = page.headers[x].ref
                                   THEN g[s \ {x}]
                                   ELSE Append(g[s \ {x}], fineOf(page, page.headers[x]))]
           fold == CHOOSE g : g = Body(g)
<1>1. n \in Nat /\ DOMAIN page.headers = 1 .. n /\ \A i \in 1 .. n : page.headers[i] \in Actas
  OBVIOUS
<1>2. parseCABAActas(page) = fold[DOMAIN page.headers]
  BY DEF parseCABAActas, FoldLeft, MapThenFoldSet
<1>3. base \in V
  <2>1. \A i \in DOMAIN page.boxes : page.boxes[i] \in Actas
    OBVIOUS
  <2>2. base = [i \in 1 .. Len(page.boxes) |-> fineOf(page, page.boxes[i])]
    BY DEF fromBoxes
  <2> QED  BY <2>1, <2>2
<1>4. F \in [(1 .. n) \X V -> V]
  <2> SUFFICES ASSUME NEW i \in 1 .. n, NEW read \in V
               PROVE  takes(page, read, page.headers[i]) \in V
    OBVIOUS
  <2>1. fineOf(page, page.headers[i]) \in W
    BY <1>1
  <2> HIDE DEF W
  <2> QED  BY <2>1 DEF takes
<1>5. PICK g \in [SUBSET (1 .. n) -> V] : Iterates(g, n, base, F)
  <2> HIDE DEF n, V, F, base
  <2> QED  BY <1>1, <1>3, <1>4, IterationExists
<1>6. g = Body(g)
  <2> SUFFICES ASSUME NEW s \in SUBSET (1 .. n), s # {}
               PROVE  g[s] = takes(page, g[s \ {Max(s)}], page.headers[Max(s)])
    BY <1>1, <1>5, Zenon DEF Iterates, takes, skips
  <2>1. Max(s) \in 1 .. n /\ s \ {Max(s)} \in SUBSET (1 .. n)
    BY MinAndMax, <1>1
  <2>2. g[s] = F[<<Max(s), g[s \ {Max(s)}]>>]
    BY <1>5 DEF Iterates
  <2>3. <<Max(s), g[s \ {Max(s)}]>> \in (1 .. n) \X V
    BY <1>5, <2>1
  <2> QED  BY <2>2, <2>3
<1>7. fold = Body(fold)
  <2> HIDE DEF Body
  <2> QED  BY <1>6
<1> HIDE DEF fold
<1>8. fold[{}] = base
  <2> HIDE DEF base
  <2> QED  BY <1>1, <1>7, FirstIndices, Zenon
<1>9. ASSUME NEW s \in SUBSET (1 .. n), s # {}, fold[s \ {Max(s)}] \in V
      PROVE  fold[s] = F[<<Max(s), fold[s \ {Max(s)}]>>]
  <2>1. Max(s) \in 1 .. n
    BY <1>1, <1>9, MinAndMax
  <2>2. fold[s] = takes(page, fold[s \ {Max(s)}], page.headers[Max(s)])
    <3> HIDE DEF n, V, F, base
    <3>1. fold[s] = Body(fold)[s]
      BY <1>7
    <3> QED  BY <1>1, <1>9, <3>1 DEF takes, skips
  <2> QED  BY <1>9, <2>1, <2>2
<1>10. PICK h \in [0 .. n -> V] :
         /\ h[0] = base /\ h[n] = fold[1 .. n]
         /\ \A m \in 1 .. n : h[m] = F[<<m, h[m - 1]>>]
  <2>1. GoesOn(fold, n, V, base, F)
    BY <1>8, <1>9, Zenon DEF GoesOn
  <2> HIDE DEF n, V, F, base
  <2>2. InSteps(fold[1 .. n], n, V, base, F)
    BY <1>1, <1>3, <1>4, <2>1, FoldSteps
  <2> QED  BY <2>2 DEF InSteps
<1>11. ASSUME NEW m \in 1 .. n
       PROVE  h[m] = takes(page, h[m - 1], page.headers[m])
  <2> HIDE DEF V
  <2>1. m - 1 \in 0 .. n
    BY <1>1
  <2> QED  BY <1>10, <2>1
<1> QED  BY <1>1, <1>2, <1>10, <1>11, ZenonT(60)

(* What is read of a page after its first m headers: everything so far, nothing
   else, and no reference twice.                                          *)
BoxesRead(page, read) ==
  \A i \in DOMAIN page.boxes : \E j \in DOMAIN read : read[j] = fineOf(page, page.boxes[i])
HeadersRead(page, read, m) ==
  \A i \in 1 .. m : \E j \in DOMAIN read : read[j].ref = page.headers[i].ref
NothingElse(page, read, m) ==
  \A j \in DOMAIN read :
    \/ \E i \in DOMAIN page.boxes : read[j] = fineOf(page, page.boxes[i])
    \/ \E i \in 1 .. m : read[j] = fineOf(page, page.headers[i])
OnceEach(read) ==
  \A i, j \in DOMAIN read : read[i].ref = read[j].ref => i = j \/ read[i].ref = ""

ReadSoFar(page, read, m) ==
  /\ BoxesRead(page, read) /\ HeadersRead(page, read, m)
  /\ NothingElse(page, read, m) /\ OnceEach(read)

(* A header adds what is not there yet, and nothing twice. *)
LEMMA HeaderIsRead ==
  ASSUME NEW page, NEW W, NEW read \in Seq(W), NEW m \in Nat,
         ReadSoFar(page, read, m), fineOf(page, page.headers[m + 1]) \in W
  PROVE  ReadSoFar(page, takes(page, read, page.headers[m + 1]), m + 1)
<1> DEFINE header == page.headers[m + 1]
<1>1. fineOf(page, header).ref = header.ref
  BY DEF fineOf
<1>2. \A i \in 1 .. m + 1 : i \in 1 .. m \/ i = m + 1
  OBVIOUS
<1>3. m + 1 \in 1 .. m + 1 /\ \A i \in 1 .. m : i \in 1 .. m + 1
  OBVIOUS
<1>4. CASE skips(read, header)
  <2>1. takes(page, read, header) = read
    BY <1>4 DEF takes
  <2>2. \E j \in DOMAIN read : read[j].ref = header.ref
    BY <1>4 DEF skips
  <2>3. HeadersRead(page, read, m + 1)
    BY <1>2, <2>2 DEF ReadSoFar, HeadersRead
  <2>4. NothingElse(page, read, m + 1)
    BY <1>3 DEF ReadSoFar, NothingElse
  <2> QED  BY <2>1, <2>3, <2>4 DEF ReadSoFar
<1>5. CASE ~ skips(read, header)
  <2> DEFINE longer == Append(read, fineOf(page, header))
             n == Len(read)
  <2>1. takes(page, read, header) = longer
    BY <1>5 DEF takes
  <2>2. /\ n \in Nat /\ DOMAIN read = 1 .. n /\ DOMAIN longer = 1 .. n + 1
        /\ longer[n + 1] = fineOf(page, header)
        /\ \A i \in 1 .. n : longer[i] = read[i]
    OBVIOUS
  <2>3. /\ \A i \in 1 .. n : i \in 1 .. n + 1
        /\ \A i \in 1 .. n + 1 : i \in 1 .. n \/ i = n + 1
        /\ n + 1 \in 1 .. n + 1
    BY <2>2
  <2>4. header.ref = "" \/ \A i \in 1 .. n : read[i].ref # header.ref
    BY <1>5, <2>2 DEF skips
  <2> HIDE DEF longer, n, header
  <2>5. BoxesRead(page, longer)
    BY <2>2, <2>3 DEF ReadSoFar, BoxesRead
  <2>6. HeadersRead(page, longer, m + 1)
    <3>1. ASSUME NEW i \in 1 .. m
          PROVE  \E j \in DOMAIN longer : longer[j].ref = page.headers[i].ref
      BY <2>2, <2>3 DEF ReadSoFar, HeadersRead
    <3>2. longer[n + 1].ref = page.headers[m + 1].ref /\ n + 1 \in DOMAIN longer
      BY <1>1, <2>2, <2>3 DEF header
    <3> QED  BY <1>2, <3>1, <3>2 DEF HeadersRead
  <2>7. NothingElse(page, longer, m + 1)
    <3> SUFFICES ASSUME NEW j \in 1 .. n + 1
                 PROVE  \/ \E i \in DOMAIN page.boxes : longer[j] = fineOf(page, page.boxes[i])
                        \/ \E i \in 1 .. m + 1 : longer[j] = fineOf(page, page.headers[i])
      BY <2>2 DEF NothingElse
    <3>1. CASE j \in 1 .. n
      <4>1. \/ \E i \in DOMAIN page.boxes : read[j] = fineOf(page, page.boxes[i])
            \/ \E i \in 1 .. m : read[j] = fineOf(page, page.headers[i])
        BY <2>2, <3>1 DEF ReadSoFar, NothingElse
      <4>2. longer[j] = read[j]
        BY <2>2, <3>1
      <4> QED  BY <1>3, <4>1, <4>2
    <3>2. CASE j = n + 1
      <4>1. longer[j] = fineOf(page, page.headers[m + 1])
        BY <2>2, <3>2 DEF header
      <4> QED  BY <1>3, <4>1
    <3> QED  BY <2>3, <3>1, <3>2
  <2>8. OnceEach(longer)
    BY <1>1, <2>2, <2>3, <2>4 DEF ReadSoFar, OnceEach
  <2>9. ReadSoFar(page, longer, m + 1)
    BY <2>5, <2>6, <2>7, <2>8 DEF ReadSoFar
  <2> QED  BY <2>1, <2>9 DEF header
<1> QED  BY <1>4, <1>5

(* No acta has two checkboxes. *)
OneBoxEach(page) ==
  \A i, j \in DOMAIN page.boxes :
    page.boxes[i].ref = page.boxes[j].ref => i = j \/ page.boxes[i].ref = ""

(* parseCABAActas on any page, with any number of actas in any order: everyone
   is listed, with its checkbox or by its header; nothing is listed that the
   page does not have; and a reference is listed once, unless the site gives two
   checkboxes for it, whatever is repeated among the headers.             *)
THEOREM CABAPageIsReadOnce ==
  ASSUME NEW Actas, NEW page \in [boxes : Seq(Actas), headers : Seq(Actas)],
         OneBoxEach(page)
  PROVE  /\ parseCABAActas(page) \in Seq({fineOf(page, a) : a \in Actas})
         /\ ReadSoFar(page, parseCABAActas(page), Len(page.headers))
<1> DEFINE n == Len(page.headers)
           W == {fineOf(page, a) : a \in Actas}
<1>1. PICK h \in [0 .. n -> Seq(W)] :
        /\ h[0] = fromBoxes(page) /\ h[n] = parseCABAActas(page)
        /\ \A m \in 1 .. n : h[m] = takes(page, h[m - 1], page.headers[m])
  BY ListGrows
<1>2. n \in Nat /\ DOMAIN page.headers = 1 .. n /\ \A m \in 1 .. n : page.headers[m] \in Actas
  OBVIOUS
<1>3. ReadSoFar(page, fromBoxes(page), 0)
  <2>1. /\ DOMAIN fromBoxes(page) = DOMAIN page.boxes
        /\ \A i \in DOMAIN page.boxes : /\ fromBoxes(page)[i] = fineOf(page, page.boxes[i])
                                        /\ fromBoxes(page)[i].ref = page.boxes[i].ref
    BY DEF fromBoxes, fineOf
  <2>2. 1 .. 0 = {}
    OBVIOUS
  <2> HIDE DEF n
  <2> QED  BY <2>1, <2>2
     DEF ReadSoFar, BoxesRead, HeadersRead, NothingElse, OnceEach, OneBoxEach
<1> HIDE DEF n, W
<1> DEFINE S == {m \in 0 .. n : ReadSoFar(page, h[m], m)}
<1>4. 0 \in S
  BY <1>1, <1>2, <1>3
<1>5. ASSUME NEW m \in 0 .. n - 1, m \in S
      PROVE  m + 1 \in S
  <2>1. m + 1 \in 1 .. n /\ (m + 1) - 1 = m /\ m \in Nat /\ m \in 0 .. n /\ m + 1 \in 0 .. n
    BY <1>2
  <2>2. fineOf(page, page.headers[m + 1]) \in W /\ h[m] \in Seq(W)
    BY <1>1, <1>2, <2>1 DEF W
  <2>3. h[m + 1] = takes(page, h[m], page.headers[m + 1])
    BY <1>1, <2>1
  <2>4. ReadSoFar(page, h[m + 1], m + 1)
    BY <1>5, <2>1, <2>2, <2>3, HeaderIsRead
  <2> QED  BY <2>1, <2>4
<1>6. 0 .. n \subseteq S
  <2> HIDE DEF S
  <2> QED  BY <1>2, <1>4, <1>5, AllUpTo
<1>7. n \in 0 .. n
  BY <1>2
<1>8. ReadSoFar(page, h[n], n) /\ h[n] \in Seq(W)
  BY <1>1, <1>6, <1>7
<1> QED  BY <1>1, <1>8 DEF n, W

(* Of two actas a list that has both, each once, has no more. *)
LEMMA BothOnce ==
  ASSUME NEW s \in Seq({acta("a"), acta("b")}), OnceEach(s),
         \E j \in DOMAIN s : s[j].ref = "a", \E j \in DOMAIN s : s[j].ref = "b"
  PROVE  Len(s) = 2 /\ {s[i] : i \in 1 .. 2} = {acta("a"), acta("b")}
<1> DEFINE n == Len(s)
<1>1. n \in Nat /\ DOMAIN s = 1 .. n /\ \A j \in 1 .. n : s[j] = acta("a") \/ s[j] = acta("b")
  OBVIOUS
<1>2. acta("a").ref = "a" /\ acta("b").ref = "b"
  BY DEF acta
<1> HIDE DEF n
<1>3. \A i, j \in 1 .. n : i # j => s[i].ref # s[j].ref
  <2>1. \A j \in 1 .. n : s[j].ref # ""
    BY <1>1, <1>2
  <2> QED  BY <1>1, <2>1 DEF OnceEach
<1>4. PICK a \in 1 .. n, b \in 1 .. n : s[a].ref = "a" /\ s[b].ref = "b"
  BY <1>1
<1>5. s[a] = acta("a") /\ s[b] = acta("b") /\ a # b
  BY <1>1, <1>2, <1>4
<1>6. \A j \in 1 .. n : j = a \/ j = b
  BY <1>1, <1>2, <1>3, <1>5
<1>7. n = 2
  <2>1. n >= 2
    BY <1>1, <1>5
  <2>2. n < 3
    <3> SUFFICES ASSUME n >= 3
                 PROVE  FALSE
      BY <1>1
    <3>1. 1 \in 1 .. n /\ 2 \in 1 .. n /\ 3 \in 1 .. n
      BY <1>1
    <3> QED  BY <1>6, <3>1
  <2> QED  BY <1>1, <2>1, <2>2
<1>8. {s[i] : i \in 1 .. 2} = {acta("a"), acta("b")}
  BY <1>1, <1>5, <1>6, <1>7
<1> QED  BY <1>7, <1>8 DEF n

(* A page of two actas with a header each, wherever it stands and however often
   it is repeated, and at most one checkbox each.                         *)
TwoActas(boxes, headers) ==
  /\ boxes \in Seq({"a", "b"}) /\ headers \in Seq({"a", "b"})
  /\ \A i, j \in DOMAIN boxes : boxes[i] = boxes[j] => i = j
  /\ \E i \in DOMAIN headers : headers[i] = "a"
  /\ \E i \in DOMAIN headers : headers[i] = "b"

(* The pages of the run: two actas, however often they are listed. *)
LEMMA TwoActasReadOnce ==
  ASSUME NEW boxes, NEW headers, TwoActas(boxes, headers)
  PROVE  LET listed == parseCABAActas([boxes |-> some(boxes), headers |-> some(headers)])
         IN  Len(listed) = 2 /\ {listed[i] : i \in 1 .. 2} = {acta("a"), acta("b")}
<1> DEFINE Two == {acta("a"), acta("b")}
           page == [boxes |-> some(boxes), headers |-> some(headers)]
           listed == parseCABAActas(page)
<1>1. boxes \in Seq({"a", "b"}) /\ headers \in Seq({"a", "b"})
  BY DEF TwoActas
<1>4. ASSUME NEW refs \in Seq({"a", "b"})
      PROVE  /\ some(refs) \in Seq(Two) /\ DOMAIN some(refs) = DOMAIN refs
             /\ \A i \in DOMAIN refs : some(refs)[i] = acta(refs[i])
             /\ \A i \in DOMAIN refs : some(refs)[i].ref = refs[i]
  <2>1. some(refs) = [i \in 1 .. Len(refs) |-> acta(refs[i])] /\ Len(refs) \in Nat
    BY DEF some
  <2>2. \A i \in 1 .. Len(refs) : acta(refs[i]) \in Two /\ acta(refs[i]).ref = refs[i]
    BY DEF acta
  <2> HIDE DEF Two
  <2> QED  BY <2>1, <2>2
<1> HIDE DEF Two
<1>5. page \in [boxes : Seq(Two), headers : Seq(Two)]
  BY <1>1, <1>4
<1>6. OneBoxEach(page)
  <2>1. DOMAIN page.boxes = DOMAIN boxes /\ \A i \in DOMAIN boxes : page.boxes[i].ref = boxes[i]
    BY <1>1, <1>4
  <2> HIDE DEF page
  <2> QED  BY <2>1 DEF OneBoxEach, TwoActas
<1>7. ASSUME NEW r \in {"a", "b"}
      PROVE  fineOf(page, acta(r)) = acta(r)
  <2> DEFINE of == {i \in DOMAIN page.headers : page.headers[i].ref = r}
             n == Len(headers)
  <2>1. n \in Nat /\ DOMAIN page.headers = 1 .. n
    BY <1>1, <1>4
  <2>2. of # {} /\ of \in SUBSET (1 .. n)
    <3>1. PICK i \in DOMAIN headers : headers[i] = r
      BY DEF TwoActas
    <3>2. i \in DOMAIN page.headers /\ page.headers[i].ref = r
      BY <1>1, <1>4, <3>1
    <3> HIDE DEF page, n
    <3> QED  BY <2>1, <3>2
  <2>3. Max(of) \in of
    <3> HIDE DEF of, n
    <3> QED  BY <2>1, <2>2, MinAndMax
  <2>4. page.headers[Max(of)] = acta(r)
    BY <1>1, <1>4, <2>3
  <2>5. controllerOf(page, r) = acta(r).controller
    BY <2>2, <2>4 DEF controllerOf
  <2>6. acta(r).ref = r
    BY DEF acta
  <2> QED  BY <2>5, <2>6 DEF fineOf, acta
<1>8. {fineOf(page, x) : x \in Two} = Two
  BY <1>7 DEF Two
<1>9. listed \in Seq(Two) /\ ReadSoFar(page, listed, Len(page.headers))
  BY <1>5, <1>6, <1>8, CABAPageIsReadOnce
<1>10. ASSUME NEW r \in {"a", "b"}
       PROVE  \E j \in DOMAIN listed : listed[j].ref = r
  <2>1. PICK i \in DOMAIN headers : headers[i] = r
    BY DEF TwoActas
  <2>2. i \in 1 .. Len(page.headers) /\ page.headers[i].ref = r
    BY <1>1, <1>4, <2>1
  <2> QED  BY <1>9, <2>2 DEF ReadSoFar, HeadersRead
<1>11. OnceEach(listed)
  BY <1>9 DEF ReadSoFar
<1> HIDE DEF listed
<1>12. Len(listed) = 2 /\ {listed[i] : i \in 1 .. 2} = Two
  BY <1>9, <1>10, <1>11, BothOnce DEF Two
<1> QED  BY <1>12 DEF listed, Two

(* The pages of the run are some of these. *)
LEMMA CABAReads == CABAReadsOnce
<1>1. ASSUME NEW boxes \in {<<>>, <<"a">>, <<"b">>, <<"a", "b">>, <<"b", "a">>},
             NEW headers \in {<<"a", "b">>, <<"b", "a">>, <<"a", "b", "a">>, <<"b", "b", "a">>}
      PROVE  TwoActas(boxes, headers)
  <2>1. boxes \in Seq({"a", "b"})
    <3>1. CASE boxes = <<>>
      BY <3>1
    <3>2. CASE boxes = <<"a">>
      BY <3>2
    <3>3. CASE boxes = <<"b">>
      BY <3>3
    <3>4. CASE boxes = <<"a", "b">>
      BY <3>4
    <3>5. CASE boxes = <<"b", "a">>
      BY <3>5
    <3> QED  BY <3>1, <3>2, <3>3, <3>4, <3>5
  <2>2. headers \in Seq({"a", "b"})
    <3>1. CASE headers = <<"a", "b">>
      BY <3>1
    <3>2. CASE headers = <<"b", "a">>
      BY <3>2
    <3>3. CASE headers = <<"a", "b", "a">>
      BY <3>3
    <3>4. CASE headers = <<"b", "b", "a">>
      BY <3>4
    <3> QED  BY <3>1, <3>2, <3>3, <3>4
  <2>3. \A i, j \in DOMAIN boxes : boxes[i] = boxes[j] => i = j
    OBVIOUS
  <2>4. (\E i \in DOMAIN headers : headers[i] = "a") /\ (\E i \in DOMAIN headers : headers[i] = "b")
    OBVIOUS
  <2> QED  BY <2>1, <2>2, <2>3, <2>4 DEF TwoActas
<1> QED  BY <1>1, TwoActasReadOnce DEF CABAReadsOnce, ReadsOnce

-----------------------------------------------------------------------------
(* Amounts: what a text of groups reads as                                 *)

(* The marks before a group, and groups as the sites write them. *)
NoMark == ""
Point == "."
Comma == ","
Groups == [mark : {NoMark, Point, Comma}, n : Nat, width : {2, 3, 7}]

(* The three marks are three. *)
LEMMA MarksDiffer == NoMark # Point /\ NoMark # Comma /\ Point # Comma
BY Zenon DEF NoMark, Point, Comma

decimalMarks(text) ==
  LET comma == \E i \in DOMAIN text : text[i].mark = Comma
  IN  {i \in DOMAIN text : text[i].mark = Comma \/ (text[i].mark = Point /\ ~comma)}
digitsOf(text) == FoldLeft(LAMBDA n, g : n * 10 ^ g.width + g.n, 0, text)
digitsAfter(text, mark) ==
  FoldLeft(LAMBDA n, i : n + IF i < mark THEN 0 ELSE text[i].width,
           0, [i \in DOMAIN text |-> i])

(* parseAmount by its decimal marks and its digits. *)
LEMMA AmountInParts ==
  ASSUME NEW text
  PROVE  parseAmount(text) =
           CASE decimalMarks(text) = {} -> 1000 * digitsOf(text)
             [] Cardinality(decimalMarks(text)) = 1 ->
                  digitsOf(text) * 10 ^ (3 - digitsAfter(text, Min(decimalMarks(text))))
             [] OTHER -> 0
BY Zenon DEF parseAmount, decimalMarks, digitsOf, digitsAfter, Comma, Point

(* The powers of ten that groups and cents need. *)
LEMMA Powers == /\ 10 ^ 0 = 1 /\ 10 ^ 1 = 10 /\ 10 ^ 2 = 100 /\ 10 ^ 3 = 1000
                /\ 10 ^ 7 \in Nat
BY SMT

(* The digits of a text, group by group. *)
LEMMA DigitsGrow ==
  ASSUME NEW text \in Seq(Groups)
  PROVE  LET n == Len(text)
         IN  \E h \in [0 .. n -> Nat] :
               /\ h[0] = 0 /\ h[n] = digitsOf(text)
               /\ \A m \in 1 .. n : h[m] = h[m - 1] * 10 ^ text[m].width + text[m].n
<1> DEFINE n == Len(text)
           step(i, v) == v * 10 ^ text[i].width + text[i].n
           F == [x \in (1 .. n) \X Nat |-> step(x[1], x[2])]
           Body(g) == [s \in SUBSET DOMAIN text |->
                        IF s = {} THEN 0 ELSE LET x == Max(s) IN step(x, g[s \ {x}])]
           fold == CHOOSE g : g = Body(g)
<1>1. n \in Nat /\ DOMAIN text = 1 .. n /\ \A i \in 1 .. n : text[i] \in Groups
  OBVIOUS
<1>2. digitsOf(text) = fold[DOMAIN text]
  BY DEF digitsOf, FoldLeft, MapThenFoldSet
<1>3. F \in [(1 .. n) \X Nat -> Nat]
  <2> SUFFICES ASSUME NEW i \in 1 .. n, NEW v \in Nat
               PROVE  step(i, v) \in Nat
    OBVIOUS
  <2>1. text[i].n \in Nat /\ text[i].width \in {2, 3, 7}
    BY <1>1 DEF Groups
  <2>2. 10 ^ text[i].width \in Nat
    <3> SUFFICES ASSUME NEW w \in {2, 3, 7}
                 PROVE  10 ^ w \in Nat
      BY <2>1
    <3>1. CASE w = 2
      BY <3>1, Powers
    <3>2. CASE w = 3
      BY <3>2, Powers
    <3>3. CASE w = 7
      BY <3>3, Powers
    <3> QED  BY <3>1, <3>2, <3>3
  <2>3. \A p, k \in Nat : v * p + k \in Nat
    OBVIOUS
  <2> QED  BY <2>1, <2>2, <2>3
<1>4. PICK g \in [SUBSET (1 .. n) -> Nat] : Iterates(g, n, 0, F)
  <2> HIDE DEF n, F
  <2> QED  BY <1>1, <1>3, IterationExists
<1> HIDE DEF step
<1>5. g = Body(g)
  <2> SUFFICES ASSUME NEW s \in SUBSET (1 .. n), s # {}
               PROVE  g[s] = step(Max(s), g[s \ {Max(s)}])
    BY <1>1, <1>4, Zenon DEF Iterates
  <2>1. Max(s) \in 1 .. n /\ s \ {Max(s)} \in SUBSET (1 .. n)
    BY MinAndMax, <1>1
  <2>2. g[s] = F[<<Max(s), g[s \ {Max(s)}]>>]
    BY <1>4 DEF Iterates
  <2> QED  BY <1>4, <2>1, <2>2
<1>6. fold = Body(fold)
  <2> HIDE DEF Body
  <2> QED  BY <1>5
<1> HIDE DEF fold
<1>7. fold[{}] = 0
  BY <1>1, <1>6, FirstIndices, Zenon
<1>8. ASSUME NEW s \in SUBSET (1 .. n), s # {}, fold[s \ {Max(s)}] \in Nat
      PROVE  fold[s] = F[<<Max(s), fold[s \ {Max(s)}]>>]
  <2>1. Max(s) \in 1 .. n
    BY <1>1, <1>8, MinAndMax
  <2>2. fold[s] = step(Max(s), fold[s \ {Max(s)}])
    <3> HIDE DEF n, F
    <3>1. fold[s] = Body(fold)[s]
      BY <1>6
    <3> QED  BY <1>1, <1>8, <3>1
  <2> QED  BY <1>8, <2>1, <2>2
<1>9. PICK h \in [0 .. n -> Nat] :
        /\ h[0] = 0 /\ h[n] = fold[1 .. n]
        /\ \A m \in 1 .. n : h[m] = F[<<m, h[m - 1]>>]
  <2>1. GoesOn(fold, n, Nat, 0, F)
    BY <1>7, <1>8, Zenon DEF GoesOn
  <2> HIDE DEF n, F
  <2>2. InSteps(fold[1 .. n], n, Nat, 0, F)
    BY <1>1, <1>3, <2>1, FoldSteps
  <2> QED  BY <2>2 DEF InSteps
<1>10. ASSUME NEW m \in 1 .. n
       PROVE  h[m] = step(m, h[m - 1])
  <2>1. m - 1 \in 0 .. n
    BY <1>1
  <2> QED  BY <1>9, <2>1
<1> QED  BY <1>1, <1>2, <1>9, <1>10 DEF step

(* The digits after a mark, group by group. *)
LEMMA DigitsAfterGrow ==
  ASSUME NEW text \in Seq(Groups), NEW mark \in Nat
  PROVE  LET n == Len(text)
         IN  \E h \in [0 .. n -> Nat] :
               /\ h[0] = 0 /\ h[n] = digitsAfter(text, mark)
               /\ \A m \in 1 .. n : h[m] = h[m - 1] + IF m < mark THEN 0 ELSE text[m].width
<1> DEFINE n == Len(text)
           step(i, v) == v + IF i < mark THEN 0 ELSE text[i].width
           F == [x \in (1 .. n) \X Nat |-> step(x[1], x[2])]
           places == [i \in DOMAIN text |-> i]
           Body(g) == [s \in SUBSET DOMAIN places |->
                        IF s = {} THEN 0 ELSE LET x == Max(s) IN step(places[x], g[s \ {x}])]
           fold == CHOOSE g : g = Body(g)
<1>1. n \in Nat /\ DOMAIN text = 1 .. n /\ DOMAIN places = 1 .. n
      /\ \A i \in 1 .. n : text[i] \in Groups /\ places[i] = i
  OBVIOUS
<1>2. digitsAfter(text, mark) = fold[DOMAIN places]
  BY DEF digitsAfter, FoldLeft, MapThenFoldSet
<1>3. F \in [(1 .. n) \X Nat -> Nat]
  <2> SUFFICES ASSUME NEW i \in 1 .. n, NEW v \in Nat
               PROVE  step(i, v) \in Nat
    OBVIOUS
  <2>1. text[i].width \in {2, 3, 7}
    BY <1>1 DEF Groups
  <2> QED  BY <2>1
<1>4. PICK g \in [SUBSET (1 .. n) -> Nat] : Iterates(g, n, 0, F)
  <2> HIDE DEF n, F
  <2> QED  BY <1>1, <1>3, IterationExists
<1> HIDE DEF step, places
<1>5. g = Body(g)
  <2> SUFFICES ASSUME NEW s \in SUBSET (1 .. n), s # {}
               PROVE  g[s] = step(places[Max(s)], g[s \ {Max(s)}])
    BY <1>1, <1>4, Zenon DEF Iterates
  <2>1. Max(s) \in 1 .. n /\ s \ {Max(s)} \in SUBSET (1 .. n)
    BY MinAndMax, <1>1
  <2>2. g[s] = F[<<Max(s), g[s \ {Max(s)}]>>]
    BY <1>4 DEF Iterates
  <2> QED  BY <1>1, <1>4, <2>1, <2>2
<1>6. fold = Body(fold)
  <2> HIDE DEF Body
  <2> QED  BY <1>5
<1> HIDE DEF fold
<1>7. fold[{}] = 0
  BY <1>1, <1>6, FirstIndices, Zenon
<1>8. ASSUME NEW s \in SUBSET (1 .. n), s # {}, fold[s \ {Max(s)}] \in Nat
      PROVE  fold[s] = F[<<Max(s), fold[s \ {Max(s)}]>>]
  <2>1. Max(s) \in 1 .. n
    BY <1>1, <1>8, MinAndMax
  <2>2. fold[s] = step(Max(s), fold[s \ {Max(s)}])
    <3> HIDE DEF n, F
    <3>1. fold[s] = Body(fold)[s]
      BY <1>6
    <3> QED  BY <1>1, <1>8, <2>1, <3>1
  <2> QED  BY <1>8, <2>1, <2>2
<1>9. PICK h \in [0 .. n -> Nat] :
        /\ h[0] = 0 /\ h[n] = fold[1 .. n]
        /\ \A m \in 1 .. n : h[m] = F[<<m, h[m - 1]>>]
  <2>1. GoesOn(fold, n, Nat, 0, F)
    BY <1>7, <1>8, Zenon DEF GoesOn
  <2> HIDE DEF n, F
  <2>2. InSteps(fold[1 .. n], n, Nat, 0, F)
    BY <1>1, <1>3, <2>1, FoldSteps
  <2> QED  BY <2>2 DEF InSteps
<1>10. ASSUME NEW m \in 1 .. n
       PROVE  h[m] = step(m, h[m - 1])
  <2>1. m - 1 \in 0 .. n
    BY <1>1
  <2> QED  BY <1>9, <2>1
<1> QED  BY <1>1, <1>2, <1>9, <1>10 DEF step

(* What a text reads as, with the decimal mark at one place or none. *)
LEMMA OneDecimalMark ==
  ASSUME NEW text, NEW p \in Nat, decimalMarks(text) = {p}
  PROVE  parseAmount(text) = digitsOf(text) * 10 ^ (3 - digitsAfter(text, p))
<1>1. Cardinality({p}) = 1
  BY FS_Singleton
<1>2. Min({p}) = p
  <2>1. {p} \in SUBSET (1 .. p) \/ p = 0
    OBVIOUS
  <2>2. \A x \in {p} : (\A y \in {p} : x <= y) <=> x = p
    OBVIOUS
  <2> QED  BY <2>2 DEF Min
<1> QED  BY <1>1, <1>2, AmountInParts

(* Without a decimal mark the digits are whole pesos. *)
LEMMA NoDecimalMark ==
  ASSUME NEW text, decimalMarks(text) = {}
  PROVE  parseAmount(text) = 1000 * digitsOf(text)
<1>1. Cardinality(decimalMarks(text)) # 1
  BY FS_EmptySet
<1> QED  BY <1>1, AmountInParts

(* With two of them the text is no number. *)
LEMMA TwoDecimalMarks ==
  ASSUME NEW text, NEW p \in Nat, NEW q \in Nat, p # q, decimalMarks(text) = {p, q}
  PROVE  parseAmount(text) = 0
<1>1. Cardinality({p, q}) = 2
  <2>1. IsFiniteSet({p}) /\ Cardinality({p}) = 1
    BY FS_Singleton
  <2>2. {p, q} = {p} \cup {q} /\ q \notin {p}
    OBVIOUS
  <2> QED  BY <2>1, <2>2, FS_AddElement
<1>2. Cardinality(decimalMarks(text)) # 1 /\ decimalMarks(text) # {}
  BY <1>1
<1> QED  BY <1>2, AmountInParts

(* Texts of up to four groups, their digits one after the other. *)
LEMMA ShortTexts ==
  ASSUME NEW text \in Seq(Groups)
  PROVE  /\ Len(text) = 0 => digitsOf(text) = 0
         /\ Len(text) = 1 => digitsOf(text) = text[1].n
         /\ Len(text) = 2 => digitsOf(text) = text[1].n * 10 ^ text[2].width + text[2].n
         /\ Len(text) = 3 =>
              digitsOf(text) = (text[1].n * 10 ^ text[2].width + text[2].n)
                                 * 10 ^ text[3].width + text[3].n
         /\ Len(text) = 4 =>
              digitsOf(text) = ((text[1].n * 10 ^ text[2].width + text[2].n)
                                  * 10 ^ text[3].width + text[3].n)
                                  * 10 ^ text[4].width + text[4].n
<1> DEFINE n == Len(text)
<1>1. n \in Nat /\ \A i \in 1 .. n : text[i].n \in Nat /\ 10 ^ text[i].width \in Nat
  <2>1. ASSUME NEW i \in 1 .. n
        PROVE  text[i].n \in Nat /\ text[i].width \in {2, 3, 7}
    <3>1. text[i] \in Groups
      OBVIOUS
    <3> QED  BY <3>1 DEF Groups
  <2>2. ASSUME NEW w \in {2, 3, 7}
        PROVE  10 ^ w \in Nat
    <3>1. CASE w = 2
      BY <3>1, Powers
    <3>2. CASE w = 3
      BY <3>2, Powers
    <3>3. CASE w = 7
      BY <3>3, Powers
    <3> QED  BY <3>1, <3>2, <3>3
  <2>3. n \in Nat
    OBVIOUS
  <2> HIDE DEF n
  <2> QED  BY <2>1, <2>2, <2>3
<1>2. PICK h \in [0 .. n -> Nat] :
        /\ h[0] = 0 /\ h[n] = digitsOf(text)
        /\ \A m \in 1 .. n : h[m] = h[m - 1] * 10 ^ text[m].width + text[m].n
  BY DigitsGrow
<1> HIDE DEF n
<1>3. \A p \in Nat : 0 * p = 0
  OBVIOUS
<1>4. n >= 1 => h[1] = text[1].n
  <2> SUFFICES ASSUME n >= 1
               PROVE  h[1] = text[1].n
    OBVIOUS
  <2>1. 1 \in 1 .. n /\ h[1] = h[0] * 10 ^ text[1].width + text[1].n
    BY <1>1, <1>2
  <2>2. h[0] * 10 ^ text[1].width = 0
    BY <1>1, <1>2, <1>3, <2>1
  <2> QED  BY <1>1, <2>1, <2>2
<1>5. n >= 2 => h[2] = h[1] * 10 ^ text[2].width + text[2].n
  BY <1>1, <1>2
<1>6. n >= 3 => h[3] = h[2] * 10 ^ text[3].width + text[3].n
  BY <1>1, <1>2
<1>7. n >= 4 => h[4] = h[3] * 10 ^ text[4].width + text[4].n
  BY <1>1, <1>2
<1>8. n = 0 => digitsOf(text) = 0
  BY <1>2
<1>9. n = 1 => digitsOf(text) = h[1]
  BY <1>2
<1>10. n = 2 => digitsOf(text) = h[2]
  BY <1>2
<1>11. n = 3 => digitsOf(text) = h[3]
  BY <1>2
<1>12. n = 4 => digitsOf(text) = h[4]
  BY <1>2
<1>13. (n = 1 => n >= 1) /\ (n = 2 => n >= 1 /\ n >= 2)
       /\ (n = 3 => n >= 1 /\ n >= 2 /\ n >= 3)
       /\ (n = 4 => n >= 1 /\ n >= 2 /\ n >= 3 /\ n >= 4)
  OBVIOUS
<1>14. /\ n = 0 => digitsOf(text) = 0
       /\ n = 1 => digitsOf(text) = text[1].n
       /\ n = 2 => digitsOf(text) = text[1].n * 10 ^ text[2].width + text[2].n
       /\ n = 3 =>
            digitsOf(text) = (text[1].n * 10 ^ text[2].width + text[2].n)
                               * 10 ^ text[3].width + text[3].n
       /\ n = 4 =>
            digitsOf(text) = ((text[1].n * 10 ^ text[2].width + text[2].n)
                                * 10 ^ text[3].width + text[3].n)
                                * 10 ^ text[4].width + text[4].n
  BY <1>4, <1>5, <1>6, <1>7, <1>8, <1>9, <1>10, <1>11, <1>12, <1>13, Zenon
<1> QED  BY <1>14, Zenon DEF n

(* The digits after a mark before the last group are that group's. *)
LEMMA LastGroup ==
  ASSUME NEW text \in Seq(Groups), Len(text) > 0
  PROVE  digitsAfter(text, Len(text)) = text[Len(text)].width
<1> DEFINE n == Len(text)
<1>1. n \in Nat /\ n > 0 /\ text[n].width \in Nat
  <2>1. text[n] \in Groups
    OBVIOUS
  <2>2. text[n].width \in {2, 3, 7}
    BY <2>1 DEF Groups
  <2> QED  BY <2>2
<1>2. PICK h \in [0 .. n -> Nat] :
        /\ h[0] = 0 /\ h[n] = digitsAfter(text, n)
        /\ \A m \in 1 .. n : h[m] = h[m - 1] + IF m < n THEN 0 ELSE text[m].width
  BY DigitsAfterGrow, <1>1
<1> HIDE DEF n
<1> DEFINE S == {m \in 0 .. n - 1 : h[m] = 0}
<1>3. 0 \in S
  BY <1>1, <1>2
<1>4. \A m \in 0 .. (n - 1) - 1 : m \in S => m + 1 \in S
  <2> SUFFICES ASSUME NEW m \in 0 .. (n - 1) - 1, m \in S
               PROVE  m + 1 \in S
    OBVIOUS
  <2>1. m + 1 \in 1 .. n /\ (m + 1) - 1 = m /\ m + 1 < n /\ m + 1 \in 0 .. n - 1
    BY <1>1
  <2>2. h[m + 1] = h[m] + 0
    BY <1>2, <2>1
  <2> QED  BY <2>1, <2>2
<1>5. 0 .. n - 1 \subseteq S
  <2>1. n - 1 \in Nat
    BY <1>1
  <2> DEFINE k == n - 1
  <2> HIDE DEF S, k
  <2>2. k \in Nat /\ \A m \in 0 .. k - 1 : m \in S => m + 1 \in S
    BY <1>4, <2>1 DEF k
  <2>3. 0 .. k \subseteq S
    BY <1>3, <2>2, AllUpTo
  <2> QED  BY <2>3 DEF k
<1>6. h[n - 1] = 0
  BY <1>1, <1>5
<1>7. h[n] = h[n - 1] + text[n].width
  BY <1>1, <1>2
<1> QED  BY <1>1, <1>2, <1>6, <1>7 DEF n

(* A text of n groups with its one decimal mark before the last of them. *)
EndsWith(text, n, width) ==
  /\ text \in Seq(Groups) /\ n \in Nat /\ n > 0 /\ Len(text) = n
  /\ decimalMarks(text) = {n} /\ text[n].width = width

(* Two digits after the decimal mark are cents, three thousandths. *)
LEMMA EndsWithCents ==
  ASSUME NEW text, NEW n, EndsWith(text, n, 2)
  PROVE  parseAmount(text) = digitsOf(text) * 10
<1>1. parseAmount(text) = digitsOf(text) * 10 ^ (3 - 2)
  BY OneDecimalMark, LastGroup DEF EndsWith
<1>2. 3 - 2 = 1
  OBVIOUS
<1> QED  BY <1>1, <1>2, Powers

(* After a mark with three digits these are tenths of a cent. *)
LEMMA EndsWithThree ==
  ASSUME NEW text, NEW n, EndsWith(text, n, 3)
  PROVE  parseAmount(text) = digitsOf(text) * 1
<1>1. parseAmount(text) = digitsOf(text) * 10 ^ (3 - 3)
  BY OneDecimalMark, LastGroup DEF EndsWith
<1>2. 3 - 3 = 0
  OBVIOUS
<1> QED  BY <1>1, <1>2, Powers

(* One group, or none. *)
Reads(text, amount) == parseAmount(text) = amount

(* Nothing reads as zero, and digits alone as whole pesos. *)
LEMMA NoGroups == Reads(<<>>, 0)
<1>1. <<>> \in Seq(Groups) /\ decimalMarks(<<>>) = {}
  BY DEF decimalMarks
<1>2. digitsOf(<<>>) = 0
  BY <1>1, ShortTexts
<1> QED  BY <1>1, <1>2, NoDecimalMark DEF Reads

(* Digits in one group are whole pesos. *)
LEMMA OneGroup ==
  ASSUME NEW n \in Nat, NEW w \in {3, 7}
  PROVE  Reads(group(NoMark, n, w), 1000 * n)
<1> DEFINE only == [mark |-> NoMark, n |-> n, width |-> w]
           text == group(NoMark, n, w)
<1>1. text = <<only>> /\ only \in Groups /\ only.mark = NoMark /\ only.n = n
  BY DEF Groups, group
<1> HIDE DEF only, text
<1>2. text \in Seq(Groups) /\ Len(text) = 1 /\ text[1] = only /\ DOMAIN text = {1}
  BY <1>1
<1>3. decimalMarks(text) = {}
  BY <1>1, <1>2, MarksDiffer DEF decimalMarks
<1>4. digitsOf(text) = n
  BY <1>1, <1>2, ShortTexts
<1>5. parseAmount(text) = 1000 * n
  BY <1>3, <1>4, NoDecimalMark
<1> QED  BY <1>5 DEF Reads, text

(* A sequence with one more at its end, and those of two to four. *)
LongerBy(s, x, t, S) ==
  /\ t \in Seq(S) /\ Len(t) = Len(s) + 1 /\ DOMAIN t = 1 .. Len(s) + 1
  /\ t[Len(s) + 1] = x /\ \A i \in 1 .. Len(s) : t[i] = s[i]

(* s with x after it is longer by x. *)
LEMMA Appended ==
  ASSUME NEW S, NEW s \in Seq(S), NEW x \in S
  PROVE  LongerBy(s, x, s \o <<x>>, S)
<1>1. s \o <<x>> = Append(s, x)
  BY AppendIsConcat
<1>2. LongerBy(s, x, Append(s, x), S)
  BY DEF LongerBy
<1> QED  BY <1>1, <1>2

Couple(s, x, y, S) ==
  /\ s \in Seq(S) /\ Len(s) = 2 /\ DOMAIN s = {1, 2} /\ s[1] = x /\ s[2] = y

(* Two, three and four items, one after the other. *)
LEMMA TwoItems ==
  ASSUME NEW S, NEW x \in S, NEW y \in S
  PROVE  Couple(<<x>> \o <<y>>, x, y, S)
<1> DEFINE s == <<x>>
           t == s \o <<y>>
<1>1. s \in Seq(S) /\ Len(s) = 1 /\ s[1] = x
  OBVIOUS
<1> HIDE DEF s
<1>2. LongerBy(s, y, t, S)
  BY <1>1, Appended
<1> HIDE DEF t
<1>3. /\ t \in Seq(S) /\ Len(t) = 2 /\ DOMAIN t = {1, 2}
      /\ t[1] = x /\ t[2] = y
  BY <1>1, <1>2 DEF LongerBy
<1> QED  BY <1>3 DEF t, s, Couple

Triple(s, x, y, z, S) ==
  /\ s \in Seq(S) /\ Len(s) = 3 /\ DOMAIN s = {1, 2, 3}
  /\ s[1] = x /\ s[2] = y /\ s[3] = z

(* Three of them. *)
LEMMA ThreeItems ==
  ASSUME NEW S, NEW x \in S, NEW y \in S, NEW z \in S
  PROVE  Triple(<<x>> \o <<y>> \o <<z>>, x, y, z, S)
<1> DEFINE s == <<x>> \o <<y>>
           t == s \o <<z>>
<1>1. s \in Seq(S) /\ Len(s) = 2 /\ s[1] = x /\ s[2] = y
  BY TwoItems DEF Couple
<1> HIDE DEF s
<1>2. LongerBy(s, z, t, S)
  BY <1>1, Appended
<1> HIDE DEF t
<1>3. /\ t \in Seq(S) /\ Len(t) = 3 /\ DOMAIN t = {1, 2, 3}
      /\ t[1] = x /\ t[2] = y /\ t[3] = z
  BY <1>1, <1>2 DEF LongerBy
<1> QED  BY <1>3 DEF t, s, Triple

Quadruple(s, x, y, z, w, S) ==
  /\ s \in Seq(S) /\ Len(s) = 4 /\ DOMAIN s = {1, 2, 3, 4}
  /\ s[1] = x /\ s[2] = y /\ s[3] = z /\ s[4] = w

(* Four of them. *)
LEMMA FourItems ==
  ASSUME NEW S, NEW x \in S, NEW y \in S, NEW z \in S, NEW w \in S
  PROVE  Quadruple(<<x>> \o <<y>> \o <<z>> \o <<w>>, x, y, z, w, S)
<1> DEFINE s == <<x>> \o <<y>> \o <<z>>
           t == s \o <<w>>
<1>1. s \in Seq(S) /\ Len(s) = 3 /\ s[1] = x /\ s[2] = y /\ s[3] = z
  BY ThreeItems DEF Triple
<1> HIDE DEF s
<1>2. LongerBy(s, w, t, S)
  BY <1>1, Appended
<1> HIDE DEF t
<1>3. /\ t \in Seq(S) /\ Len(t) = 4 /\ DOMAIN t = {1, 2, 3, 4}
      /\ t[1] = x /\ t[2] = y /\ t[3] = z /\ t[4] = w
  BY <1>1, <1>2 DEF LongerBy
<1> QED  BY <1>3 DEF t, s, Quadruple

(* What two groups make, and three, and four. *)
TwoRead(n, w, mark, k, v) ==
  Reads(group(NoMark, n, w) \o group(mark, k, v),
        IF v = 2 THEN 1000 * n + 10 * k ELSE 1000 * n + k)
ThreeRead(a, b, c) ==
  /\ Reads(group(NoMark, a, 3) \o group(Point, b, 3) \o group(Comma, c, 2),
           1000 * (1000 * a + b) + 10 * c)
  /\ Reads(group(NoMark, a, 3) \o group(Point, b, 3) \o group(Point, c, 3), 0)
FourRead(a, b, c, d) ==
  Reads(group(NoMark, a, 3) \o group(Point, b, 3) \o group(Point, c, 3) \o group(Comma, d, 2),
        1000 * (1000 * (1000 * a + b) + c) + 10 * d)

(* Two groups: with cents they are read, in thousands a thousandth of what
   they say.                                                               *)
LEMMA TwoGroups ==
  ASSUME NEW n \in Nat, NEW w \in {3, 7}, NEW mark \in {Point, Comma},
         NEW k \in Nat, NEW v \in {2, 3}
  PROVE  TwoRead(n, w, mark, k, v)
<1> DEFINE first == [mark |-> NoMark, n |-> n, width |-> w]
           second == [mark |-> mark, n |-> k, width |-> v]
           text == group(NoMark, n, w) \o group(mark, k, v)
<1> SUFFICES parseAmount(text) = IF v = 2 THEN 1000 * n + 10 * k ELSE 1000 * n + k
  BY DEF TwoRead, Reads
<1>1. /\ first \in Groups /\ second \in Groups /\ first.n = n /\ second.n = k
      /\ second.width = v /\ first.mark = NoMark /\ second.mark = mark
  BY DEF Groups
<1>2. group(NoMark, n, w) = <<first>> /\ group(mark, k, v) = <<second>>
  BY DEF group
<1> HIDE DEF first, second
<1>3. /\ text \in Seq(Groups) /\ Len(text) = 2 /\ DOMAIN text = {1, 2}
      /\ text[1] = first /\ text[2] = second
  <2>1. Couple(text, first, second, Groups)
    BY <1>1, <1>2, TwoItems
  <2> HIDE DEF text
  <2> QED  BY <2>1 DEF Couple
<1> HIDE DEF text
<1>4. decimalMarks(text) = {2}
  BY <1>1, <1>3, MarksDiffer DEF decimalMarks
<1>5. digitsOf(text) = n * 10 ^ v + k
  <2>1. digitsOf(text) = text[1].n * 10 ^ text[2].width + text[2].n
    BY <1>3, ShortTexts
  <2> QED  BY <1>1, <1>3, <2>1, Zenon
<1>6. EndsWith(text, 2, v)
  <2>1. 2 \in Nat /\ 2 > 0
    OBVIOUS
  <2>2. text[2].width = v
    BY <1>1, <1>3, Zenon
  <2> QED  BY <1>3, <1>4, <2>1, <2>2, Zenon DEF EndsWith
<1>7. CASE v = 2
  <2>1. digitsOf(text) = n * 100 + k
    BY <1>5, <1>7, Powers
  <2>2. parseAmount(text) = (n * 100 + k) * 10
    <3>1. parseAmount(text) = digitsOf(text) * 10
      BY <1>6, <1>7, EndsWithCents
    <3> QED  BY <2>1, <3>1, ZenonT(60)
  <2>3. (n * 100 + k) * 10 = 1000 * n + 10 * k
    OBVIOUS
  <2> QED  BY <1>7, <2>2, <2>3, ZenonT(60)
<1>8. CASE v = 3
  <2>1. digitsOf(text) = n * 1000 + k
    BY <1>5, <1>8, Powers
  <2>2. parseAmount(text) = (n * 1000 + k) * 1
    <3>1. parseAmount(text) = digitsOf(text) * 1
      BY <1>6, <1>8, EndsWithThree
    <3> QED  BY <2>1, <3>1, ZenonT(60)
  <2>3. (n * 1000 + k) * 1 = 1000 * n + k
    OBVIOUS
  <2>4. parseAmount(text) = 1000 * n + k
    BY <2>2, <2>3
  <2> QED  BY <1>8, <2>4
<1> QED  BY <1>7, <1>8

(* Three: with cents they are read, in thousands they are no number. *)
LEMMA ThreeGroups ==
  ASSUME NEW a \in Nat, NEW b \in Nat, NEW c \in Nat
  PROVE  ThreeRead(a, b, c)
<1> DEFINE first == [mark |-> NoMark, n |-> a, width |-> 3]
           second == [mark |-> Point, n |-> b, width |-> 3]
           third == [mark |-> Comma, n |-> c, width |-> 2]
           other == [mark |-> Point, n |-> c, width |-> 3]
           text == group(NoMark, a, 3) \o group(Point, b, 3) \o group(Comma, c, 2)
           whole == group(NoMark, a, 3) \o group(Point, b, 3) \o group(Point, c, 3)
<1> SUFFICES parseAmount(text) = 1000 * (1000 * a + b) + 10 * c /\ parseAmount(whole) = 0
  BY DEF ThreeRead, Reads
<1>1. /\ first \in Groups /\ second \in Groups /\ third \in Groups /\ other \in Groups
      /\ first.n = a /\ second.n = b /\ third.n = c
      /\ second.width = 3 /\ third.width = 2
      /\ first.mark = NoMark /\ second.mark = Point /\ third.mark = Comma /\ other.mark = Point
  BY DEF Groups
<1>2. /\ group(NoMark, a, 3) = <<first>> /\ group(Point, b, 3) = <<second>>
      /\ group(Comma, c, 2) = <<third>> /\ group(Point, c, 3) = <<other>>
  BY DEF group
<1> HIDE DEF first, second, third, other
<1>3. /\ text \in Seq(Groups) /\ Len(text) = 3 /\ DOMAIN text = {1, 2, 3}
      /\ text[1] = first /\ text[2] = second /\ text[3] = third
      /\ DOMAIN whole = {1, 2, 3}
      /\ whole[1] = first /\ whole[2] = second /\ whole[3] = other
  <2>1. Triple(text, first, second, third, Groups) /\ Triple(whole, first, second, other, Groups)
    BY <1>1, <1>2, ThreeItems
  <2> HIDE DEF text, whole
  <2> QED  BY <2>1 DEF Triple
<1> HIDE DEF text, whole
<1>5. decimalMarks(text) = {3}
  BY <1>1, <1>3, MarksDiffer DEF decimalMarks
<1>6. decimalMarks(whole) = {2, 3}
  BY <1>1, <1>3, MarksDiffer DEF decimalMarks
<1>7. digitsOf(text) = (a * 10 ^ 3 + b) * 10 ^ 2 + c
  <2>1. digitsOf(text) = (text[1].n * 10 ^ text[2].width + text[2].n) * 10 ^ text[3].width + text[3].n
    BY <1>3, ShortTexts
  <2> QED  BY <1>1, <1>3, <2>1, Zenon
<1>8. parseAmount(text) = digitsOf(text) * 10
  <2>1. 3 \in Nat /\ 3 > 0
    OBVIOUS
  <2>2. text[3].width = 2
    BY <1>1, <1>3, Zenon
  <2>3. EndsWith(text, 3, 2)
    BY <1>3, <1>5, <2>1, <2>2, Zenon DEF EndsWith
  <2> QED  BY <2>3, EndsWithCents
<1>9. parseAmount(text) = ((a * 1000 + b) * 100 + c) * 10
  BY <1>7, <1>8, Powers
<1>10. parseAmount(whole) = 0
  BY <1>6, TwoDecimalMarks
<1>11. ((a * 1000 + b) * 100 + c) * 10 = 1000 * (1000 * a + b) + 10 * c
  OBVIOUS
<1> QED  BY <1>9, <1>10, <1>11

(* Four: with cents they are read. *)
LEMMA FourGroups ==
  ASSUME NEW a \in Nat, NEW b \in Nat, NEW c \in Nat, NEW d \in Nat
  PROVE  FourRead(a, b, c, d)
<1> DEFINE first == [mark |-> NoMark, n |-> a, width |-> 3]
           second == [mark |-> Point, n |-> b, width |-> 3]
           third == [mark |-> Point, n |-> c, width |-> 3]
           last == [mark |-> Comma, n |-> d, width |-> 2]
           text == group(NoMark, a, 3) \o group(Point, b, 3) \o group(Point, c, 3) \o group(Comma, d, 2)
<1> SUFFICES parseAmount(text) = 1000 * (1000 * (1000 * a + b) + c) + 10 * d
  BY DEF FourRead, Reads
<1>1. /\ first \in Groups /\ second \in Groups /\ third \in Groups /\ last \in Groups
      /\ first.n = a /\ second.n = b /\ third.n = c /\ last.n = d
      /\ second.width = 3 /\ third.width = 3 /\ last.width = 2
      /\ first.mark = NoMark /\ second.mark = Point /\ third.mark = Point /\ last.mark = Comma
  BY DEF Groups
<1>2. /\ group(NoMark, a, 3) = <<first>> /\ group(Point, b, 3) = <<second>>
      /\ group(Point, c, 3) = <<third>> /\ group(Comma, d, 2) = <<last>>
  BY DEF group
<1> HIDE DEF first, second, third, last
<1>3. /\ text \in Seq(Groups) /\ Len(text) = 4 /\ DOMAIN text = {1, 2, 3, 4}
      /\ text[1] = first /\ text[2] = second /\ text[3] = third /\ text[4] = last
  <2>1. Quadruple(text, first, second, third, last, Groups)
    BY <1>1, <1>2, FourItems
  <2> HIDE DEF text
  <2> QED  BY <2>1 DEF Quadruple
<1> HIDE DEF text
<1>4. decimalMarks(text) = {4}
  BY <1>1, <1>3, MarksDiffer DEF decimalMarks
<1>5. digitsOf(text) = ((a * 10 ^ 3 + b) * 10 ^ 3 + c) * 10 ^ 2 + d
  <2>1. digitsOf(text) = ((text[1].n * 10 ^ text[2].width + text[2].n) * 10 ^ text[3].width
                            + text[3].n) * 10 ^ text[4].width + text[4].n
    BY <1>3, ShortTexts
  <2> QED  BY <1>1, <1>3, <2>1, Zenon
<1>6. parseAmount(text) = digitsOf(text) * 10
  <2>1. 4 \in Nat /\ 4 > 0
    OBVIOUS
  <2>2. text[4].width = 2
    BY <1>1, <1>3, Zenon
  <2>3. EndsWith(text, 4, 2)
    BY <1>3, <1>4, <2>1, <2>2, Zenon DEF EndsWith
  <2> QED  BY <2>3, EndsWithCents
<1>7. parseAmount(text) = (((a * 1000 + b) * 1000 + c) * 100 + d) * 10
  BY <1>5, <1>6, Powers
<1>8. (((a * 1000 + b) * 1000 + c) * 100 + d) * 10 = 1000 * (1000 * (1000 * a + b) + c) + 10 * d
  OBVIOUS
<1> QED  BY <1>7, <1>8

(* Of a million it only matters that it is more than a thousand. *)
LEMMA Million == million \in Nat /\ million > 1000
BY SMT DEF million

(* The groups of an amount put together again. *)
LEMMA GroupsOf ==
  ASSUME NEW n \in Nat
  PROVE  /\ n \div 1000 \in Nat /\ n % 1000 \in Nat /\ n \div million \in Nat
         /\ (n \div 1000) % 1000 \in Nat
         /\ 1000 * (n \div 1000) + (n % 1000) = n
         /\ 1000 * (1000 * (n \div million) + ((n \div 1000) % 1000)) + (n % 1000) = n
<1>1. n \div 1000 \in Nat /\ n % 1000 \in Nat /\ 1000 * (n \div 1000) + (n % 1000) = n
  BY SMT
<1>2. n \div million \in Nat /\ (n \div 1000) % 1000 \in Nat
  BY SMT DEF million
<1>3. 1000 * (1000 * (n \div million) + ((n \div 1000) % 1000)) + (n % 1000) = n
  BY SMT DEF million
<1> QED  BY <1>1, <1>2, <1>3, SMT

(* Any amount with its cents reads as it is; of whole pesos one below a thousand
   or without marks does, and with its thousands marked a thousandth of it or
   nothing is read.                                                       *)
AmountRead(n, c) ==
  /\ parseAmount(plain(n) \o group(",", c, 2)) = 1000 * n + 10 * c
  /\ parseAmount(plain(n) \o group(".", c, 2)) = 1000 * n + 10 * c
  /\ parseAmount(grouped(n) \o group(",", c, 2)) = 1000 * n + 10 * c
  /\ parseAmount(plain(n)) = 1000 * n
  /\ parseAmount(grouped(n)) = CASE n < 1000                  -> 1000 * n
                                 [] n \in 1000 .. million - 1 -> n
                                 [] OTHER                     -> 0

(* A number w digits wide, with and without cents; and one of two groups. *)
Plain(n, c, w, mark) ==
  /\ Reads(group(NoMark, n, w) \o group(mark, c, 2), 1000 * n + 10 * c)
  /\ Reads(group(NoMark, n, w), 1000 * n)

(* It reads as the pesos and the cents it is written of. *)
LEMMA PlainRead ==
  ASSUME NEW n \in Nat, NEW c \in Nat, NEW w \in {3, 7}, NEW mark \in {Point, Comma}
  PROVE  Plain(n, c, w, mark)
<1>1. Reads(group(NoMark, n, w), 1000 * n)
  BY OneGroup
<1>2. Reads(group(NoMark, n, w) \o group(mark, c, 2), 1000 * n + 10 * c)
  <2>1. TwoRead(n, w, mark, c, 2)
    BY TwoGroups
  <2> QED  BY <2>1, Zenon DEF TwoRead
<1> QED  BY <1>1, <1>2, Zenon DEF Plain

(* A number in groups: one, two or three of them. *)
Thousands(n) == group(NoMark, n \div 1000, 3) \o group(Point, n % 1000, 3)
Millions(n) ==
  group(NoMark, n \div million, 3) \o group(Point, (n \div 1000) % 1000, 3)
    \o group(Point, n % 1000, 3)

(* How many groups a number is written in. *)
LEMMA InGroups ==
  ASSUME NEW n \in Nat
  PROVE  /\ n < 1000 => grouped(n) = group(NoMark, n, 3)
         /\ n >= 1000 /\ n < million => grouped(n) = Thousands(n)
         /\ n >= million => grouped(n) = Millions(n)
<1> DEFINE one == group(NoMark, n, 3)
           two == Thousands(n)
           three == Millions(n)
<1>1. grouped(n) = CASE n < 1000 -> one
                     [] n \in 1000 .. million - 1 -> two
                     [] OTHER -> three
  BY Zenon DEF grouped, Thousands, Millions, NoMark, Point
<1> HIDE DEF one, two, three
<1>2. /\ n < 1000 => grouped(n) = one
      /\ n >= 1000 /\ n < million => grouped(n) = two
      /\ n >= million => grouped(n) = three
  BY <1>1, Million
<1> QED  BY <1>2 DEF one, two, three

(* Any whole number of pesos and any cents are read as AmountRead says. *)
THEOREM AmountsAreRead ==
  ASSUME NEW n \in Nat, NEW c \in Nat
  PROVE  AmountRead(n, c)
<1> DEFINE cents == group(Comma, c, 2)
<1>1. /\ parseAmount(plain(n) \o group(",", c, 2)) = 1000 * n + 10 * c
      /\ parseAmount(plain(n) \o group(".", c, 2)) = 1000 * n + 10 * c
      /\ parseAmount(plain(n)) = 1000 * n
  <2>1. Plain(n, c, 7, Comma) /\ Plain(n, c, 7, Point)
    BY PlainRead
  <2> QED  BY <2>1, ZenonT(60) DEF Plain, Reads, plain, NoMark, Comma, Point
<1> HIDE DEF cents
<1> DEFINE Means(whole) == /\ Reads(grouped(n) \o cents, 1000 * n + 10 * c)
                           /\ Reads(grouped(n), whole)
<1> HIDE DEF Means
<1>2. ASSUME n < 1000
      PROVE  Means(1000 * n)
  <2>1. Plain(n, c, 3, Comma)
    BY PlainRead
  <2>2. grouped(n) = group(NoMark, n, 3)
    BY <1>2, InGroups
  <2> QED  BY <2>1, <2>2 DEF Means, cents, Plain
<1>3. ASSUME n >= 1000, n < million
      PROVE  Means(n)
  <2> DEFINE a == n \div 1000
             b == n % 1000
  <2>1. grouped(n) = group(NoMark, a, 3) \o group(Point, b, 3)
    <3>1. grouped(n) = Thousands(n)
      BY <1>3, InGroups
    <3> QED  BY <3>1 DEF Thousands
  <2>2. a \in Nat /\ b \in Nat /\ 1000 * a + b = n
    BY GroupsOf
  <2> HIDE DEF a, b
  <2>3. Reads(grouped(n) \o cents, 1000 * (1000 * a + b) + 10 * c)
    <3>1. ThreeRead(a, b, c)
      BY <2>2, ThreeGroups
    <3> QED  BY <2>1, <3>1 DEF ThreeRead, cents
  <2>4. Reads(grouped(n), 1000 * a + b)
    <3>1. TwoRead(a, 3, Point, b, 3)
      BY <2>2, TwoGroups
    <3>2. 3 # 2
      OBVIOUS
    <3> QED  BY <2>1, <3>1, <3>2 DEF TwoRead
  <2> QED  BY <2>2, <2>3, <2>4 DEF Means
<1>4. ASSUME n >= million
      PROVE  Means(0)
  <2> DEFINE a == n \div million
             b == (n \div 1000) % 1000
             d == n % 1000
  <2>1. grouped(n) = group(NoMark, a, 3) \o group(Point, b, 3) \o group(Point, d, 3)
    <3>1. grouped(n) = Millions(n)
      BY <1>4, InGroups
    <3> QED  BY <3>1 DEF Millions
  <2>2. a \in Nat /\ b \in Nat /\ d \in Nat /\ 1000 * (1000 * a + b) + d = n
    <3>1. 1000 * (1000 * (n \div million) + ((n \div 1000) % 1000)) + (n % 1000) = n
      BY GroupsOf
    <3>2. n \div million \in Nat /\ (n \div 1000) % 1000 \in Nat /\ n % 1000 \in Nat
      BY GroupsOf
    <3> HIDE DEF a, b, d
    <3> QED  BY <3>1, <3>2 DEF a, b, d
  <2> HIDE DEF a, b, d
  <2>3. Reads(grouped(n) \o cents, 1000 * (1000 * (1000 * a + b) + d) + 10 * c)
    <3>1. FourRead(a, b, d, c)
      BY <2>2, FourGroups
    <3> QED  BY <2>1, <3>1 DEF FourRead, cents
  <2>4. Reads(grouped(n), 0)
    <3>1. ThreeRead(a, b, d)
      BY <2>2, ThreeGroups
    <3> QED  BY <2>1, <3>1 DEF ThreeRead
  <2> QED  BY <2>2, <2>3, <2>4 DEF Means
<1>5. \/ n < 1000 /\ Means(1000 * n)
      \/ ~ (n < 1000) /\ n < million /\ Means(n)
      \/ ~ (n < 1000) /\ ~ (n < million) /\ Means(0)
  BY <1>2, <1>3, <1>4, Million
<1>6. parseAmount(grouped(n)) = CASE n < 1000                  -> 1000 * n
                                  [] n \in 1000 .. million - 1 -> n
                                  [] OTHER                     -> 0
  BY <1>5, Million DEF Means, Reads
<1>7. parseAmount(grouped(n) \o group(",", c, 2)) = 1000 * n + 10 * c
  <2>1. Reads(grouped(n) \o cents, 1000 * n + 10 * c)
    BY <1>5, Million DEF Means
  <2> QED  BY <2>1, Zenon DEF Reads, cents, Comma
<1> QED  BY <1>1, <1>6, <1>7, ZenonT(60) DEF AmountRead

(* The amounts of the run are some of these. *)
LEMMA AmountsRead == AmountsReadAsWritten
<1>1. someAmounts \subseteq Nat /\ {0, 5, 50} \subseteq Nat
  BY SMT DEF someAmounts
<1>2. ASSUME NEW n \in someAmounts
      PROVE  /\ \A c \in {0, 5, 50} :
                  \A text \in {plain(n) \o group(",", c, 2), plain(n) \o group(".", c, 2),
                               grouped(n) \o group(",", c, 2)} :
                    parseAmount(text) = 1000 * n + 10 * c
             /\ parseAmount(plain(n)) = 1000 * n
             /\ parseAmount(grouped(n)) = CASE n < 1000                  -> 1000 * n
                                            [] n \in 1000 .. million - 1 -> n
                                            [] OTHER                     -> 0
  <2>1. \A c \in {0, 5, 50} : AmountRead(n, c)
    BY <1>1, AmountsAreRead
  <2>2. 0 \in {0, 5, 50}
    OBVIOUS
  <2>3. ASSUME NEW c \in {0, 5, 50}
        PROVE  \A text \in {plain(n) \o group(",", c, 2), plain(n) \o group(".", c, 2),
                            grouped(n) \o group(",", c, 2)} :
                 parseAmount(text) = 1000 * n + 10 * c
    <3>1. AmountRead(n, c)
      BY <2>1
    <3> DEFINE amount == 1000 * n + 10 * c
               x == plain(n) \o group(",", c, 2)
               y == plain(n) \o group(".", c, 2)
               z == grouped(n) \o group(",", c, 2)
    <3>2. parseAmount(x) = amount /\ parseAmount(y) = amount /\ parseAmount(z) = amount
      BY <3>1, ZenonT(60) DEF AmountRead
    <3> HIDE DEF x, y, z, amount
    <3>3. \A text \in {x, y, z} : parseAmount(text) = amount
      BY <3>2
    <3> QED  BY <3>3, Zenon DEF x, y, z, amount
  <2>4. AmountRead(n, 0)
    BY <2>1, <2>2
  <2> QED  BY <2>3, <2>4, ZenonT(60) DEF AmountRead
<1> QED
  BY <1>2, Zenon DEF AmountsReadAsWritten, ReadsAmounts, chacoParseAmount, pbaParseAmount

-----------------------------------------------------------------------------
(* Rows: which cell the amount and the offense are taken from              *)

(* A row by its parts. *)
nothingSaid == ""
numbered(row, dollar) == {i \in DOMAIN row : row[i].number # {} /\ (dollar => row[i].dollar)}
wordy(row, dollar) ==
  {i \in DOMAIN row \ numbered(row, dollar) : ~row[i].date /\ ~row[i].state /\ row[i].long}

(* parseRow by the cells with numbers and the long texts. *)
LEMMA RowInParts ==
  ASSUME NEW row, NEW dollar
  PROVE  /\ parseRow(row, dollar).amount =
              IF numbered(row, dollar) = {} THEN {0} ELSE row[Min(numbered(row, dollar))].number
         /\ parseRow(row, dollar).offense =
              IF wordy(row, dollar) = {} THEN nothingSaid ELSE row[Min(wordy(row, dollar))].says
<1> DEFINE a == IF numbered(row, dollar) = {} THEN {0} ELSE row[Min(numbered(row, dollar))].number
           o == IF wordy(row, dollar) = {} THEN nothingSaid ELSE row[Min(wordy(row, dollar))].says
<1>1. parseRow(row, dollar) = [amount |-> a, offense |-> o]
  BY Zenon DEF parseRow, numbered, wordy, nothingSaid
<1> HIDE DEF a, o
<1>2. parseRow(row, dollar).amount = a /\ parseRow(row, dollar).offense = o
  BY <1>1
<1> QED  BY <1>2 DEF a, o

(* A row without an offense has none. *)
LEMMA NothingIsNoOffense == nothingSaid # "offense"
BY Zenon DEF nothingSaid

(* The five cells, told apart by what they say. *)
LEMMA CellsDiffer ==
  ASSUME NEW dollar \in BOOLEAN, NEW long \in BOOLEAN, NEW marks \in BOOLEAN
  PROVE  /\ dateCell # stateCell /\ dateCell # refCell(long) /\ dateCell # amountCell(dollar)
         /\ dateCell # offenseCell(marks)
         /\ stateCell # refCell(long) /\ stateCell # amountCell(dollar)
         /\ stateCell # offenseCell(marks)
         /\ refCell(long) # amountCell(dollar) /\ refCell(long) # offenseCell(marks)
         /\ amountCell(dollar) # offenseCell(marks)
<1>1. /\ dateCell.says = "15/03/2024" /\ stateCell.says = "PENDIENTE"
      /\ refCell(long).says = "4321" /\ offenseCell(marks).says = "offense"
      /\ amountCell(dollar).says = "85000.50"
  BY SMT DEF dateCell, stateCell, refCell, amountCell, offenseCell, cell
<1> QED  BY <1>1, SMT

(* Their numbers, and which is after a "$". *)
LEMMA CellsNumbered ==
  ASSUME NEW dollar \in BOOLEAN, NEW long \in BOOLEAN, NEW marks \in BOOLEAN
  PROVE  /\ dateCell.number = {15000} /\ stateCell.number = {} /\ refCell(long).number = {4321000}
         /\ amountCell(dollar).number = {85000500}
         /\ offenseCell(marks).number = IF marks THEN {0} ELSE {}
         /\ ~ dateCell.dollar /\ ~ stateCell.dollar /\ ~ refCell(long).dollar
         /\ (amountCell(dollar).dollar <=> dollar) /\ ~ offenseCell(marks).dollar
BY SMT DEF dateCell, stateCell, refCell, amountCell, offenseCell, cell

(* Their words. *)
LEMMA CellsWordy ==
  ASSUME NEW dollar \in BOOLEAN, NEW long \in BOOLEAN, NEW marks \in BOOLEAN
  PROVE  /\ dateCell.date /\ stateCell.state
         /\ ~ refCell(long).date /\ ~ refCell(long).state /\ (refCell(long).long <=> long)
         /\ ~ offenseCell(marks).date /\ ~ offenseCell(marks).state /\ offenseCell(marks).long
         /\ offenseCell(marks).says = "offense" /\ refCell(long).says = "4321"
BY SMT DEF dateCell, stateCell, refCell, amountCell, offenseCell, cell

(* A row with its date at d, state at s, reference at r, amount at a and offense
   at o.                                                                  *)
LaidOut(row, d, s, r, a, o, dollar, long, marks) ==
  /\ DOMAIN row = 1 .. 5 /\ {d, s, r, a, o} = 1 .. 5
  /\ d # s /\ d # r /\ d # a /\ d # o /\ s # r /\ s # a /\ s # o /\ r # a /\ r # o /\ a # o
  /\ row[d] = dateCell /\ row[s] = stateCell /\ row[r] = refCell(long)
  /\ row[a] = amountCell(dollar) /\ row[o] = offenseCell(marks)

CanBeLaidOut(row, dollar, long, marks) ==
  \E d, s, r, a, o \in 1 .. 5 : LaidOut(row, d, s, r, a, o, dollar, long, marks)

(* Every order of the columns lays a row out. *)
LEMMA RowsLaidOut ==
  ASSUME NEW dollar \in BOOLEAN, NEW long \in BOOLEAN, NEW marks \in BOOLEAN,
         NEW order \in Bijection(1 .. 5, 1 .. 5)
  PROVE  CanBeLaidOut(rowOf(order, dollar, long, marks), dollar, long, marks)
<1> DEFINE C == <<dateCell, stateCell, refCell(long), amountCell(dollar), offenseCell(marks)>>
           row == rowOf(order, dollar, long, marks)
<1>1. /\ C[1] = dateCell /\ C[2] = stateCell /\ C[3] = refCell(long)
      /\ C[4] = amountCell(dollar) /\ C[5] = offenseCell(marks)
  OBVIOUS
<1>2. row = [i \in 1 .. 5 |-> C[order[i]]]
  BY DEF rowOf
<1> HIDE DEF C, row
<1>3. /\ order \in [1 .. 5 -> 1 .. 5]
      /\ \A i, j \in 1 .. 5 : order[i] = order[j] => i = j
      /\ \A k \in 1 .. 5 : \E i \in 1 .. 5 : order[i] = k
  BY SMTT(30) DEF Bijection, Injection, Surjection, IsInjective
<1>4. PICK d \in 1 .. 5, s \in 1 .. 5, r \in 1 .. 5, a \in 1 .. 5, o \in 1 .. 5 :
        order[d] = 1 /\ order[s] = 2 /\ order[r] = 3 /\ order[a] = 4 /\ order[o] = 5
  BY <1>3
<1>5. /\ row[d] = dateCell /\ row[s] = stateCell /\ row[r] = refCell(long)
      /\ row[a] = amountCell(dollar) /\ row[o] = offenseCell(marks)
  BY <1>1, <1>2, <1>4
<1>6. d # s /\ d # r /\ d # a /\ d # o /\ s # r /\ s # a /\ s # o /\ r # a /\ r # o /\ a # o
  BY <1>4
<1>7. {d, s, r, a, o} = 1 .. 5
  <2> SUFFICES ASSUME NEW i \in 1 .. 5
               PROVE  i \in {d, s, r, a, o}
    OBVIOUS
  <2>1. order[i] \in 1 .. 5
    BY <1>3
  <2>2. order[i] = 1 \/ order[i] = 2 \/ order[i] = 3 \/ order[i] = 4 \/ order[i] = 5
    BY <2>1
  <2> QED  BY <1>3, <1>4, <2>2
<1>8. LaidOut(row, d, s, r, a, o, dollar, long, marks)
  BY <1>2, <1>5, <1>6, <1>7 DEF LaidOut
<1> QED  BY <1>8 DEF CanBeLaidOut, row

(* Where a cell stands. *)
placeOf(row, c) == CHOOSE i \in DOMAIN row : row[i] = c

(* The cells of such a row are where they were put. *)
LEMMA CellsPlaced ==
  ASSUME NEW dollar \in BOOLEAN, NEW long \in BOOLEAN, NEW marks \in BOOLEAN, NEW row,
         NEW d, NEW s, NEW r, NEW a, NEW o, LaidOut(row, d, s, r, a, o, dollar, long, marks)
  PROVE  /\ placeOf(row, dateCell) = d /\ placeOf(row, refCell(long)) = r
         /\ placeOf(row, amountCell(dollar)) = a /\ placeOf(row, offenseCell(marks)) = o
<1>1. ASSUME NEW c, NEW i \in 1 .. 5, row[i] = c, \A j \in 1 .. 5 : row[j] = c => j = i
      PROVE  placeOf(row, c) = i
  BY <1>1 DEF placeOf, LaidOut
<1>2. \A j \in 1 .. 5 : j = d \/ j = s \/ j = r \/ j = a \/ j = o
  BY DEF LaidOut
<1>3. d \in 1 .. 5 /\ r \in 1 .. 5 /\ a \in 1 .. 5 /\ o \in 1 .. 5
  BY DEF LaidOut
<1>4. \A j \in 1 .. 5 : row[j] = dateCell => j = d
  BY <1>2, CellsDiffer, SMT DEF LaidOut
<1>5. \A j \in 1 .. 5 : row[j] = refCell(long) => j = r
  BY <1>2, CellsDiffer, SMT DEF LaidOut
<1>6. \A j \in 1 .. 5 : row[j] = amountCell(dollar) => j = a
  BY <1>2, CellsDiffer, SMT DEF LaidOut
<1>7. \A j \in 1 .. 5 : row[j] = offenseCell(marks) => j = o
  BY <1>2, CellsDiffer, SMT DEF LaidOut
<1>8. /\ row[d] = dateCell /\ row[r] = refCell(long)
      /\ row[a] = amountCell(dollar) /\ row[o] = offenseCell(marks)
  BY DEF LaidOut
<1> QED  BY <1>1, <1>3, <1>4, <1>5, <1>6, <1>7, <1>8

(* The smallest of some indices is the one before all others. *)
LEMMA SmallestIs ==
  ASSUME NEW n \in Nat, NEW S \in SUBSET (1 .. n), NEW x \in S
  PROVE  (Min(S) = x) <=> \A y \in S : x <= y
<1>1. Min(S) \in S /\ \A y \in S : Min(S) <= y
  BY MinAndMax
<1>2. \A y \in S : y \in Nat
  OBVIOUS
<1>3. ASSUME NEW m \in S, \A y \in S : m <= y
      PROVE  m = x <=> \A y \in S : x <= y
  BY <1>2, <1>3
<1> QED  BY <1>1, <1>3

(* The amount of a row, in thousandths. *)
written == {85000500}

(* No other cell has the number of the amount. *)
LEMMA OthersWritten ==
  written # {0} /\ written # {15000} /\ written # {4321000} /\ written # {}
<1>1. 85000500 \in written
  BY SMT DEF written
<1>2. /\ 85000500 \notin {0} /\ 85000500 \notin {15000} /\ 85000500 \notin {4321000}
      /\ 85000500 \notin {}
  BY SMT
<1> HIDE DEF written
<1> QED BY <1>1, <1>2, SMT

(* The places, numbers and words of a row that is laid out so. *)
Places(row, d, s, r, a, o) ==
  /\ DOMAIN row = 1 .. 5
  /\ d \in 1 .. 5 /\ s \in 1 .. 5 /\ r \in 1 .. 5 /\ a \in 1 .. 5 /\ o \in 1 .. 5
  /\ \A j \in 1 .. 5 : j = d \/ j = s \/ j = r \/ j = a \/ j = o
  /\ d # s /\ d # r /\ d # a /\ d # o /\ s # r /\ s # a /\ s # o /\ r # a /\ r # o /\ a # o

Numbers(row, d, s, r, a, o, dollar, marks) ==
  /\ row[a].number = written
  /\ row[d].number # written /\ row[r].number # written /\ row[s].number # written
  /\ row[o].number # written
  /\ row[a].number # {} /\ row[d].number # {} /\ row[r].number # {} /\ row[s].number = {}
  /\ (row[o].number # {} <=> marks)
  /\ ~ row[d].dollar /\ ~ row[s].dollar /\ ~ row[r].dollar /\ ~ row[o].dollar
  /\ (row[a].dollar <=> dollar)

Words(row, d, s, r, o, long) ==
  /\ row[d].date /\ row[s].state
  /\ ~ row[r].date /\ ~ row[r].state /\ (row[r].long <=> long)
  /\ ~ row[o].date /\ ~ row[o].state /\ row[o].long
  /\ row[o].says = "offense" /\ row[r].says # "offense"

(* Where the cells are, their numbers and their words, in a row laid out. *)
LEMMA CellsOfRow ==
  ASSUME NEW dollar \in BOOLEAN, NEW long \in BOOLEAN, NEW marks \in BOOLEAN, NEW row,
         NEW d, NEW s, NEW r, NEW a, NEW o, LaidOut(row, d, s, r, a, o, dollar, long, marks)
  PROVE  Places(row, d, s, r, a, o)
BY DEF LaidOut, Places

(* So it has the numbers its cells have, each in its column. *)
LEMMA RowNumbered ==
  ASSUME NEW dollar \in BOOLEAN, NEW long \in BOOLEAN, NEW marks \in BOOLEAN, NEW row,
         NEW d, NEW s, NEW r, NEW a, NEW o, LaidOut(row, d, s, r, a, o, dollar, long, marks)
  PROVE  Numbers(row, d, s, r, a, o, dollar, marks)
<1>1. /\ row[d] = dateCell /\ row[s] = stateCell /\ row[r] = refCell(long)
      /\ row[a] = amountCell(dollar) /\ row[o] = offenseCell(marks)
  BY DEF LaidOut
<1>2. amountCell(dollar).number = written
  BY CellsNumbered, SMT DEF written
<1>3. dateCell.number = {15000} /\ refCell(long).number = {4321000} /\ stateCell.number = {}
  BY CellsNumbered, SMT
<1>4. /\ marks => offenseCell(marks).number = {0}
      /\ ~ marks => offenseCell(marks).number = {}
  BY CellsNumbered, SMT
<1>5. /\ dateCell.number # {} /\ refCell(long).number # {} /\ amountCell(dollar).number # {}
  BY <1>2, <1>3, OthersWritten, SMT
<1>6. /\ dateCell.number # written /\ refCell(long).number # written
      /\ stateCell.number # written
  BY <1>2, <1>3, OthersWritten, SMT
<1>7. offenseCell(marks).number # written
  BY <1>4, OthersWritten, SMT
<1>8. /\ ~ dateCell.dollar /\ ~ stateCell.dollar /\ ~ refCell(long).dollar
      /\ (amountCell(dollar).dollar <=> dollar) /\ ~ offenseCell(marks).dollar
  BY CellsNumbered, SMT
<1> QED  BY <1>1, <1>2, <1>3, <1>4, <1>5, <1>6, <1>7, <1>8, SMT DEF Numbers

(* And the words its cells have. *)
LEMMA RowWordy ==
  ASSUME NEW dollar \in BOOLEAN, NEW long \in BOOLEAN, NEW marks \in BOOLEAN, NEW row,
         NEW d, NEW s, NEW r, NEW a, NEW o, LaidOut(row, d, s, r, a, o, dollar, long, marks)
  PROVE  Words(row, d, s, r, o, long)
<1>1. /\ row[d] = dateCell /\ row[s] = stateCell /\ row[r] = refCell(long)
      /\ row[o] = offenseCell(marks)
  BY DEF LaidOut
<1>2. refCell(long).says # "offense"
  BY CellsWordy
<1> QED  BY <1>1, <1>2, CellsWordy DEF Words

ReadRow(row, dollar, byDollar, long, marks, d, r, a, o) ==
  /\ (parseRow(row, byDollar).amount = written) <=>
       IF byDollar THEN dollar ELSE a < d /\ a < r /\ (marks => a < o)
  /\ (byDollar => dollar) =>
       ((parseRow(row, byDollar).offense = "offense") <=>
          IF byDollar THEN long => o < r ELSE ~marks)

(* By the "$": the amount is that of its cell, and the offense comes first of the
   long texts.                                                            *)
LEMMA ReadByDollar ==
  ASSUME NEW dollar \in BOOLEAN, NEW long \in BOOLEAN, NEW marks \in BOOLEAN, NEW row,
         NEW d, NEW s, NEW r, NEW a, NEW o, LaidOut(row, d, s, r, a, o, dollar, long, marks)
  PROVE  ReadRow(row, dollar, TRUE, long, marks, d, r, a, o)
<1> DEFINE N == numbered(row, TRUE)
           W == wordy(row, TRUE)
<1>p. Places(row, d, s, r, a, o)
  BY CellsOfRow
<1>n. Numbers(row, d, s, r, a, o, dollar, marks)
  BY RowNumbered
<1>w. Words(row, d, s, r, o, long)
  BY RowWordy
<1>1. \A j \in 1 .. 5 : j \in N <=> row[j].number # {} /\ row[j].dollar
  BY <1>p DEF numbered, Places
<1>2. N \subseteq 1 .. 5 /\ W \subseteq 1 .. 5
  BY <1>p DEF numbered, wordy, Places
<1>3. \A j \in 1 .. 5 : j \in W <=> j \notin N /\ ~ row[j].date /\ ~ row[j].state /\ row[j].long
  BY <1>p DEF wordy, Places
<1>4. /\ parseRow(row, TRUE).amount = IF N = {} THEN {0} ELSE row[Min(N)].number
      /\ parseRow(row, TRUE).offense = IF W = {} THEN nothingSaid ELSE row[Min(W)].says
  BY RowInParts
<1> HIDE DEF N, W
<1>5. \A j \in 1 .. 5 : j \in N <=> j = a /\ dollar
  BY <1>1, <1>p, <1>n DEF Places, Numbers
<1>6. parseRow(row, TRUE).amount = written <=> dollar
  <2>1. CASE dollar
    <3>1. N = {a}
      BY <1>2, <1>5, <2>1, <1>p DEF Places
    <3>2. Min(N) = a
      BY <3>1, <1>p, MinAndMax DEF Places
    <3> QED  BY <1>4, <2>1, <3>1, <3>2, <1>n DEF Numbers
  <2>2. CASE ~ dollar
    <3>1. N = {}
      BY <1>2, <1>5, <2>2
    <3>2. written # {0}
      BY OthersWritten, SMT
    <3> QED  BY <1>4, <2>2, <3>1, <3>2
  <2> QED  BY <2>1, <2>2
<1>7. ASSUME dollar
      PROVE  parseRow(row, TRUE).offense = "offense" <=> (long => o < r)
  <2>1. \A j \in 1 .. 5 : j \in W <=> j = o \/ (j = r /\ long)
    BY <1>3, <1>5, <1>7, <1>p, <1>w DEF Places, Words
  <2>2. o \in W
    BY <2>1, <1>p DEF Places
  <2>3. Min(W) = o <=> \A y \in W : o <= y
    BY <1>2, <2>2, SmallestIs
  <2>4. (\A y \in W : o <= y) <=> (long => o < r)
    BY <1>2, <2>1, <1>p DEF Places
  <2>5. Min(W) \in W
    BY <1>2, <2>2, MinAndMax
  <2>6. Min(W) = o \/ Min(W) = r
    BY <1>2, <2>1, <2>5
  <2>7. parseRow(row, TRUE).offense = row[Min(W)].says
    BY <1>4, <2>2
  <2> QED  BY <2>3, <2>4, <2>6, <2>7, <1>w DEF Words
<1> QED  BY <1>6, <1>7 DEF ReadRow

(* By the first number: every number but the amount's must come after it, and an
   offense with a number in it is none.                                   *)
LEMMA ReadByFirstNumber ==
  ASSUME NEW dollar \in BOOLEAN, NEW long \in BOOLEAN, NEW marks \in BOOLEAN, NEW row,
         NEW d, NEW s, NEW r, NEW a, NEW o, LaidOut(row, d, s, r, a, o, dollar, long, marks)
  PROVE  ReadRow(row, dollar, FALSE, long, marks, d, r, a, o)
<1> DEFINE N == numbered(row, FALSE)
           W == wordy(row, FALSE)
<1>p. Places(row, d, s, r, a, o)
  BY CellsOfRow
<1>n. Numbers(row, d, s, r, a, o, dollar, marks)
  BY RowNumbered
<1>w. Words(row, d, s, r, o, long)
  BY RowWordy
<1>1. \A j \in 1 .. 5 : j \in N <=> row[j].number # {}
  BY <1>p DEF numbered, Places
<1>2. N \subseteq 1 .. 5 /\ W \subseteq 1 .. 5
  BY <1>p DEF numbered, wordy, Places
<1>3. \A j \in 1 .. 5 : j \in W <=> j \notin N /\ ~ row[j].date /\ ~ row[j].state /\ row[j].long
  BY <1>p DEF wordy, Places
<1>4. /\ parseRow(row, FALSE).amount = IF N = {} THEN {0} ELSE row[Min(N)].number
      /\ parseRow(row, FALSE).offense = IF W = {} THEN nothingSaid ELSE row[Min(W)].says
  BY RowInParts
<1> HIDE DEF N, W
<1>5. \A j \in 1 .. 5 : j \in N <=> j = d \/ j = r \/ j = a \/ (j = o /\ marks)
  BY <1>1, <1>p, <1>n DEF Places, Numbers
<1>6. parseRow(row, FALSE).amount = written <=> a < d /\ a < r /\ (marks => a < o)
  <2>1. a \in N
    BY <1>5, <1>p DEF Places
  <2>2. Min(N) = a <=> \A y \in N : a <= y
    BY <1>2, <2>1, SmallestIs
  <2>3. (\A y \in N : a <= y) <=> a < d /\ a < r /\ (marks => a < o)
    BY <1>2, <1>5, <1>p DEF Places
  <2>4. Min(N) \in N
    BY <1>2, <2>1, MinAndMax
  <2>5. Min(N) = a \/ row[Min(N)].number # written
    BY <1>2, <1>5, <2>4, <1>n DEF Numbers
  <2>6. parseRow(row, FALSE).amount = row[Min(N)].number
    BY <1>4, <2>1
  <2> QED  BY <2>2, <2>3, <2>5, <2>6, <1>n DEF Numbers
<1>7. parseRow(row, FALSE).offense = "offense" <=> ~marks
  <2>1. \A j \in 1 .. 5 : j \in W <=> j = o /\ ~marks
    BY <1>3, <1>5, <1>p, <1>w DEF Places, Words
  <2>2. CASE marks
    <3>1. W = {}
      BY <1>2, <2>1, <2>2
    <3> QED  BY <1>4, <2>2, <3>1, NothingIsNoOffense
  <2>3. CASE ~ marks
    <3>1. W = {o}
      BY <1>2, <2>1, <2>3, <1>p DEF Places
    <3>2. Min(W) = o
      BY <3>1, <1>p, MinAndMax DEF Places
    <3> QED  BY <1>4, <2>3, <3>1, <3>2, <1>w DEF Words
  <2> QED  BY <2>2, <2>3
<1> QED  BY <1>6, <1>7 DEF ReadRow

(* A row in any order is read as ReadsRows says. *)
LEMMA RowIsRead ==
  ASSUME NEW byDollar \in BOOLEAN, NEW dollar \in BOOLEAN, NEW long \in BOOLEAN,
         NEW marks \in BOOLEAN, NEW order \in Bijection(1 .. 5, 1 .. 5)
  PROVE  RowRead(parseRow(rowOf(order, dollar, long, marks), byDollar),
                 rowOf(order, dollar, long, marks), dollar, byDollar, long, marks)
<1> DEFINE row == rowOf(order, dollar, long, marks)
           parsed == parseRow(row, byDollar)
           digits == {dateCell, refCell(long)} \cup (IF marks THEN {offenseCell(marks)} ELSE {})
           seen == IF byDollar THEN dollar
                     ELSE \A c \in digits : placeOf(row, amountCell(dollar)) < placeOf(row, c)
           kept == IF byDollar
                     THEN long => placeOf(row, offenseCell(marks)) < placeOf(row, refCell(long))
                     ELSE ~marks
<1>0. CanBeLaidOut(row, dollar, long, marks)
  BY RowsLaidOut
<1>1. PICK d, s, r, a, o \in 1 .. 5 :
        LaidOut(row, d, s, r, a, o, dollar, long, marks)
  BY <1>0 DEF CanBeLaidOut
<1>2. ReadRow(row, dollar, byDollar, long, marks, d, r, a, o)
  <2>1. CASE byDollar
    <3>1. ReadRow(row, dollar, TRUE, long, marks, d, r, a, o)
      BY <1>1, ReadByDollar
    <3> QED  BY <2>1, <3>1
  <2>2. CASE ~ byDollar
    <3>1. ReadRow(row, dollar, FALSE, long, marks, d, r, a, o)
      BY <1>1, ReadByFirstNumber
    <3> QED  BY <2>2, <3>1
  <2> QED  BY <2>1, <2>2
<1> HIDE DEF row, parsed
<1>3. /\ placeOf(row, dateCell) = d /\ placeOf(row, refCell(long)) = r
      /\ placeOf(row, amountCell(dollar)) = a /\ placeOf(row, offenseCell(marks)) = o
  BY <1>1, CellsPlaced
<1>4. (\A c \in digits : placeOf(row, amountCell(dollar)) < placeOf(row, c))
        <=> a < d /\ a < r /\ (marks => a < o)
  BY <1>3
<1>5. /\ (parsed.amount = written) <=> seen
      /\ (byDollar => dollar) => ((parsed.offense = "offense") <=> kept)
  <2> HIDE DEF digits, parsed
  <2>1. seen <=> IF byDollar THEN dollar ELSE a < d /\ a < r /\ (marks => a < o)
    BY <1>4
  <2>2. kept <=> IF byDollar THEN long => o < r ELSE ~marks
    BY <1>3
  <2> QED  BY <1>2, <2>1, <2>2 DEF ReadRow, parsed
<1> HIDE DEF parsed
<1>6. RowRead(parsed, row, dollar, byDollar, long, marks)
  BY <1>5, SMT DEF RowRead, placeOf, written
<1> QED  BY <1>6 DEF parsed, row

(* RowsReadByColumn, by the parsers of the sites with tables. *)
LEMMA RowsRead == RowsReadByColumn
<1>1. \A byDollar, dollar, long, marks \in BOOLEAN, order \in Bijection(1 .. 5, 1 .. 5) :
        RowRead(parseRow(rowOf(order, dollar, long, marks), byDollar),
                rowOf(order, dollar, long, marks), dollar, byDollar, long, marks)
  BY RowIsRead
<1>2. TRUE \in BOOLEAN /\ FALSE \in BOOLEAN
  OBVIOUS
<1> QED
  BY <1>1, <1>2, Zenon DEF RowsReadByColumn, ReadsRows, parseSantaFeSegment,
     parseCorrientesRow, parseSIGEINRow, parseMendozaRow

-----------------------------------------------------------------------------
(* Lists: which rows are taken, and what each line says                    *)

(* firstOf: the first that is not blank, and blank where all are. *)
LEMMA FirstIs ==
  ASSUME NEW n \in Nat, NEW s, DOMAIN s = 1 .. n, NEW blank, NEW i \in 1 .. n,
         s[i] # blank, \A j \in 1 .. n : j < i => s[j] = blank
  PROVE  firstOf(s, blank) = s[i]
<1> DEFINE filled == {j \in DOMAIN s : s[j] # blank}
<1>1. filled \in SUBSET (1 .. n) /\ i \in filled /\ \A j \in filled : i <= j
  OBVIOUS
<1>2. firstOf(s, blank) = IF filled = {} THEN blank ELSE s[Min(filled)]
  BY Zenon DEF firstOf
<1> HIDE DEF filled
<1>3. Min(filled) = i
  BY <1>1, SmallestIs
<1> QED  BY <1>1, <1>2, <1>3

(* The first of two, if it is not blank, and the other if it is. *)
LEMMA FirstOfTwo ==
  ASSUME NEW s, DOMAIN s = 1 .. 2, NEW blank
  PROVE  firstOf(s, blank) = IF s[1] # blank THEN s[1] ELSE s[2]
<1> DEFINE filled == {j \in DOMAIN s : s[j] # blank}
<1>1. firstOf(s, blank) = IF filled = {} THEN blank ELSE s[Min(filled)]
  BY Zenon DEF firstOf
<1>2. /\ filled \in SUBSET (1 .. 2)
      /\ 1 \in filled <=> s[1] # blank
      /\ 2 \in filled <=> s[2] # blank
  OBVIOUS
<1> HIDE DEF filled
<1>3. ASSUME NEW i \in filled, \A y \in filled : i <= y
      PROVE  firstOf(s, blank) = s[i]
  <2>1. Min(filled) = i
    BY <1>2, <1>3, SmallestIs
  <2> QED  BY <1>1, <1>3, <2>1
<1>4. CASE s[1] # blank
  BY <1>2, <1>3, <1>4
<1>5. CASE s[1] = blank /\ s[2] # blank
  BY <1>2, <1>3, <1>5
<1>6. CASE s[1] = blank /\ s[2] = blank
  BY <1>1, <1>2, <1>6
<1> QED  BY <1>4, <1>5, <1>6

(* What the fields of a row of rowsOf read as. *)
FieldsRead(row, ref, n, names) ==
  /\ anyRef(row.refs) = ref
  /\ (~names => oneRef(row.refs) = ref)
  /\ nonZero(row.amounts) = 1000 * n
  /\ pbaPickAmount(row.amounts) = IF row.amounts[1] = plain(0) THEN 0 ELSE 1000 * n
  /\ oneAmount(row.amounts) = IF row.amounts[1] \in {<<>>, plain(0)} THEN 0 ELSE 1000 * n

(* A reference is read under either name. *)
LEMMA RefsRead ==
  ASSUME NEW ref, ref # nothingSaid, NEW refs, NEW names \in BOOLEAN,
         refs \in {<<ref, nothingSaid>>} \cup (IF names THEN {<<nothingSaid, ref>>} ELSE {})
  PROVE  anyRef(refs) = ref /\ (~names => oneRef(refs) = ref)
<1>1. anyRef(refs) = firstOf(refs, nothingSaid)
  BY Zenon DEF anyRef, nothingSaid
<1>2. /\ DOMAIN refs = 1 .. 2
      /\ \/ refs[1] = ref /\ refs[2] = nothingSaid
         \/ names /\ refs[1] = nothingSaid /\ refs[2] = ref
  <2>1. CASE refs = <<ref, nothingSaid>>
    BY <2>1
  <2>2. CASE names /\ refs = <<nothingSaid, ref>>
    BY <2>2
  <2> QED  BY <2>1, <2>2
<1>3. firstOf(refs, nothingSaid) = ref
  BY <1>2, FirstOfTwo
<1> QED  BY <1>1, <1>2, <1>3 DEF oneRef

(* The amounts of the rows, and of the fields that are zero or absent. *)
LEMMA PlainAmounts ==
  ASSUME NEW n \in Nat \ {0}
  PROVE  /\ parseAmount(plain(n)) = 1000 * n /\ parseAmount(plain(0)) = 0
         /\ parseAmount(<<>>) = 0 /\ 1000 * n # 0
         /\ plain(n) # plain(0) /\ plain(n) # <<>> /\ plain(0) # <<>>
<1>1. \A k \in Nat : Reads(group(NoMark, k, 7), 1000 * k)
  BY OneGroup
<1>2. \A k : plain(k) = group(NoMark, k, 7)
  BY Zenon DEF plain, NoMark
<1>6. /\ parseAmount(plain(n)) = 1000 * n
      /\ parseAmount(plain(0)) = 1000 * 0
  BY <1>1, <1>2 DEF Reads
<1>3. parseAmount(<<>>) = 0
  BY NoGroups DEF Reads
<1>4. plain(n) # <<>> /\ plain(0) # <<>>
  <2>1. \A k : plain(k) = <<[mark |-> NoMark, n |-> k, width |-> 7]>>
    BY Zenon DEF plain, group, NoMark
  <2> QED  BY <2>1
<1>5. 1000 * 0 = 0 /\ 1000 * n # 0
  OBVIOUS
<1> QED  BY <1>2, <1>3, <1>4, <1>5, <1>6

(* The fields of the rows of rowsOf read so. *)
LEMMA FieldsAreRead ==
  ASSUME NEW ref, ref # nothingSaid, NEW n \in Nat \ {0}, NEW names \in BOOLEAN,
         NEW row \in rowsOf(ref, n, names)
  PROVE  FieldsRead(row, ref, n, names)
<1>1. PICK refs, amounts :
        /\ row = [refs |-> refs, amounts |-> amounts]
        /\ refs \in {<<ref, nothingSaid>>} \cup (IF names THEN {<<nothingSaid, ref>>} ELSE {})
        /\ amounts \in {<<plain(n), <<>>>>, <<<<>>, plain(n)>>, <<plain(0), plain(n)>>}
  <2> DEFINE R == {<<ref, nothingSaid>>} \cup (IF names THEN {<<nothingSaid, ref>>} ELSE {})
             A == {<<plain(n), <<>>>>, <<<<>>, plain(n)>>, <<plain(0), plain(n)>>}
  <2>1. rowsOf(ref, n, names) = [refs : R, amounts : A]
    BY Zenon DEF rowsOf, nothingSaid
  <2> HIDE DEF R, A
  <2>2. \E r \in R, a \in A : row = [refs |-> r, amounts |-> a]
    BY <2>1
  <2> QED  BY <2>2 DEF R, A
<1>2. row.refs = refs /\ row.amounts = amounts
  BY <1>1
<1>3. anyRef(refs) = ref /\ (~names => oneRef(refs) = ref)
  BY <1>1, RefsRead
<1> DEFINE p == plain(n)
           z == plain(0)
           m == 1000 * n
           none == <<>>
<1>4. /\ parseAmount(p) = m /\ parseAmount(z) = 0 /\ parseAmount(none) = 0 /\ m # 0
      /\ p # z /\ p # none /\ z # none
  BY PlainAmounts
<1>5. amounts \in {<<p, none>>, <<none, p>>, <<z, p>>}
  BY <1>1
<1> HIDE DEF p, z, m, none
<1>6. /\ DOMAIN amounts = 1 .. 2
      /\ \/ amounts[1] = p /\ amounts[2] = none
         \/ amounts[1] = none /\ amounts[2] = p
         \/ amounts[1] = z /\ amounts[2] = p
  BY <1>5
<1>7. nonZero(amounts) = m
  <2> DEFINE read == [i \in DOMAIN amounts |-> chacoParseAmount(amounts[i])]
  <2>1. nonZero(amounts) = firstOf(read, 0)
    BY DEF nonZero
  <2>2. DOMAIN read = 1 .. 2 /\ read[1] = parseAmount(amounts[1]) /\ read[2] = parseAmount(amounts[2])
    BY <1>6 DEF chacoParseAmount
  <2> HIDE DEF read
  <2>3. firstOf(read, 0) = IF read[1] # 0 THEN read[1] ELSE read[2]
    BY <2>2, FirstOfTwo
  <2> QED  BY <1>4, <1>6, <2>1, <2>2, <2>3
<1>8. pbaPickAmount(amounts) = IF amounts[1] = z THEN 0 ELSE m
  <2>1. firstOf(amounts, none) = IF amounts[1] # none THEN amounts[1] ELSE amounts[2]
    BY <1>6, FirstOfTwo
  <2>2. pbaPickAmount(amounts) = parseAmount(firstOf(amounts, none))
    BY DEF pbaPickAmount, pbaParseAmount, none
  <2> QED  BY <1>4, <1>6, <2>1, <2>2
<1>9. oneAmount(amounts) = IF amounts[1] \in {none, z} THEN 0 ELSE m
  BY <1>4, <1>6 DEF oneAmount
<1> QED  BY <1>2, <1>3, <1>7, <1>8, <1>9 DEF FieldsRead, p, z, m, none

(* Lists with one row in the i-th and one in the j-th. *)
Placed(lists, n, i, j, r, s) ==
  /\ DOMAIN lists = 1 .. n
  /\ \A k \in 1 .. n :
       /\ k = i /\ k = j => lists[k] = <<r, s>>
       /\ k = i /\ k # j => lists[k] = <<r>>
       /\ k # i /\ k = j => lists[k] = <<s>>
       /\ k # i /\ k # j => lists[k] = <<>>

(* Two rows one after the other. *)
LEMMA TwoJoined ==
  ASSUME NEW x, NEW y
  PROVE  <<x>> \o <<y>> = <<x, y>>
<1> DEFINE S == {x, y}
           u == <<x>>
           v == <<y>>
           w == <<x, y>>
<1>1. u \in Seq(S) /\ v \in Seq(S) /\ w \in Seq(S)
  OBVIOUS
<1>2. Len(u) = 1 /\ Len(v) = 1 /\ Len(w) = 2 /\ u[1] = x /\ v[1] = y /\ w[1] = x /\ w[2] = y
  OBVIOUS
<1> HIDE DEF u, v, w, S
<1>3. u \o v \in Seq(S) /\ Len(u \o v) = 2 /\ (u \o v)[1] = x /\ (u \o v)[2] = y
  <2>1. /\ u \o v \in Seq(S) /\ Len(u \o v) = 1 + 1
        /\ \A i \in 1 .. 1 + 1 : (u \o v)[i] = IF i <= 1 THEN u[i] ELSE v[i - 1]
    BY <1>1, <1>2, ConcatProperties
  <2>2. 1 \in 1 .. 1 + 1 /\ 2 \in 1 .. 1 + 1 /\ 2 - 1 = 1 /\ 1 + 1 = 2
    OBVIOUS
  <2> QED  BY <1>2, <2>1, <2>2
<1>4. \A k \in 1 .. Len(w) : (u \o v)[k] = w[k]
  BY <1>2, <1>3
<1>5. u \o v = w
  BY <1>1, <1>2, <1>3, <1>4, SeqEqual
<1> QED  BY <1>5 DEF u, v, w

(* And every way the rows of two lists come together. *)
LEMMA Joined ==
  ASSUME NEW r, NEW s
  PROVE  /\ <<r>> \o <<s>> = <<r, s>> /\ <<r>> \o <<>> = <<r>> /\ <<>> \o <<s>> = <<s>>
         /\ <<>> \o <<>> = <<>> /\ <<r, s>> \o <<>> = <<r, s>> /\ <<>> \o <<r, s>> = <<r, s>>
         /\ <<s>> \o <<r>> = <<s, r>>
<1>1. <<r>> \o <<s>> = <<r, s>> /\ <<s>> \o <<r>> = <<s, r>>
  BY TwoJoined
<1>2. <<r>> \o <<>> = <<r>> /\ <<>> \o <<s>> = <<s>>
  OBVIOUS
<1>3. <<>> \o <<>> = <<>>
  OBVIOUS
<1>4. <<r, s>> \o <<>> = <<r, s>> /\ <<>> \o <<r, s>> = <<r, s>>
  OBVIOUS
<1> QED  BY <1>1, <1>2, <1>3, <1>4

(* place puts the rows where it says, and the first lists are as they were. *)
LEMMA RowsPlaced ==
  ASSUME NEW n \in 1 .. 5, NEW i \in 1 .. n, NEW j \in 1 .. n, NEW r, NEW s
  PROVE  /\ Placed(place(i, j, r, s), 5, i, j, r, s)
         /\ Placed(SubSeq(place(i, j, r, s), 1, n), n, i, j, r, s)
<1> DEFINE lists == place(i, j, r, s)
           Item(k) == (IF k = i THEN <<r>> ELSE <<>>) \o (IF k = j THEN <<s>> ELSE <<>>)
<1>1. lists = [k \in 1 .. 5 |-> Item(k)]
  BY DEF place
<1>2. \A k \in 1 .. 5 : Item(k) \in Seq({r, s})
  <2> DEFINE T == Seq({r, s})
  <2>1. <<r>> \in T /\ <<s>> \in T /\ <<>> \in T
    OBVIOUS
  <2>2. \A x, y \in T : x \o y \in T
    OBVIOUS
  <2> HIDE DEF T
  <2>3. \A k \in 1 .. 5 : Item(k) \in T
    BY <2>1, <2>2
  <2> QED  BY <2>3 DEF T
<1>3. \A k \in 1 .. 5 : /\ k = i /\ k = j => Item(k) = <<r, s>>
                        /\ k = i /\ k # j => Item(k) = <<r>>
                        /\ k # i /\ k = j => Item(k) = <<s>>
                        /\ k # i /\ k # j => Item(k) = <<>>
  BY Joined
<1> HIDE DEF Item, lists
<1>4. Placed(lists, 5, i, j, r, s)
  BY <1>1, <1>3 DEF Placed
<1>5. lists \in Seq(Seq({r, s})) /\ Len(lists) = 5
  <2> DEFINE T == Seq({r, s})
  <2> HIDE DEF T
  <2>1. \A k \in 1 .. 5 : Item(k) \in T
    BY <1>2 DEF T
  <2>2. lists \in Seq(T) /\ Len(lists) = 5
    <3>1. lists \in [1 .. 5 -> T] /\ DOMAIN lists = 1 .. 5
      BY <1>1, <2>1
    <3>2. [1 .. 5 -> T] \in {[1 .. m -> T] : m \in Nat}
      OBVIOUS
    <3>3. lists \in Seq(T)
      BY <3>1, <3>2, SeqDef, Zenon
    <3> QED  BY <3>1, <3>3
  <2> QED  BY <2>2 DEF T
<1>6. /\ Len(SubSeq(lists, 1, n)) = n /\ DOMAIN SubSeq(lists, 1, n) = 1 .. n
      /\ \A k \in 1 .. n : SubSeq(lists, 1, n)[k] = lists[k]
  BY <1>5
<1>7. Placed(SubSeq(lists, 1, n), n, i, j, r, s)
  BY <1>4, <1>6 DEF Placed
<1> QED  BY <1>4, <1>7 DEF lists

(* The first list with a row; and two lists together. *)
LEMMA FirstRows ==
  ASSUME NEW n \in Nat, NEW i \in 1 .. n, NEW j \in 1 .. n, NEW r, NEW s,
         NEW lists, Placed(lists, n, i, j, r, s)
  PROVE  /\ i = j => firstOf(lists, <<>>) = <<r, s>>
         /\ i < j => firstOf(lists, <<>>) = <<r>>
         /\ j < i => firstOf(lists, <<>>) = <<s>>
<1> DEFINE none == <<>>
<1>1. <<r, s>> # none /\ <<r>> # none /\ <<s>> # none
  OBVIOUS
<1>2. /\ DOMAIN lists = 1 .. n
      /\ \A k \in 1 .. n : /\ k = i /\ k = j => lists[k] = <<r, s>>
                           /\ k = i /\ k # j => lists[k] = <<r>>
                           /\ k # i /\ k = j => lists[k] = <<s>>
                           /\ k # i /\ k # j => lists[k] = none
  BY DEF Placed
<1> HIDE DEF none
<1>3. ASSUME NEW m \in 1 .. n, lists[m] # none, \A k \in 1 .. n : k < m => lists[k] = none
      PROVE  firstOf(lists, none) = lists[m]
  BY <1>2, <1>3, FirstIs
<1>4. ASSUME i = j
      PROVE  firstOf(lists, none) = <<r, s>>
  <2>1. lists[i] = <<r, s>> /\ \A k \in 1 .. n : k < i => lists[k] = none
    BY <1>2, <1>4
  <2> QED  BY <1>1, <1>3, <2>1
<1>5. ASSUME i < j
      PROVE  firstOf(lists, none) = <<r>>
  <2>1. lists[i] = <<r>> /\ \A k \in 1 .. n : k < i => lists[k] = none
    BY <1>2, <1>5
  <2> QED  BY <1>1, <1>3, <2>1
<1>6. ASSUME j < i
      PROVE  firstOf(lists, none) = <<s>>
  <2>1. lists[j] = <<s>> /\ \A k \in 1 .. n : k < j => lists[k] = none
    BY <1>2, <1>6
  <2> QED  BY <1>1, <1>3, <2>1
<1> QED  BY <1>4, <1>5, <1>6 DEF none

(* Of two lists read one after the other, the rows come in either order. *)
LEMMA RowsTogether ==
  ASSUME NEW i \in 1 .. 2, NEW j \in 1 .. 2, NEW r, NEW s,
         NEW lists, Placed(lists, 5, i, j, r, s)
  PROVE  lists[1] \o lists[2] \in {<<r, s>>, <<s, r>>}
<1>1. \/ lists[1] = <<r, s>> /\ lists[2] = <<>>
      \/ lists[1] = <<>> /\ lists[2] = <<r, s>>
      \/ lists[1] = <<r>> /\ lists[2] = <<s>>
      \/ lists[1] = <<s>> /\ lists[2] = <<r>>
  BY DEF Placed
<1> QED  BY <1>1, Joined

(* What is listed of the rows r and s, read as a and b. *)
LEMMA Gathered ==
  ASSUME NEW r, NEW s, NEW a, NEW b, NEW rows, NEW listed, DOMAIN listed = DOMAIN rows,
         \A k \in DOMAIN rows : /\ rows[k] = r => listed[k] = a
                                /\ rows[k] = s => listed[k] = b
  PROVE  /\ rows \in {<<r, s>>, <<s, r>>} => {listed[k] : k \in DOMAIN listed} = {a, b}
         /\ rows = <<r>> => {listed[k] : k \in DOMAIN listed} = {a}
         /\ rows = <<s>> => {listed[k] : k \in DOMAIN listed} = {b}
<1>1. ASSUME rows \in {<<r, s>>, <<s, r>>}
      PROVE  {listed[k] : k \in DOMAIN listed} = {a, b}
  <2>1. /\ DOMAIN rows = 1 .. 2
        /\ \/ rows[1] = r /\ rows[2] = s
           \/ rows[1] = s /\ rows[2] = r
    <3>1. CASE rows = <<r, s>>
      BY <3>1
    <3>2. CASE rows = <<s, r>>
      BY <3>2
    <3> QED  BY <1>1, <3>1, <3>2
  <2>2. 1 \in DOMAIN rows /\ 2 \in DOMAIN rows /\ \A k \in DOMAIN rows : k = 1 \/ k = 2
    BY <2>1
  <2>3. \/ listed[1] = a /\ listed[2] = b
        \/ listed[1] = b /\ listed[2] = a
    BY <2>1, <2>2
  <2> QED  BY <2>2, <2>3
<1>2. ASSUME rows = <<r>>
      PROVE  {listed[k] : k \in DOMAIN listed} = {a}
  <2>1. DOMAIN rows = {1} /\ listed[1] = a
    BY <1>2
  <2> QED  BY <2>1
<1>3. ASSUME rows = <<s>>
      PROVE  {listed[k] : k \in DOMAIN listed} = {b}
  <2>1. DOMAIN rows = {1} /\ listed[1] = b
    BY <1>3
  <2> QED  BY <2>1
<1> QED  BY <1>1, <1>2, <1>3

(* The lines of the rows r and s, and the rows a parser takes of its lists. *)
LinesOf(listed, rows, r, s, a, b) ==
  /\ DOMAIN listed = DOMAIN rows
  /\ \A k \in DOMAIN rows : /\ rows[k] = r => listed[k] = a
                            /\ rows[k] = s => listed[k] = b

RowsTaken(rows, i, j, r, s, together) ==
  /\ together => rows \in {<<r, s>>, <<s, r>>}
  /\ ~together => /\ i = j => rows = <<r, s>>
                  /\ i < j => rows = <<r>>
                  /\ j < i => rows = <<s>>

(* Lines of the rows that were taken are the lines meant. *)
LEMMA ListedInTurn ==
  ASSUME NEW i \in Nat, NEW j \in Nat, NEW r, NEW s, NEW a, NEW b, NEW rows, NEW listed,
         NEW together \in BOOLEAN, LinesOf(listed, rows, r, s, a, b),
         RowsTaken(rows, i, j, r, s, together)
  PROVE  ListsRead(listed, i, j, a, b, together)
<1> DEFINE all == {listed[k] : k \in DOMAIN listed}
<1>1. /\ rows \in {<<r, s>>, <<s, r>>} => all = {a, b}
      /\ rows = <<r>> => all = {a}
      /\ rows = <<s>> => all = {b}
  BY Gathered DEF LinesOf
<1> HIDE DEF all
<1>2. all = (IF together \/ i <= j THEN {a} ELSE {}) \cup (IF together \/ j <= i THEN {b} ELSE {})
  <2>1. CASE together
    <3>1. all = {a, b}
      BY <1>1, <2>1 DEF RowsTaken
    <3> QED  BY <2>1, <3>1
  <2>2. CASE ~together /\ i = j
    <3>1. all = {a, b}
      BY <1>1, <2>2 DEF RowsTaken
    <3> QED  BY <2>2, <3>1
  <2>3. CASE ~together /\ i < j
    <3>1. all = {a}
      BY <1>1, <2>3 DEF RowsTaken
    <3> QED  BY <2>3, <3>1
  <2>4. CASE ~together /\ j < i
    <3>1. all = {b}
      BY <1>1, <2>4 DEF RowsTaken
    <3> QED  BY <2>4, <3>1
  <2> QED  BY <2>1, <2>2, <2>3, <2>4
<1> QED  BY <1>2 DEF ListsRead, all

(* A row's line, by each way to read its fields. *)
LEMMA LinesRead ==
  ASSUME NEW ref, ref # nothingSaid, NEW n \in Nat \ {0}, NEW names \in BOOLEAN,
         NEW row \in rowsOf(ref, n, names)
  PROVE  /\ [ref |-> anyRef(row.refs), amount |-> nonZero(row.amounts)]
              = lineOf(ref, n, row, "both")
         /\ [ref |-> anyRef(row.refs), amount |-> pbaPickAmount(row.amounts)]
              = lineOf(ref, n, row, "counts")
         /\ [ref |-> anyRef(row.refs), amount |-> oneAmount(row.amounts)]
              = lineOf(ref, n, row, "one")
         /\ ~names => [ref |-> oneRef(row.refs), amount |-> nonZero(row.amounts)]
                        = lineOf(ref, n, row, "both")
<1> DEFINE m == 1000 * n
<1>1. /\ anyRef(row.refs) = ref /\ (~names => oneRef(row.refs) = ref)
      /\ nonZero(row.amounts) = m
      /\ pbaPickAmount(row.amounts) = IF row.amounts[1] = plain(0) THEN 0 ELSE m
      /\ oneAmount(row.amounts) = IF row.amounts[1] \in {<<>>, plain(0)} THEN 0 ELSE m
  BY FieldsAreRead DEF FieldsRead
<1>2. /\ lineOf(ref, n, row, "both") = [ref |-> ref, amount |-> m]
      /\ lineOf(ref, n, row, "counts")
           = [ref |-> ref, amount |-> IF row.amounts[1] = plain(0) THEN 0 ELSE m]
      /\ lineOf(ref, n, row, "one")
           = [ref |-> ref, amount |-> IF row.amounts[1] \in {<<>>, plain(0)} THEN 0 ELSE m]
  BY DEF lineOf
<1> HIDE DEF m
<1> QED  BY <1>1, <1>2

(* The two references are not blank. *)
LEMMA NamesSaid == "a" # nothingSaid /\ "b" # nothingSaid
BY Zenon DEF nothingSaid

(* The lines of some rows, by each way to read their fields. *)
AnyLines(rows) ==
  [k \in DOMAIN rows |-> [ref |-> anyRef(rows[k].refs), amount |-> nonZero(rows[k].amounts)]]
CountingLines(rows) ==
  [k \in DOMAIN rows |-> [ref |-> anyRef(rows[k].refs), amount |-> pbaPickAmount(rows[k].amounts)]]
OneLines(rows) ==
  [k \in DOMAIN rows |-> [ref |-> anyRef(rows[k].refs), amount |-> oneAmount(rows[k].amounts)]]
AloneLines(rows) ==
  [k \in DOMAIN rows |-> [ref |-> oneRef(rows[k].refs), amount |-> nonZero(rows[k].amounts)]]

LinesAre(listed, rows, r, s, how) ==
  LinesOf(listed, rows, r, s, lineOf("a", 1, r, how), lineOf("b", 2, s, how))

(* The rows of rowsOf, in whatever list, have the lines meant. *)
LEMMA LinesOfRows ==
  ASSUME NEW names \in BOOLEAN, NEW r \in rowsOf("a", 1, names), NEW s \in rowsOf("b", 2, names),
         NEW rows
  PROVE  /\ LinesAre(AnyLines(rows), rows, r, s, "both")
         /\ LinesAre(CountingLines(rows), rows, r, s, "counts")
         /\ LinesAre(OneLines(rows), rows, r, s, "one")
         /\ ~names => LinesAre(AloneLines(rows), rows, r, s, "both")
<1>1. 1 \in Nat \ {0} /\ 2 \in Nat \ {0}
  OBVIOUS
<1>2. ASSUME NEW k \in DOMAIN rows
      PROVE  /\ rows[k] = r => AnyLines(rows)[k] = lineOf("a", 1, r, "both")
             /\ rows[k] = s => AnyLines(rows)[k] = lineOf("b", 2, s, "both")
  <2>1. AnyLines(rows)[k] = [ref |-> anyRef(rows[k].refs), amount |-> nonZero(rows[k].amounts)]
    BY DEF AnyLines
  <2>2. [ref |-> anyRef(r.refs), amount |-> nonZero(r.amounts)] = lineOf("a", 1, r, "both")
    BY <1>1, NamesSaid, LinesRead
  <2>3. [ref |-> anyRef(s.refs), amount |-> nonZero(s.amounts)] = lineOf("b", 2, s, "both")
    BY <1>1, NamesSaid, LinesRead
  <2> QED  BY <2>1, <2>2, <2>3
<1>3. ASSUME NEW k \in DOMAIN rows
      PROVE  /\ rows[k] = r => CountingLines(rows)[k] = lineOf("a", 1, r, "counts")
             /\ rows[k] = s => CountingLines(rows)[k] = lineOf("b", 2, s, "counts")
  <2>1. CountingLines(rows)[k] = [ref |-> anyRef(rows[k].refs), amount |-> pbaPickAmount(rows[k].amounts)]
    BY DEF CountingLines
  <2>2. [ref |-> anyRef(r.refs), amount |-> pbaPickAmount(r.amounts)] = lineOf("a", 1, r, "counts")
    BY <1>1, NamesSaid, LinesRead
  <2>3. [ref |-> anyRef(s.refs), amount |-> pbaPickAmount(s.amounts)] = lineOf("b", 2, s, "counts")
    BY <1>1, NamesSaid, LinesRead
  <2> QED  BY <2>1, <2>2, <2>3
<1>4. ASSUME NEW k \in DOMAIN rows
      PROVE  /\ rows[k] = r => OneLines(rows)[k] = lineOf("a", 1, r, "one")
             /\ rows[k] = s => OneLines(rows)[k] = lineOf("b", 2, s, "one")
  <2>1. OneLines(rows)[k] = [ref |-> anyRef(rows[k].refs), amount |-> oneAmount(rows[k].amounts)]
    BY DEF OneLines
  <2>2. [ref |-> anyRef(r.refs), amount |-> oneAmount(r.amounts)] = lineOf("a", 1, r, "one")
    BY <1>1, NamesSaid, LinesRead
  <2>3. [ref |-> anyRef(s.refs), amount |-> oneAmount(s.amounts)] = lineOf("b", 2, s, "one")
    BY <1>1, NamesSaid, LinesRead
  <2> QED  BY <2>1, <2>2, <2>3
<1>5. ASSUME NEW k \in DOMAIN rows, ~names
      PROVE  /\ rows[k] = r => AloneLines(rows)[k] = lineOf("a", 1, r, "both")
             /\ rows[k] = s => AloneLines(rows)[k] = lineOf("b", 2, s, "both")
  <2>1. AloneLines(rows)[k] = [ref |-> oneRef(rows[k].refs), amount |-> nonZero(rows[k].amounts)]
    BY DEF AloneLines
  <2>2. [ref |-> oneRef(r.refs), amount |-> nonZero(r.amounts)] = lineOf("a", 1, r, "both")
    BY <1>1, <1>5, NamesSaid, LinesRead
  <2>3. [ref |-> oneRef(s.refs), amount |-> nonZero(s.amounts)] = lineOf("b", 2, s, "both")
    BY <1>1, <1>5, NamesSaid, LinesRead
  <2> QED  BY <2>1, <2>2, <2>3
<1>6. /\ DOMAIN AnyLines(rows) = DOMAIN rows /\ DOMAIN CountingLines(rows) = DOMAIN rows
      /\ DOMAIN OneLines(rows) = DOMAIN rows /\ DOMAIN AloneLines(rows) = DOMAIN rows
  BY DEF AnyLines, CountingLines, OneLines, AloneLines
<1> QED  BY <1>2, <1>3, <1>4, <1>5, <1>6 DEF LinesAre, LinesOf

(* The rows each kind of parser takes. *)
LEMMA RowsAreTaken ==
  ASSUME NEW n \in 1 .. 5, NEW i \in 1 .. n, NEW j \in 1 .. n, NEW r, NEW s
  PROVE  /\ RowsTaken(firstOf(SubSeq(place(i, j, r, s), 1, n), <<>>), i, j, r, s, FALSE)
         /\ n = 5 => RowsTaken(firstOf(place(i, j, r, s), <<>>), i, j, r, s, FALSE)
         /\ n = 2 => RowsTaken(place(i, j, r, s)[1] \o place(i, j, r, s)[2], i, j, r, s, TRUE)
         /\ n = 1 => RowsTaken(place(i, j, r, s)[1], i, j, r, s, TRUE)
<1> DEFINE lists == place(i, j, r, s)
<1>1. Placed(lists, 5, i, j, r, s) /\ Placed(SubSeq(lists, 1, n), n, i, j, r, s)
  BY RowsPlaced
<1> HIDE DEF lists
<1>2. RowsTaken(firstOf(SubSeq(lists, 1, n), <<>>), i, j, r, s, FALSE)
  BY <1>1, FirstRows DEF RowsTaken
<1>3. ASSUME n = 5
      PROVE  RowsTaken(firstOf(lists, <<>>), i, j, r, s, FALSE)
  BY <1>1, <1>3, FirstRows DEF RowsTaken
<1>4. ASSUME n = 2
      PROVE  RowsTaken(lists[1] \o lists[2], i, j, r, s, TRUE)
  BY <1>1, <1>4, RowsTogether DEF RowsTaken
<1>5. ASSUME n = 1
      PROVE  RowsTaken(lists[1], i, j, r, s, TRUE)
  <2>1. i = 1 /\ j = 1
    BY <1>5
  <2>2. lists[1] = <<r, s>>
    BY <1>1, <2>1 DEF Placed
  <2> QED  BY <2>2 DEF RowsTaken
<1> QED  BY <1>2, <1>3, <1>4, <1>5 DEF lists

(* Any parser that reads the lines of the rows it takes. *)
LEMMA ReadsThem ==
  ASSUME NEW i \in Nat, NEW j \in Nat, NEW r, NEW s, NEW how, NEW together \in BOOLEAN,
         NEW rows, NEW listed, LinesAre(listed, rows, r, s, how),
         RowsTaken(rows, i, j, r, s, together)
  PROVE  ListsRead(listed, i, j, lineOf("a", 1, r, how), lineOf("b", 2, s, how), together)
BY ListedInTurn DEF LinesAre

(* ListsReadInTurn, by the parsers of the sites that answer in JSON. *)
LEMMA ListsInTurn == ListsReadInTurn
<1>1. ASSUME NEW i \in 1 .. 5, NEW j \in 1 .. 5, NEW r \in rowsOf("a", 1, TRUE),
             NEW s \in rowsOf("b", 2, TRUE)
      PROVE  ListsRead(parseGenericJSONFines(place(i, j, r, s)), i, j, lineOf("a", 1, r, "both"),
                       lineOf("b", 2, s, "both"), FALSE)
  <2> DEFINE lists == place(i, j, r, s)
             rows == firstOf(lists, <<>>)
  <2>1. parseGenericJSONFines(lists) = AnyLines(rows)
    BY Zenon DEF parseGenericJSONFines, lines, AnyLines
  <2>2. LinesAre(AnyLines(rows), rows, r, s, "both")
    BY LinesOfRows
  <2>5. 5 \in 1 .. 5 /\ i \in Nat /\ j \in Nat
    OBVIOUS
  <2>3. RowsTaken(rows, i, j, r, s, FALSE)
    BY <2>5, RowsAreTaken
  <2> HIDE DEF rows, lists
  <2>4. ListsRead(AnyLines(rows), i, j, lineOf("a", 1, r, "both"), lineOf("b", 2, s, "both"), FALSE)
    BY <2>2, <2>3, <2>5, ReadsThem
  <2> QED  BY <2>1, <2>4 DEF lists
<1>2. ASSUME NEW i \in 1 .. 3, NEW j \in 1 .. 3, NEW r \in rowsOf("a", 1, TRUE),
             NEW s \in rowsOf("b", 2, TRUE)
      PROVE  ListsRead(parseSaltaResponse(place(i, j, r, s)), i, j, lineOf("a", 1, r, "both"),
                       lineOf("b", 2, s, "both"), FALSE)
  <2> DEFINE lists == place(i, j, r, s)
             rows == firstOf(SubSeq(lists, 1, 3), <<>>)
  <2>1. parseSaltaResponse(lists) = AnyLines(rows)
    BY Zenon DEF parseSaltaResponse, lines, AnyLines
  <2>2. LinesAre(AnyLines(rows), rows, r, s, "both")
    BY LinesOfRows
  <2>5. 3 \in 1 .. 5 /\ i \in Nat /\ j \in Nat
    OBVIOUS
  <2>3. RowsTaken(rows, i, j, r, s, FALSE)
    BY <2>5, RowsAreTaken
  <2> HIDE DEF rows, lists
  <2>4. ListsRead(AnyLines(rows), i, j, lineOf("a", 1, r, "both"), lineOf("b", 2, s, "both"), FALSE)
    BY <2>2, <2>3, <2>5, ReadsThem
  <2> QED  BY <2>1, <2>4 DEF lists
<1>3. ASSUME NEW i \in 1 .. 3, NEW j \in 1 .. 3, NEW r \in rowsOf("a", 1, TRUE),
             NEW s \in rowsOf("b", 2, TRUE)
      PROVE  ListsRead(parseJujuyResponse(place(i, j, r, s)), i, j, lineOf("a", 1, r, "both"),
                       lineOf("b", 2, s, "both"), FALSE)
  <2> DEFINE lists == place(i, j, r, s)
             rows == firstOf(SubSeq(lists, 1, 3), <<>>)
  <2>1. parseJujuyResponse(lists) = AnyLines(rows)
    BY Zenon DEF parseJujuyResponse, lines, AnyLines
  <2>2. LinesAre(AnyLines(rows), rows, r, s, "both")
    BY LinesOfRows
  <2>5. 3 \in 1 .. 5 /\ i \in Nat /\ j \in Nat
    OBVIOUS
  <2>3. RowsTaken(rows, i, j, r, s, FALSE)
    BY <2>5, RowsAreTaken
  <2> HIDE DEF rows, lists
  <2>4. ListsRead(AnyLines(rows), i, j, lineOf("a", 1, r, "both"), lineOf("b", 2, s, "both"), FALSE)
    BY <2>2, <2>3, <2>5, ReadsThem
  <2> QED  BY <2>1, <2>4 DEF lists
<1>4. ASSUME NEW i \in 1 .. 4, NEW j \in 1 .. 4, NEW r \in rowsOf("a", 1, TRUE),
             NEW s \in rowsOf("b", 2, TRUE)
      PROVE  ListsRead(parsePBAResponse(place(i, j, r, s)), i, j, lineOf("a", 1, r, "counts"),
                       lineOf("b", 2, s, "counts"), FALSE)
  <2> DEFINE lists == place(i, j, r, s)
             rows == firstOf(SubSeq(lists, 1, 4), <<>>)
  <2>1. parsePBAResponse(lists) = CountingLines(rows)
    BY Zenon DEF parsePBAResponse, lines, CountingLines
  <2>2. LinesAre(CountingLines(rows), rows, r, s, "counts")
    BY LinesOfRows
  <2>5. 4 \in 1 .. 5 /\ i \in Nat /\ j \in Nat
    OBVIOUS
  <2>3. RowsTaken(rows, i, j, r, s, FALSE)
    BY <2>5, RowsAreTaken
  <2> HIDE DEF rows, lists
  <2>4. ListsRead(CountingLines(rows), i, j, lineOf("a", 1, r, "counts"), lineOf("b", 2, s, "counts"), FALSE)
    BY <2>2, <2>3, <2>5, ReadsThem
  <2> QED  BY <2>1, <2>4 DEF lists
<1>5. ASSUME NEW i \in 1 .. 2, NEW j \in 1 .. 2, NEW r \in rowsOf("a", 1, FALSE),
             NEW s \in rowsOf("b", 2, FALSE)
      PROVE  ListsRead(parseChacoResponse(place(i, j, r, s)), i, j, lineOf("a", 1, r, "both"),
                       lineOf("b", 2, s, "both"), TRUE)
  <2> DEFINE lists == place(i, j, r, s)
             rows == lists[1] \o lists[2]
  <2>1. parseChacoResponse(lists) = AloneLines(rows)
    BY Zenon DEF parseChacoResponse, lines, AloneLines
  <2>2. LinesAre(AloneLines(rows), rows, r, s, "both")
    BY LinesOfRows
  <2>5. 2 \in 1 .. 5 /\ i \in Nat /\ j \in Nat
    OBVIOUS
  <2>3. RowsTaken(rows, i, j, r, s, TRUE)
    BY <2>5, RowsAreTaken
  <2> HIDE DEF rows, lists
  <2>4. ListsRead(AloneLines(rows), i, j, lineOf("a", 1, r, "both"), lineOf("b", 2, s, "both"), TRUE)
    BY <2>2, <2>3, <2>5, ReadsThem
  <2> QED  BY <2>1, <2>4 DEF lists
<1>6. ASSUME NEW i \in 1 .. 2, NEW j \in 1 .. 2, NEW r \in rowsOf("a", 1, TRUE),
             NEW s \in rowsOf("b", 2, TRUE)
      PROVE  ListsRead(parseCordobaResponse(place(i, j, r, s)), i, j, lineOf("a", 1, r, "one"),
                       lineOf("b", 2, s, "one"), TRUE)
  <2> DEFINE lists == place(i, j, r, s)
             rows == lists[1] \o lists[2]
  <2>1. parseCordobaResponse(lists) = OneLines(rows)
    BY Zenon DEF parseCordobaResponse, lines, OneLines
  <2>2. LinesAre(OneLines(rows), rows, r, s, "one")
    BY LinesOfRows
  <2>5. 2 \in 1 .. 5 /\ i \in Nat /\ j \in Nat
    OBVIOUS
  <2>3. RowsTaken(rows, i, j, r, s, TRUE)
    BY <2>5, RowsAreTaken
  <2> HIDE DEF rows, lists
  <2>4. ListsRead(OneLines(rows), i, j, lineOf("a", 1, r, "one"), lineOf("b", 2, s, "one"), TRUE)
    BY <2>2, <2>3, <2>5, ReadsThem
  <2> QED  BY <2>1, <2>4 DEF lists
<1>7. ASSUME NEW i \in 1 .. 1, NEW j \in 1 .. 1, NEW r \in rowsOf("a", 1, FALSE),
             NEW s \in rowsOf("b", 2, FALSE)
      PROVE  ListsRead(parseEntreRiosResponse(place(i, j, r, s)), i, j, lineOf("a", 1, r, "both"),
                       lineOf("b", 2, s, "both"), TRUE)
  <2> DEFINE lists == place(i, j, r, s)
             rows == lists[1]
  <2>1. parseEntreRiosResponse(lists) = AloneLines(rows)
    BY Zenon DEF parseEntreRiosResponse, lines, AloneLines
  <2>2. LinesAre(AloneLines(rows), rows, r, s, "both")
    BY LinesOfRows
  <2>5. 1 \in 1 .. 5 /\ i \in Nat /\ j \in Nat
    OBVIOUS
  <2>3. RowsTaken(rows, i, j, r, s, TRUE)
    BY <2>5, RowsAreTaken
  <2> HIDE DEF rows, lists
  <2>4. ListsRead(AloneLines(rows), i, j, lineOf("a", 1, r, "both"), lineOf("b", 2, s, "both"), TRUE)
    BY <2>2, <2>3, <2>5, ReadsThem
  <2> QED  BY <2>1, <2>4 DEF lists
<1>8. ASSUME NEW i \in 1 .. 1, NEW j \in 1 .. 1, NEW r \in rowsOf("a", 1, TRUE),
             NEW s \in rowsOf("b", 2, TRUE)
      PROVE  ListsRead(parseMisionesResponse(place(i, j, r, s)), i, j, lineOf("a", 1, r, "one"),
                       lineOf("b", 2, s, "one"), TRUE)
  <2> DEFINE lists == place(i, j, r, s)
             rows == lists[1]
  <2>1. parseMisionesResponse(lists) = OneLines(rows)
    BY Zenon DEF parseMisionesResponse, lines, OneLines
  <2>2. LinesAre(OneLines(rows), rows, r, s, "one")
    BY LinesOfRows
  <2>5. 1 \in 1 .. 5 /\ i \in Nat /\ j \in Nat
    OBVIOUS
  <2>3. RowsTaken(rows, i, j, r, s, TRUE)
    BY <2>5, RowsAreTaken
  <2> HIDE DEF rows, lists
  <2>4. ListsRead(OneLines(rows), i, j, lineOf("a", 1, r, "one"), lineOf("b", 2, s, "one"), TRUE)
    BY <2>2, <2>3, <2>5, ReadsThem
  <2> QED  BY <2>1, <2>4 DEF lists
<1> QED
  BY <1>1, <1>2, <1>3, <1>4, <1>5, <1>6, <1>7, <1>8, Zenon DEF ListsReadInTurn, ReadsLists

-----------------------------------------------------------------------------
(* What ListsReadAsMeant says of its sample pages, amounts, rows and lists: it
   is a constant, so that no step of Fetch has a part in it.              *)
THEOREM SamplesAreRead ==
  /\ AmountsReadAsWritten /\ CABAReadsOnce
  /\ RowsReadByColumn /\ ListsReadInTurn
  BY AmountsRead, CABAReads, RowsRead, ListsInTurn
=============================================================================
