------------------------------- MODULE Scrapers -------------------------------
(***************************************************************************)
(* The Fetch of one of the scraper providers, run by several requests at a *)
(* time.  All of them use the provider's one http.Client and so, where it  *)
(* has one, its cookie jar: the session a page was drawn for may not be    *)
(* the one in the jar by the time its form is sent.                        *)
(*                                                                         *)
(* The site is external, and as strict as a site can be: it opens a        *)
(* session for whoever comes without a live one, may forget it, and takes  *)
(* a form only in the session that its hidden fields were drawn for.  The  *)
(* plate of the query is "p", the other vehicle of the document is "q".    *)
(* What the pages with fines look like is the subject of ActaPages.        *)
(***************************************************************************)
EXTENDS Naturals, FiniteSets, ActaPages

CONSTANTS
  Requests,     \* goroutines inside Fetch
  Kinds,        \* which of the scrapers below may be the provider
  Sessions,     \* session cookies the site may hand out
  MaxTroubles,  \* bound on failures of the site and sessions it forgets
  None

ASSUME ScraperAssumption ==
  /\ MaxTroubles \in Nat /\ None \notin Sessions
  /\ IsFiniteSet(Requests) /\ IsFiniteSet(Sessions)
  /\ Cardinality(Sessions) > 2 * Cardinality(Requests) + 1

Vehicles == {"p", "q"}
Failures == {"refusal", "junk", "rowless", "blank", "cut", "down"}

-----------------------------------------------------------------------------
(* A scraper: which queries it supports and what it asks its site about for
   each; what it needs of the page it loads first; what each answer without
   fines is taken for, where "unsure" is an empty result of low confidence
   and "empty" one of any other ("none" is the site's own word for it, a
   "rowless" answer is well formed and has neither rows nor that word); whose
   plate it puts on the fines; and what it reads them from, one of the pages
   of ActaPages.  The fields a form has are taken to be the right ones, but
   where the code says they are not.                                      *)

everything == {"plate", "document", "both"}
plateFirst == [plate |-> "plate", document |-> "document", both |-> "plate"]

(* Only the notice is looked for: a page that is none of fines is none. *)
anyPage == [none |-> "empty", refusal |-> "empty", junk |-> "empty",
            rowless |-> "empty", blank |-> "empty", cut |-> "failed", down |-> "failed"]
(* JSON that does not parse is an error, JSON without rows is none of fines. *)
anyJSON == [anyPage EXCEPT !.junk = "failed", !.blank = "failed"]
(* What the site did not say is not claimed. *)
gradedPage == [anyPage EXCEPT !.refusal = "unsure", !.junk = "unsure",
                              !.rowless = "unsure", !.blank = "unsure"]

(* Slip: a query with both identifiers goes by the document. *)
CABADocumentFirst ==
  [queries |-> everything, asks |-> [plateFirst EXCEPT !.both = "document"],
   page |-> "none", takes |-> gradedPage,
   label |-> [plate |-> "asked", document |-> "blank", both |-> "asked"],
   reads |-> "actas"]

CABA ==
  [queries |-> everything, asks |-> plateFirst,
   page |-> "none", takes |-> gradedPage,
   label |-> [plate |-> "asked", document |-> "blank", both |-> "asked"],
   reads |-> "actas"]

(* Its page is fetched for the cookie alone. *)
SantaFe ==
  [queries |-> everything, asks |-> [plateFirst EXCEPT !.both = "document"],
   page |-> "cookie", takes |-> anyPage,
   label |-> [plate |-> "asked", document |-> "blank", both |-> "asked"],
   reads |-> "rows"]

(* A page that breaks off has no hidden fields, and the form is sent without. *)
Corrientes ==
  [queries |-> everything, asks |-> plateFirst,
   page |-> "fields", takes |-> anyPage,
   label |-> [plate |-> "asked", document |-> "blank", both |-> "asked"],
   reads |-> "rows"]

fetchSIGEIN ==
  [queries |-> {"plate", "both"}, asks |-> plateFirst,
   page |-> "fields", takes |-> anyPage,
   label |-> [q \in everything |-> "asked"],
   reads |-> "rows"]

RioTercero == fetchSIGEIN
RoqueSaenzPena == fetchSIGEIN
VillaAngostura == fetchSIGEIN
LomasDeZamora == fetchSIGEIN

(* It says it supports a document, and sends an empty plate for one. *)
TresDeFebrero ==
  [fetchSIGEIN EXCEPT !.queries = everything, !.asks.document = "nothing"]

SanMartin ==
  [queries |-> everything, asks |-> [plateFirst EXCEPT !.both = "both"],
   page |-> "fields", takes |-> [gradedPage EXCEPT !.cut = "unsure"],
   label |-> [plate |-> "asked", document |-> "document", both |-> "asked"],
   reads |-> "rows"]

(* The portal looks up accounts: the plate is sent for one, and whatever it
   says is of an account it does not know.                                *)
Tigre ==
  [queries |-> {"plate", "both"}, asks |-> [q \in everything |-> "nothing"],
   page |-> "fields", takes |-> [gradedPage EXCEPT !.cut = "unsure"],
   label |-> [q \in everything |-> "asked"],
   reads |-> "rows"]

LaMatanza == [SanMartin EXCEPT !.takes = [anyPage EXCEPT !.cut = "empty"]]

(* GXState is what its form is made of: without it there is none. *)
Mendoza ==
  [queries |-> everything, asks |-> plateFirst,
   page |-> "form", takes |-> anyPage,
   label |-> [plate |-> "asked", document |-> "document", both |-> "asked"],
   reads |-> "rows"]

EntreRios ==
  [queries |-> everything, asks |-> plateFirst, page |-> "none", takes |-> anyPage,
   label |-> [plate |-> "asked", document |-> "own", both |-> "asked"],
   reads |-> "lists"]

(* A 401, when the token has been changed, is not taken for an answer. *)
Misiones == [EntreRios EXCEPT !.takes.refusal = "unsure"]

(* An answer without its mark of success is an error, one with it and without
   rows its way to say that there are none.                               *)
Cordoba ==
  [queries |-> {"plate", "both"}, asks |-> plateFirst, page |-> "none",
   takes |-> [anyJSON EXCEPT !.refusal = "failed", !.rowless = "failed"],
   label |-> [q \in everything |-> "asked"],
   reads |-> "lists"]

Chaco ==
  [queries |-> everything, asks |-> plateFirst, page |-> "none", takes |-> anyJSON,
   label |-> [plate |-> "asked", document |-> "own", both |-> "asked"],
   reads |-> "lists"]

SantaRosa ==
  [queries |-> {"plate", "both"}, asks |-> plateFirst, page |-> "none",
   takes |-> anyJSON, label |-> [q \in everything |-> "asked"],
   reads |-> "lists"]

Avellaneda == SantaRosa
AlmiranteBrown == SantaRosa
Escobar == SantaRosa
Posadas == SantaRosa
VenadoTuerto == SantaRosa
Salta == SantaRosa
Jujuy == SantaRosa

(* A refusal carries an error flag or an HTTP status.  A page without the CSRF
   token goes unnoticed, and the search is sent without.                  *)
PBA ==
  [queries |-> everything, asks |-> plateFirst,
   page |-> "fields", takes |-> [anyJSON EXCEPT !.refusal = "failed"],
   label |-> [plate |-> "asked", document |-> "blank", both |-> "asked"],
   reads |-> "lists"]

AllScrapers ==
  {CABA, SantaFe, Corrientes, RioTercero, RoqueSaenzPena, VillaAngostura,
   LomasDeZamora, TresDeFebrero, SanMartin, Tigre, LaMatanza, Mendoza,
   EntreRios, Misiones, Cordoba, Chaco, SantaRosa, Avellaneda, AlmiranteBrown,
   Escobar, Posadas, VenadoTuerto, Salta, Jujuy, PBA}

ASSUME KindsAssumption == Kinds \subseteq AllScrapers

-----------------------------------------------------------------------------
VARIABLES
  kind,      \* the scraper
  jar,       \* the session cookie in its jar
  live,      \* sessions the site remembers
  troubles,  \* failures of the site and sessions it has forgotten
  pc,        \* "idle", "page" on its way, "form" in hand, "search" on its way
  query,     \* what the request names: a plate, a document or both
  cookie,    \* the cookie that left with what is on its way
  fields,    \* the session its hidden fields were drawn for
  said,      \* what Fetch has answered
  fines,     \* the fines in it: whose each is and whose plate it carries
  missed,    \* history: the vehicle had fines when Fetch said it had none
  disturbed, \* history: the site failed or changed sessions on the request
  refused    \* history: the site did not take its form

siteVars == <<jar, live, troubles>>
vars == <<kind, jar, live, troubles, pc, query, cookie, fields, said, fines,
          missed, disturbed, refused>>

TypeOK ==
  /\ kind \in Kinds
  /\ jar \in Sessions \cup {None} /\ live \subseteq Sessions
  /\ troubles \in 0 .. MaxTroubles
  /\ pc \in [Requests -> {"idle", "page", "form", "search"}]
  /\ query \in [Requests -> everything]
  /\ cookie \in [Requests -> Sessions \cup {None}]
  /\ fields \in [Requests -> Sessions \cup {None}]
  /\ said \in [Requests -> {"nothing", "failed", "unsure", "empty", "list"}]
  /\ fines \in [Requests -> SUBSET (Vehicles \X {"p", "q", "blank", "document"})]
  /\ missed \in [Requests -> BOOLEAN]
  /\ disturbed \in [Requests -> BOOLEAN]
  /\ refused \in [Requests -> BOOLEAN]

Init ==
  /\ kind \in Kinds
  /\ jar = None /\ live = {} /\ troubles = 0
  /\ pc = [c \in Requests |-> "idle"]
  /\ query = [c \in Requests |-> "plate"]
  /\ cookie = [c \in Requests |-> None]
  /\ fields = [c \in Requests |-> None]
  /\ said = [c \in Requests |-> "nothing"]
  /\ fines = [c \in Requests |-> {}]
  /\ missed = [c \in Requests |-> FALSE]
  /\ disturbed = [c \in Requests |-> FALSE]
  /\ refused = [c \in Requests |-> FALSE]

-----------------------------------------------------------------------------
(* The site *)

held == {cookie[c] : c \in Requests} \cup {fields[c] : c \in Requests}

(* Who comes with a cookie the site does not know gets a session of its own,
   and the client's jar its cookie; sessions nobody holds are over.       *)
Visit(c) ==
  IF cookie[c] \in live
    THEN UNCHANGED <<jar, live>>
    ELSE LET s == CHOOSE x \in Sessions : x \notin held \cup {jar}
         IN  /\ jar' = s
             /\ live' = (live \cap held) \cup {s}

visited(c) == IF cookie[c] \in live THEN cookie[c] ELSE jar'

(* Those with a form in hand, about to be sent with the jar's cookie. *)
disturbs(c) ==
  disturbed' = [d \in Requests |->
    disturbed[d] \/ (d # c /\ pc[d] \in {"page", "form"} /\ jar' # jar)]

takesForm(c) ==
  \/ kind.page = "none"
  \/ cookie[c] \in live /\ (kind.page = "cookie" \/ fields[c] = cookie[c])

(* Which vehicles a search finds fines for, when those of F have some. *)
found(c, F) ==
  LET of == [plate |-> {"p"}, document |-> Vehicles, nothing |-> {}]
  IN  IF kind.asks[query[c]] = "both"
        THEN {F \cap of["plate"], F \cap of["document"]}
        ELSE {F \cap of[kind.asks[query[c]]]}

about(c) == IF query[c] = "document" THEN Vehicles ELSE {"p"}

plateOn(c, v) ==
  [asked |-> "p", blank |-> "blank", own |-> v, document |-> "document"]
    [kind.label[query[c]]]

(* Fetch answers; what it was about is kept for the properties. *)
answer(c, what, found_, F) ==
  /\ pc' = [pc EXCEPT ![c] = "idle"]
  /\ cookie' = [cookie EXCEPT ![c] = None]
  /\ fields' = [fields EXCEPT ![c] = None]
  /\ said' = [said EXCEPT ![c] = what]
  /\ fines' = [fines EXCEPT ![c] = {<<v, plateOn(c, v)>> : v \in found_}]
  /\ missed' = [missed EXCEPT ![c] = what = "empty" /\ F \cap about(c) # {}]

-----------------------------------------------------------------------------
(* Slip: the page is asked for by a client without the jar. *)
FetchBare(c, q) ==
  /\ pc[c] = "idle" /\ q \in kind.queries
  /\ pc' = [pc EXCEPT ![c] = IF kind.page = "none" THEN "form" ELSE "page"]
  /\ query' = [query EXCEPT ![c] = q]
  /\ cookie' = [cookie EXCEPT ![c] = None]
  /\ said' = [said EXCEPT ![c] = "nothing"]
  /\ fines' = [fines EXCEPT ![c] = {}]
  /\ missed' = [missed EXCEPT ![c] = FALSE]
  /\ disturbed' = [disturbed EXCEPT ![c] = FALSE]
  /\ refused' = [refused EXCEPT ![c] = FALSE]
  /\ UNCHANGED <<kind, siteVars, fields>>

Fetch(c, q) ==
  /\ pc[c] = "idle" /\ q \in kind.queries
  /\ pc' = [pc EXCEPT ![c] = IF kind.page = "none" THEN "form" ELSE "page"]
  /\ query' = [query EXCEPT ![c] = q]
  /\ cookie' = [cookie EXCEPT ![c] = IF kind.page = "none" THEN None ELSE jar]
  /\ said' = [said EXCEPT ![c] = "nothing"]
  /\ fines' = [fines EXCEPT ![c] = {}]
  /\ missed' = [missed EXCEPT ![c] = FALSE]
  /\ disturbed' = [disturbed EXCEPT ![c] = FALSE]
  /\ refused' = [refused EXCEPT ![c] = FALSE]
  /\ UNCHANGED <<kind, siteVars, fields>>

(* The page of the first request arrives. *)
PageLoaded(c) ==
  /\ pc[c] = "page"
  /\ Visit(c) /\ disturbs(c)
  /\ pc' = [pc EXCEPT ![c] = "form"]
  /\ fields' = [fields EXCEPT ![c] = IF kind.page = "cookie" THEN None ELSE visited(c)]
  /\ cookie' = [cookie EXCEPT ![c] = None]
  /\ UNCHANGED <<kind, troubles, query, said, fines, missed, refused>>

(* It arrives without its hidden fields or its token, which nobody notices but
   who makes the form out of them.                                        *)
PageBroken(c) ==
  /\ pc[c] = "page" /\ kind.page # "form"
  /\ troubles < MaxTroubles /\ troubles' = troubles + 1
  /\ Visit(c)
  /\ disturbed' = [d \in Requests |->
       disturbed[d] \/ d = c \/ (pc[d] \in {"page", "form"} /\ jar' # jar)]
  /\ pc' = [pc EXCEPT ![c] = "form"]
  /\ cookie' = [cookie EXCEPT ![c] = None]
  /\ UNCHANGED <<kind, query, fields, said, fines, missed, refused>>

PageFails(c) ==
  /\ pc[c] = "page"
  /\ troubles < MaxTroubles /\ troubles' = troubles + 1
  /\ answer(c, "failed", {}, {})
  /\ UNCHANGED <<kind, jar, live, query, disturbed, refused>>

(* Slip: the form is sent by a client without the jar. *)
SendFormBare(c) ==
  /\ pc[c] = "form"
  /\ pc' = [pc EXCEPT ![c] = "search"]
  /\ UNCHANGED <<kind, siteVars, query, cookie, fields, said, fines, missed,
                 disturbed, refused>>

(* The form leaves with whatever cookie the jar holds now. *)
SendForm(c) ==
  /\ pc[c] = "form"
  /\ pc' = [pc EXCEPT ![c] = "search"]
  /\ cookie' = [cookie EXCEPT ![c] = IF kind.page = "none" THEN None ELSE jar]
  /\ UNCHANGED <<kind, siteVars, query, fields, said, fines, missed, disturbed, refused>>

(* The site takes the form, and says what it knows. *)
Answered(c) ==
  /\ pc[c] = "search" /\ takesForm(c)
  /\ \E F \in SUBSET Vehicles : \E hits \in found(c, F) :
       answer(c, IF hits = {} THEN kind.takes.none ELSE "list", hits, F)
  /\ UNCHANGED <<kind, siteVars, query, disturbed, refused>>

(* It does not: hidden fields and cookie are of different sessions, or the
   session is gone.                                                       *)
Refused(c) ==
  /\ pc[c] = "search" /\ ~takesForm(c)
  /\ Visit(c) /\ disturbs(c)
  /\ \E F \in SUBSET Vehicles : answer(c, kind.takes.refusal, {}, F)
  /\ refused' = [refused EXCEPT ![c] = TRUE]
  /\ UNCHANGED <<kind, troubles, query>>

SearchFails(c) ==
  /\ pc[c] = "search"
  /\ troubles < MaxTroubles /\ troubles' = troubles + 1
  /\ \E f \in Failures, F \in SUBSET Vehicles : answer(c, kind.takes[f], {}, F)
  /\ disturbed' = [disturbed EXCEPT ![c] = TRUE]
  /\ UNCHANGED <<kind, jar, live, query, refused>>

(* The site forgets a session. *)
Forget(s) ==
  /\ s \in live
  /\ troubles < MaxTroubles /\ troubles' = troubles + 1
  /\ live' = live \ {s}
  /\ disturbed' = [c \in Requests |-> disturbed[c] \/ pc[c] # "idle"]
  /\ UNCHANGED <<kind, jar, pc, query, cookie, fields, said, fines, missed, refused>>

Step(c) ==
  \/ PageLoaded(c) \/ PageBroken(c) \/ PageFails(c)
  \/ SendForm(c) \/ Answered(c) \/ Refused(c) \/ SearchFails(c)

Next ==
  \/ \E c \in Requests : Step(c) \/ \E q \in everything : Fetch(c, q)
  \/ \E s \in Sessions : Forget(s)

Spec == Init /\ [][Next]_vars

-----------------------------------------------------------------------------
(* "No fines" is never said of a vehicle that has some while the site works:
   a provider says so wrongly only when its site failed in the middle of
   the search or another request changed the session under it, and only if
   it takes a refusal or an answer without rows for one.  Two exceptions are
   asked about nothing: Tres de Febrero by document, and Tigre always, as its
   portal knows accounts and no plates.                                   *)
NoFinesIsTrue ==
  \A c \in Requests : missed[c] =>
    \/ disturbed[c] /\ kind \notin {CABA, SanMartin, Cordoba}
    \/ kind = TresDeFebrero /\ query[c] = "document"
    \/ kind = Tigre

(* A fine carries the plate of its own vehicle or none, whatever the query
   named, with two exceptions.  Santa Fe, San Martin and La Matanza, asked
   with both, search by the document or send both and leave the choice to
   the site, and write the plate on all that is found, on the fines of the
   document's other vehicles too.
   San Martin, La Matanza and Mendoza, asked by document, write the document
   in the plate's place.                                                  *)
FinesAreLabelledTruly ==
  \A c \in Requests : \A f \in fines[c] :
    \/ f[2] \in {f[1], "blank"}
    \/ kind \in {SantaFe, SanMartin, LaMatanza} /\ query[c] = "both"
    \/ kind \in {SanMartin, LaMatanza, Mendoza} /\ query[c] = "document"

(* The fines of an answer are read as they are written, each once: an acta of
   CABA's page wherever its header and checkbox stand, a row by the order of
   its columns, the rows of whichever list a JSON answer has them in; and so
   are amounts, but for whole pesos with their thousands marked.          *)
ListsReadAsMeant ==
  \A c \in Requests : said[c] = "list" =>
    /\ AmountsReadAsWritten
    /\ kind.reads = "actas" => CABAReadsOnce
    /\ kind.reads = "rows" => RowsReadByColumn
    /\ kind.reads = "lists" => ListsReadInTurn

(* The shared jar settles: once the site works and keeps its sessions, no form
   is refused any more, however the requests that share the jar overlap.  *)
SessionsSettle == <>[][\A c \in Requests : refused'[c] => refused[c]]_vars
=============================================================================
