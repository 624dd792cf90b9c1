------------------------------ MODULE ActaPages -------------------------------
(***************************************************************************)
(* How the scrapers read the fines in an answer: amounts written in words  *)
(* of digits, the two halves of CABA's page, rows of table cells, and the  *)
(* lists of a JSON answer.  Dates are left out, and so is markup: a row is *)
(* its cells, and a cell what the scrapers' expressions find in its text.  *)
(***************************************************************************)
EXTENDS Naturals, Sequences, FiniteSets, SequencesExt, TLC

(* The first of s that is not blank, as the parsers take it from fields that
   stand for each other.                                                  *)
firstOf(s, blank) ==
  LET filled == {i \in DOMAIN s : s[i] # blank}
  IN  IF filled = {} THEN blank ELSE s[Min(filled)]

-----------------------------------------------------------------------------
(* Amounts, in thousandths of a peso.  A text is its groups of digits, each
   with the mark before it.  With both marks in it a point is taken out and a
   comma is the decimal one; with one of them, that is; two decimal marks are
   not a number.                                                          *)
parseAmount(text) ==
  LET comma   == \E i \in DOMAIN text : text[i].mark = ","
      decimal == {i \in DOMAIN text :
                    text[i].mark = "," \/ (text[i].mark = "." /\ ~comma)}
      digits  == FoldLeft(LAMBDA n, g : n * 10 ^ g.width + g.n, 0, text)
      after   == FoldLeft(LAMBDA n, i : n + IF i < Min(decimal) THEN 0 ELSE text[i].width,
                          0, [i \in DOMAIN text |-> i])
  IN  CASE decimal = {}              -> 1000 * digits
        [] Cardinality(decimal) = 1  -> digits * 10 ^ (3 - after)
        [] OTHER                     -> 0

pbaParseAmount(text) == parseAmount(text)

(* JSON has numbers, which read as their digits, and texts; a field that is
   absent is <<>>.                                                        *)
chacoParseAmount(v) == parseAmount(v)

-----------------------------------------------------------------------------
(* CABA's page: an acta that can be paid has a checkbox with all about it but
   its controller; every acta has a header.                              *)

controllerOf(page, ref) ==
  LET of == {i \in DOMAIN page.headers : page.headers[i].ref = ref}
  IN  IF of = {} THEN "" ELSE page.headers[Max(of)].controller

fineOf(page, acta) ==
  [ref |-> acta.ref, amount |-> acta.amount, controller |-> controllerOf(page, acta.ref)]

fromBoxes(page) == [i \in DOMAIN page.boxes |-> fineOf(page, page.boxes[i])]

(* Slip: actas already read from their checkbox are not skipped. *)
parseCABAActasTwice(page) ==
  fromBoxes(page) \o [i \in DOMAIN page.headers |-> fineOf(page, page.headers[i])]

parseCABAActas(page) ==
  FoldLeft(LAMBDA read, header :
             IF header.ref # "" /\ \E i \in DOMAIN read : read[i].ref = header.ref
               THEN read
               ELSE Append(read, fineOf(page, header)),
           fromBoxes(page), page.headers)

-----------------------------------------------------------------------------
(* Rows.  Of a cell is kept what it says; the number that the first run of
   digits, points and commas in it makes, if it has one; and whether it has
   a "$", looks like a date or a state, and is longer than five letters.  *)

(* Santa Fe takes the number after a "$" for the amount, the others the first
   one in the row; the offense is the first long text that is none of date,
   amount and state.                                                      *)
parseRow(row, dollar) ==
  LET importe == {i \in DOMAIN row : row[i].number # {} /\ (dollar => row[i].dollar)}
      words   == {i \in DOMAIN row \ importe :
                    ~row[i].date /\ ~row[i].state /\ row[i].long}
  IN  [amount  |-> IF importe = {} THEN {0} ELSE row[Min(importe)].number,
       offense |-> IF words = {} THEN "" ELSE row[Min(words)].says]

parseSantaFeSegment(row) == parseRow(row, TRUE)
parseCorrientesRow(row) == parseRow(row, FALSE)
parseSIGEINRow(row) == parseRow(row, FALSE)
parseMendozaRow(row) == parseRow(row, FALSE)

-----------------------------------------------------------------------------
(* JSON answers: their lists of rows, in the order they are tried; of a row
   the fields that may hold its reference and its amount.                 *)

lines(rows, ref(_), amount(_)) ==
  [i \in DOMAIN rows |-> [ref |-> ref(rows[i].refs), amount |-> amount(rows[i].amounts)]]

anyRef(refs) == firstOf(refs, "")
oneRef(refs) == refs[1]

nonZero(amounts) ==
  firstOf([i \in DOMAIN amounts |-> chacoParseAmount(amounts[i])], 0)
oneAmount(amounts) == parseAmount(amounts[1])

(* An amount that is there is taken, were it zero. *)
pbaPickAmount(amounts) == pbaParseAmount(firstOf(amounts, <<>>))

(* multas, data, infracciones, items, result *)
parseGenericJSONFines(lists) == lines(firstOf(lists, <<>>), anyRef, nonZero)
parseSaltaResponse(lists) == lines(firstOf(SubSeq(lists, 1, 3), <<>>), anyRef, nonZero)
parseJujuyResponse(lists) == lines(firstOf(SubSeq(lists, 1, 3), <<>>), anyRef, nonZero)

(* infracciones, actas, data.infracciones, data.actas *)
parsePBAResponse(lists) == lines(firstOf(SubSeq(lists, 1, 4), <<>>), anyRef, pbaPickAmount)

(* fotomultas, caminera *)
parseChacoResponse(lists) == lines(lists[1] \o lists[2], oneRef, nonZero)

(* What is owed, and what is before a judge. *)
parseCordobaResponse(lists) == lines(lists[1] \o lists[2], anyRef, oneAmount)

parseEntreRiosResponse(lists) == lines(lists[1], oneRef, nonZero)
parseMisionesResponse(lists) == lines(lists[1], anyRef, oneAmount)

-----------------------------------------------------------------------------
(* What the sites write, over small ranges. *)

group(mark, n, width) == <<[mark |-> mark, n |-> n, width |-> width]>>

plain(n) == group("", n, 7)
million == 1000000
grouped(n) ==
  CASE n < 1000 -> group("", n, 3)
    [] n \in 1000 .. million - 1 -> group("", n \div 1000, 3) \o group(".", n % 1000, 3)
    [] OTHER -> group("", n \div million, 3) \o group(".", (n \div 1000) % 1000, 3)
                  \o group(".", n % 1000, 3)

(* Any amount with its cents, and any below a thousand; one of whole pesos
   with its thousands marked is a thousandth of what it should be, and from
   a million on nothing.                                                  *)
someAmounts == {0, 7, 850, 1234, 85000, 1234567}

ReadsAmounts(parse(_)) ==
  \A n \in someAmounts :
    /\ \A c \in {0, 5, 50} :
         \A text \in {plain(n) \o group(",", c, 2), plain(n) \o group(".", c, 2),
                      grouped(n) \o group(",", c, 2)} :
           parse(text) = 1000 * n + 10 * c
    /\ parse(plain(n)) = 1000 * n
    /\ parse(grouped(n)) = CASE n < 1000                  -> 1000 * n
                             [] n \in 1000 .. million - 1 -> n
                             [] OTHER                     -> 0

AmountsReadAsWritten ==
  /\ ReadsAmounts(parseAmount)
  /\ ReadsAmounts(chacoParseAmount)
  /\ ReadsAmounts(pbaParseAmount)

(* CABA's page of two actas, each with a header, in any order, and perhaps
   listed twice; a checkbox for some.                                     *)
acta(ref) == [ref |-> ref, amount |-> IF ref = "a" THEN 1 ELSE 2,
              controller |-> IF ref = "a" THEN "x" ELSE "y"]
some(refs) == [i \in DOMAIN refs |-> acta(refs[i])]

ReadsOnce(parse(_)) ==
  \A boxes \in {<<>>, <<"a">>, <<"b">>, <<"a", "b">>, <<"b", "a">>},
     headers \in {<<"a", "b">>, <<"b", "a">>, <<"a", "b", "a">>, <<"b", "b", "a">>} :
    LET listed == parse([boxes |-> some(boxes), headers |-> some(headers)])
    IN  /\ Len(listed) = 2
        /\ {listed[i] : i \in 1 .. 2} = {acta("a"), acta("b")}

CABAReadsOnce == ReadsOnce(parseCABAActas)

(* A row's five cells, in any order. *)
cell == [says |-> "text", number |-> {}, dollar |-> FALSE, date |-> FALSE,
         state |-> FALSE, long |-> TRUE]
dateCell == [cell EXCEPT !.says = "15/03/2024", !.number = {15000}, !.date = TRUE]
stateCell == [cell EXCEPT !.says = "PENDIENTE", !.state = TRUE]
refCell(long) == [cell EXCEPT !.says = "4321", !.number = {4321000}, !.long = long]
amountCell(dollar) == [cell EXCEPT !.says = "85000.50", !.number = {85000500},
                                   !.dollar = dollar]
offenseCell(marks) == [cell EXCEPT !.says = "offense",
                                   !.number = IF marks THEN {0} ELSE {}]

rowOf(order, dollar, long, marks) ==
  [i \in 1 .. 5 |->
     <<dateCell, stateCell, refCell(long), amountCell(dollar), offenseCell(marks)>>[order[i]]]

(* With a "$" before it the amount is read in any order of the columns; without,
   only if no date, number, point or comma comes before it, and an offense with
   a point or a comma is lost.  By the "$", the offense is lost to a long
   reference before it.                                                   *)
RowRead(parsed, row, dollar, byDollar, long, marks) ==
  LET at(c)  == CHOOSE i \in DOMAIN row : row[i] = c
      digits == {dateCell, refCell(long)} \cup (IF marks THEN {offenseCell(marks)} ELSE {})
      seen   == IF byDollar THEN dollar
                  ELSE \A c \in digits : at(amountCell(dollar)) < at(c)
      kept   == IF byDollar THEN long => at(offenseCell(marks)) < at(refCell(long)) ELSE ~marks
  IN  /\ (parsed.amount = {85000500}) <=> seen
      /\ (byDollar => dollar) => ((parsed.offense = "offense") <=> kept)

ReadsRows(parse(_), byDollar) ==
  \A dollar, long, marks \in BOOLEAN, order \in Bijection(1 .. 5, 1 .. 5) :
    LET row == rowOf(order, dollar, long, marks)
    IN  RowRead(parse(row), row, dollar, byDollar, long, marks)

RowsReadByColumn ==
  /\ ReadsRows(parseSantaFeSegment, TRUE)
  /\ ReadsRows(parseCorrientesRow, FALSE)
  /\ ReadsRows(parseSIGEINRow, FALSE)
  /\ ReadsRows(parseMendozaRow, FALSE)

(* Two rows in any two of the lists, their fields under either name, perhaps
   with a zero under the name that is tried first.                        *)
rowsOf(ref, n, names) ==
  [refs    : {<<ref, "">>} \cup (IF names THEN {<<"", ref>>} ELSE {}),
   amounts : {<<plain(n), <<>>>>, <<<<>>, plain(n)>>, <<plain(0), plain(n)>>}]

place(i, j, r, s) ==
  [k \in 1 .. 5 |-> (IF k = i THEN <<r>> ELSE <<>>) \o (IF k = j THEN <<s>> ELSE <<>>)]

(* The rows of the first list that has any are all read, those of the others
   only where the lists go together.  An amount is read under both its names,
   hidden only where the first one that is there "counts", or lost under the
   second where there is but "one".                                       *)
lineOf(ref, n, row, amounts) ==
  LET lost == \/ amounts = "counts" /\ row.amounts[1] = plain(0)
              \/ amounts = "one" /\ row.amounts[1] \in {<<>>, plain(0)}
  IN  [ref |-> ref, amount |-> IF lost THEN 0 ELSE 1000 * n]

ListsRead(listed, i, j, a, b, together) ==
  {listed[k] : k \in DOMAIN listed} = (IF together \/ i <= j THEN {a} ELSE {}) \cup
                                      (IF together \/ j <= i THEN {b} ELSE {})

ReadsLists(parse(_), n, together, names, amounts) ==
  \A i, j \in 1 .. n, r \in rowsOf("a", 1, names), s \in rowsOf("b", 2, names) :
    ListsRead(parse(place(i, j, r, s)), i, j, lineOf("a", 1, r, amounts),
              lineOf("b", 2, s, amounts), together)

ListsReadInTurn ==
  /\ ReadsLists(parseGenericJSONFines, 5, FALSE, TRUE, "both")
  /\ ReadsLists(parseSaltaResponse, 3, FALSE, TRUE, "both")
  /\ ReadsLists(parseJujuyResponse, 3, FALSE, TRUE, "both")
  /\ ReadsLists(parsePBAResponse, 4, FALSE, TRUE, "counts")
  /\ ReadsLists(parseChacoResponse, 2, TRUE, FALSE, "both")
  /\ ReadsLists(parseCordobaResponse, 2, TRUE, TRUE, "one")
  /\ ReadsLists(parseEntreRiosResponse, 1, TRUE, FALSE, "both")
  /\ ReadsLists(parseMisionesResponse, 1, TRUE, TRUE, "one")
=============================================================================
