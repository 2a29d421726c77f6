------------------------------- MODULE OrderBooksProofs -------------------------------
(***************************************************************************)
(* What the proxy publishes and the window keeps was on the exchange, for  *)
(* any pairs, books, exchanges and numbers of answers, changes, restarts.  *)
(*                                                                         *)
(* ShownWasReal says nothing of answers on their way and of the index,     *)
(* from which the next report is made; IInv adds that answers and fresh    *)
(* rows of the index are what their pair has had.                          *)
(***************************************************************************)
EXTENDS OrderBooks, TLAPS

Rows == Nat \X Nat

PastOK ==
  /\ real \in [Pair -> [Side -> SUBSET Rows]]
  /\ past \in [Pair -> [Side -> SUBSET SUBSET Rows]]
  /\ \A p \in Pair, s \in Side : real[p][s] \in past[p][s]

RepliesOK ==
  \A x \in replies :
    /\ DOMAIN x \subseteq Pair
    /\ \A p \in DOMAIN x, s \in Side : x[p][s] \in past[p][s]

\* Rows of an index or of a report, which has fresh ones only.
WasRow(s, x) ==
  /\ DOMAIN x = {"pair", "rate", "amount", "fresh"}
  /\ x.fresh => x.pair \in Pair /\ <<x.rate, x.amount>> \in UNION past[x.pair][s]
HadBy(s, rows) == \A x \in rows : WasRow(s, x)

IndexOK == \A s \in Side : HadBy(s, index[s])

Sources == PastOK /\ RepliesOK /\ IndexOK
IInv == Sources /\ ShownWasReal

Plain == ex \in Empties \ HasStream

-----------------------------------------------------------------------------
(* Filing and reporting *)

LEMMA ReportedAreFiled ==
  ASSUME NEW s, NEW idx
  PROVE  /\ Reported(s, idx) \subseteq idx /\ Rebuilt(s, idx) \subseteq idx
         /\ \A x \in Reported(s, idx) : x.fresh
BY DEF Reported, Rebuilt, Passed

LEMMA FewerHad ==
  ASSUME NEW s, NEW rows, NEW fewer \in SUBSET rows, HadBy(s, rows)
  PROVE  HadBy(s, fewer)
BY DEF HadBy

\* Rows that were real stay so when others are filed among them.
LEMMA FiledWereReal ==
  ASSUME NEW s \in Side, NEW p \in Pair, NEW idx, HadBy(s, idx),
         NEW rows, \A y \in rows : y \in Nat \X Nat /\ (y[2] > 0 => y \in UNION past[p][s])
  PROVE  HadBy(s, File(idx, p, rows))
<1> SUFFICES ASSUME NEW x \in File(idx, p, rows), x \notin idx
             PROVE  WasRow(s, x)
  BY DEF HadBy
<1>1. PICK y \in rows : y[2] > 0 /\ x = Row(p, y)
  BY DEF File
<1>2. /\ x.pair = p /\ <<x.rate, x.amount>> = <<y[1], y[2]>>
      /\ DOMAIN x = {"pair", "rate", "amount", "fresh"}
  BY <1>1 DEF Row
<1>3. y = <<y[1], y[2]>>
  OBVIOUS
<1> QED
  BY <1>1, <1>2, <1>3 DEF WasRow

LEMMA ReportsWereReal ==
  ASSUME NEW s \in Side, NEW p \in Pair, NEW rows, HadBy(s, rows), \A x \in rows : x.fresh
  PROVE  RowsOf(p, rows) \subseteq UNION past[p][s]
BY DEF RowsOf, HadBy, WasRow

\* A report whose index was emptied before each answer has, of a pair, what the
\* answer for that pair leaves after the cut.
LEMMA ReportOfPair ==
  ASSUME NEW s \in Side, NEW x, NEW q,
         NEW report, report = UNION {Reported(s, File({}, p, x[p][s])) : p \in DOMAIN x}
  PROVE  RowsOf(q, report) = IF q \in DOMAIN x THEN CutOf(q, s, x[q][s]) ELSE {}
<1>1. ASSUME NEW p, NEW y \in Reported(s, File({}, p, x[p][s]))
      PROVE  y.pair = p
  <2>1. y \in File({}, p, x[p][s])
    BY ReportedAreFiled
  <2> QED
    BY <2>1 DEF File, Row
<1>2. {y \in report : y.pair = q} =
        IF q \in DOMAIN x THEN {y \in Reported(s, File({}, q, x[q][s])) : y.pair = q} ELSE {}
  BY <1>1
<1> QED
  BY <1>2 DEF RowsOf, CutOf

\* The controller files what was real over what was real.
LEMMA UpdatedWereReal ==
  ASSUME ShownWasReal, UNCHANGED <<ex, past, window>>, NEW report, books' = Updated(report),
         \A p \in Pair, s \in Side : WasReal(p, s, RowsOf(p, report[s]))
  PROVE  ShownWasReal'
<1>1. \A p \in Pair, s \in Side : WasReal(p, s, books'[p][s])
  <2> TAKE p \in Pair, s \in Side
  <2>1. books'[p][s] \in {RowsOf(p, report[s]), books[p][s]}
    BY DEF Updated, NewOrLast
  <2>2. WasReal(p, s, books[p][s])
    BY DEF ShownWasReal
  <2> QED
    BY <2>1, <2>2
<1>2. \A s \in Side : WasReal(Traded(s), s, window[s])
  BY DEF ShownWasReal
<1> QED
  BY <1>1, <1>2 DEF ShownWasReal, WasReal

-----------------------------------------------------------------------------
(* Steps *)

LEMMA ReplyKeeps ==
  ASSUME IInv, NEW x \in replies, OnReply(x)
  PROVE  IInv'
<1> DEFINE Filed(p, s) == File(Cleared(p, index[s]), p, x[p][s])
           report == [s \in Side |-> UNION {Reported(s, Filed(p, s)) : p \in DOMAIN x}]
<1>1. /\ replies' = replies \ {x} /\ UNCHANGED <<ex, real, past, window>>
      /\ \E p \in DOMAIN x : index' = [s \in Side |-> Rebuilt(s, Filed(p, s))]
      /\ books' = Updated(report)
  BY DEF OnReply
<1>2. DOMAIN x \subseteq Pair /\ \A p \in DOMAIN x, s \in Side : x[p][s] \in past[p][s]
  BY DEF IInv, Sources, RepliesOK
<1>3. \A p \in DOMAIN x, s \in Side : HadBy(s, Filed(p, s))
  <2> TAKE p \in DOMAIN x, s \in Side
  <2>1. HadBy(s, Cleared(p, index[s]))
    <3>1. HadBy(s, index[s])
      BY DEF IInv, Sources, IndexOK
    <3>2. WasRow(s, NoRow(p))
      BY DEF WasRow, NoRow
    <3> QED
      BY <3>1, <3>2 DEF Cleared, HadBy
  <2>2. x[p][s] \in past[p][s] /\ x[p][s] \subseteq Nat \X Nat
    BY <1>2 DEF IInv, Sources, PastOK, Rows
  <2> QED
    BY <1>2, <2>1, <2>2, FiledWereReal
<1>4. \A p \in DOMAIN x, s \in Side :
        HadBy(s, Reported(s, Filed(p, s))) /\ HadBy(s, Rebuilt(s, Filed(p, s)))
  BY <1>3, ReportedAreFiled, FewerHad
<1>5. \A s \in Side : HadBy(s, report[s]) /\ \A y \in report[s] : y.fresh
  <2> TAKE s \in Side
  <2> SUFFICES ASSUME NEW y \in report[s]
               PROVE  WasRow(s, y) /\ y.fresh
    BY DEF HadBy
  <2>1. PICK p \in DOMAIN x : y \in Reported(s, Filed(p, s))
    OBVIOUS
  <2>2. HadBy(s, Reported(s, Filed(p, s)))
    BY <1>4
  <2> QED
    BY <2>1, <2>2, ReportedAreFiled DEF HadBy
<1>6. ASSUME NEW p \in Pair, NEW s \in Side
      PROVE  WasReal(p, s, RowsOf(p, report[s]))
  <2>1. RowsOf(p, report[s]) \subseteq UNION past[p][s]
    BY <1>5, ReportsWereReal
  <2>2. ASSUME Plain, RowsOf(p, report[s]) # {}
        PROVE  \E g \in past[p][s] : RowsOf(p, report[s]) = CutOf(p, s, g)
    <3>1. report[s] = UNION {Reported(s, File({}, q, x[q][s])) : q \in DOMAIN x}
      BY <2>2 DEF Cleared, Plain
    <3>2. p \in DOMAIN x /\ RowsOf(p, report[s]) = CutOf(p, s, x[p][s])
      BY <2>2, <3>1, ReportOfPair
    <3> QED
      BY <1>2, <3>2
  <2> QED
    BY <2>1, <2>2 DEF WasReal, Plain
<1> HIDE DEF Filed, report
<1>7. ShownWasReal'
  BY <1>1, <1>6, UpdatedWereReal DEF IInv
<1>8. IndexOK'
  <2>1. PICK p \in DOMAIN x : index' = [s \in Side |-> Rebuilt(s, Filed(p, s))]
    BY <1>1
  <2>2. \A s \in Side : HadBy(s, index'[s])
    <3> TAKE s \in Side
    <3>1. index'[s] = Rebuilt(s, Filed(p, s))
      BY <2>1
    <3>2. HadBy(s, Rebuilt(s, Filed(p, s)))
      BY <1>4
    <3> QED
      BY <3>1, <3>2
  <2> QED
    BY <1>1, <2>2 DEF IndexOK, HadBy, WasRow
<1> QED
  BY <1>1, <1>7, <1>8 DEF IInv, Sources, PastOK, RepliesOK

LEMMA StreamKeeps ==
  ASSUME IInv, NEW p \in Pair, OnStream(p)
  PROVE  IInv'
<1> DEFINE Said(s) == IF ex = "kraken" THEN Delta(sent[p][s], real[p][s]) ELSE real[p][s]
           Filed(s) == File(index[s], p, Said(s))
           report == [s \in Side |-> Reported(s, Filed(s))]
<1>1. /\ ex \in HasStream /\ UNCHANGED <<ex, real, past, replies, window>>
      /\ index' = [s \in Side |-> Rebuilt(s, Filed(s))]
      /\ books' = Updated(report)
  BY DEF OnStream
<1>2. ASSUME NEW s \in Side
      PROVE  HadBy(s, Filed(s))
  <2>1. real[p][s] \in past[p][s] /\ real[p][s] \subseteq Nat \X Nat
    BY DEF IInv, Sources, PastOK, Rows
  <2>2. \A z \in Said(s) : z[2] > 0 => z \in real[p][s]
    BY DEF Delta
  <2>3. HadBy(s, index[s])
    BY DEF IInv, Sources, IndexOK
  <2> HIDE DEF Said
  <2> SUFFICES ASSUME NEW y \in Filed(s), y \notin index[s]
               PROVE  WasRow(s, y)
    BY <2>3 DEF HadBy
  <2>4. PICK z \in Said(s) : z[2] > 0 /\ y = Row(p, z)
    BY DEF File
  <2>5. z \in real[p][s] /\ z = <<z[1], z[2]>>
    BY <2>1, <2>2, <2>4
  <2>6. /\ DOMAIN y = {"pair", "rate", "amount", "fresh"}
        /\ y.pair = p /\ <<y.rate, y.amount>> = <<z[1], z[2]>>
    BY <2>4 DEF Row
  <2> QED
    BY <2>1, <2>5, <2>6 DEF WasRow
<1>3. \A s \in Side : HadBy(s, Reported(s, Filed(s))) /\ HadBy(s, Rebuilt(s, Filed(s)))
  BY <1>2, ReportedAreFiled, FewerHad
<1>4. ASSUME NEW q \in Pair, NEW s \in Side
      PROVE  WasReal(q, s, RowsOf(q, report[s]))
  BY <1>1, <1>3, ReportedAreFiled, ReportsWereReal DEF WasReal
<1> HIDE DEF Filed, report
<1>5. ShownWasReal'
  BY <1>1, <1>4, UpdatedWereReal DEF IInv
<1>6. IndexOK'
  BY <1>1, <1>3 DEF IndexOK, HadBy, WasRow
<1> QED
  BY <1>1, <1>5, <1>6 DEF IInv, Sources, PastOK, RepliesOK

\* What there has been only grows.
LEMMA ChangeKeeps ==
  ASSUME IInv, NEW p \in Pair, NEW book \in Books, Change(p, book)
  PROVE  IInv'
<1>1. /\ real' = [real EXCEPT ![p] = book]
      /\ past' = [past EXCEPT ![p] = [s \in Side |-> @[s] \cup {book[s]}]]
      /\ UNCHANGED <<ex, replies, index, books, window>>
  BY DEF Change, node
<1>2. book \in [Side -> SUBSET Rows]
  BY BooksOK DEF Rows
<1>3. /\ real \in [Pair -> [Side -> SUBSET Rows]]
      /\ past \in [Pair -> [Side -> SUBSET SUBSET Rows]]
      /\ \A q \in Pair, s \in Side : real[q][s] \in past[q][s]
  BY DEF IInv, Sources, PastOK
<1>4. \A q \in Pair, s \in Side :
        past'[q][s] = IF q = p THEN past[q][s] \cup {book[s]} ELSE past[q][s]
  BY <1>1, <1>3
<1>5. PastOK'
  <2>1. real' \in [Pair -> [Side -> SUBSET Rows]]
    BY <1>1, <1>2, <1>3
  <2>2. past' \in [Pair -> [Side -> SUBSET SUBSET Rows]]
    BY <1>1, <1>2, <1>3
  <2>3. \A q \in Pair, s \in Side : real'[q][s] \in past'[q][s]
    BY <1>1, <1>3, <1>4
  <2> QED
    BY <2>1, <2>2, <2>3 DEF PastOK
<1>6. \A q \in Pair, s \in Side : past[q][s] \subseteq past'[q][s]
  BY <1>4
<1>7. RepliesOK'
  BY <1>1, <1>6 DEF IInv, Sources, RepliesOK
<1>8. IndexOK'
  BY <1>1, <1>6 DEF IInv, Sources, IndexOK, HadBy, WasRow
<1>9. ASSUME NEW q \in Pair, NEW s \in Side, NEW rows, WasReal(q, s, rows)
      PROVE  WasReal(q, s, rows)'
  BY <1>1, <1>6, <1>9 DEF WasReal
<1>10. ShownWasReal'
  <2>1. \A s \in Side : Traded(s) \in Pair
    BY BooksOK DEF Traded
  <2> QED
    BY <1>1, <1>9, <2>1 DEF IInv, ShownWasReal
<1> QED
  BY <1>5, <1>7, <1>8, <1>10 DEF IInv, Sources

LEMMA AskKeeps ==
  ASSUME IInv, NEW ps \in Requests, Ask(ps)
  PROVE  IInv'
<1>1. /\ replies' = replies \cup {[p \in ps |-> real[p]]}
      /\ UNCHANGED <<ex, real, past, index, books, window>>
  BY DEF Ask
<1>2. ps \subseteq Pair
  BY DEF Requests
<1>3. RepliesOK'
  BY <1>1, <1>2 DEF IInv, Sources, RepliesOK, PastOK
<1> QED
  BY <1>1, <1>3 DEF IInv, Sources, PastOK, IndexOK, HadBy, WasRow, ShownWasReal, WasReal

LEMMA ExpireKeeps ==
  ASSUME IInv, NEW p \in Pair, Expire(p)
  PROVE  IInv'
<1>1. /\ index' = [s \in Side |-> {[x EXCEPT !.fresh = @ /\ x.pair # p] : x \in index[s]}]
      /\ UNCHANGED <<ex, real, past, replies, books, window>>
  BY DEF Expire
<1>2. ASSUME NEW s \in Side, NEW x \in index[s], NEW y, y = [x EXCEPT !.fresh = @ /\ x.pair # p]
      PROVE  /\ DOMAIN y = {"pair", "rate", "amount", "fresh"}
             /\ y.pair = x.pair /\ y.rate = x.rate /\ y.amount = x.amount
             /\ y.fresh => x.fresh
  <2>1. DOMAIN x = {"pair", "rate", "amount", "fresh"}
    BY DEF IInv, Sources, IndexOK, HadBy, WasRow
  <2> QED
    BY <1>2, <2>1
<1>3. IndexOK'
  <2> SUFFICES ASSUME NEW s \in Side, NEW y \in index'[s]
               PROVE  WasRow(s, y)
    BY <1>1 DEF IndexOK, HadBy, WasRow
  <2>1. PICK x \in index[s] : y = [x EXCEPT !.fresh = @ /\ x.pair # p]
    BY <1>1
  <2>2. WasRow(s, x)
    BY DEF IInv, Sources, IndexOK, HadBy
  <2> QED
    BY <1>2, <2>1, <2>2 DEF WasRow
<1> QED
  BY <1>1, <1>3 DEF IInv, Sources, PastOK, RepliesOK, ShownWasReal, WasReal

LEMMA PublishKeeps ==
  ASSUME IInv, Publish
  PROVE  IInv'
<1>1. /\ window' = [s \in Side |-> NewOrLast(books[Traded(s)][s], window[s])]
      /\ UNCHANGED <<ex, real, past, replies, index, books>>
  BY DEF Publish, node
<1>2. \A s \in Side : Traded(s) \in Pair
  BY BooksOK DEF Traded
<1>3. \A s \in Side : WasReal(Traded(s), s, window'[s])
  BY <1>1, <1>2 DEF IInv, ShownWasReal, NewOrLast
<1> QED
  BY <1>1, <1>3 DEF IInv, Sources, PastOK, RepliesOK, IndexOK, HadBy, WasRow, ShownWasReal, WasReal

LEMMA NothingIsReal ==
  ASSUME NEW p \in Pair, NEW s \in Side
  PROVE  WasReal(p, s, {})
BY DEF WasReal

LEMMA RestartKeeps ==
  ASSUME IInv, Restart
  PROVE  IInv'
<1>1. /\ replies' = {} /\ index' = NoBook /\ books' = NoBooks
      /\ UNCHANGED <<ex, real, past, window>>
  BY DEF Restart, Start
<1>2. \A s \in Side : index'[s] = {} /\ \A p \in Pair : books'[p][s] = {}
  BY <1>1 DEF NoBooks, NoBook
<1>3. RepliesOK'
  BY <1>1 DEF RepliesOK
<1>4. \A p \in Pair, s \in Side : WasReal(p, s, books'[p][s])
  BY <1>2, NothingIsReal
<1>5. \A s \in Side : WasReal(Traded(s), s, window[s])
  BY DEF IInv, ShownWasReal
<1>6. ShownWasReal'
  BY <1>1, <1>4, <1>5 DEF ShownWasReal, WasReal
<1>7. IndexOK'
  <2> SUFFICES ASSUME NEW s \in Side PROVE HadBy(s, index[s])'
    BY DEF IndexOK
  <2> QED
    BY <1>2 DEF HadBy
<1> QED
  BY <1>1, <1>3, <1>6, <1>7 DEF IInv, Sources, PastOK

-----------------------------------------------------------------------------
(* Theorems *)

LEMMA InitIInv == Init => IInv
<1> SUFFICES ASSUME Init PROVE IInv
  OBVIOUS
<1>1. PastOK
  <2>1. real \in [Pair -> [Side -> SUBSET Rows]]
    BY BooksOK DEF Init, Rows
  <2>2. past = [p \in Pair |-> [s \in Side |-> {real[p][s]}]]
    BY DEF Init
  <2> QED
    BY <2>1, <2>2 DEF PastOK
<1>2. RepliesOK /\ IndexOK
  BY DEF Init, RepliesOK, IndexOK, HadBy, NoBook
<1>3. \A s \in Side : Traded(s) \in Pair
  BY BooksOK DEF Traded
<1>4. ShownWasReal
  BY <1>3, NothingIsReal DEF Init, ShownWasReal, NoBook, NoBooks
<1> QED
  BY <1>1, <1>2, <1>4 DEF IInv, Sources

LEMMA NextIInv == IInv /\ [Next]_vars => IInv'
<1> SUFFICES ASSUME IInv, [Next]_vars PROVE IInv'
  OBVIOUS
<1>1. CASE UNCHANGED vars
  BY <1>1 DEF vars, node, IInv, Sources, PastOK, RepliesOK, IndexOK, HadBy, WasRow, ShownWasReal, WasReal
<1> QED
  BY <1>1, ChangeKeeps, AskKeeps, ReplyKeeps, StreamKeeps, ExpireKeeps, PublishKeeps, RestartKeeps
  DEF Next

\* Fresh rows in the index, in answers and in the window are rows their pair has had.
THEOREM BooksInvariant == Spec => []IInv
BY InitIInv, NextIInv, PTL DEF Spec

\* What is published and compared was shown by the exchange, for every pair of it a
\* side of one answer where the index is emptied (OrderbooksNode::onRawOrderbooks,
\* NodesController::onOrderBooks, sendOrderbooks).
THEOREM ShownAlwaysReal == Spec => []ShownWasReal
<1>1. IInv => ShownWasReal
  BY DEF IInv
<1> QED
  BY <1>1, BooksInvariant, PTL
=============================================================================
