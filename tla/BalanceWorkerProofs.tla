----------------------------- MODULE BalanceWorkerProofs -----------------------------
(***************************************************************************)
(* BalanceWorker: hashes and tables hold the same, whatever the exchange,  *)
(* however many transfers, answers, crashes and refused writes there are.  *)
(*                                                                         *)
(* MemoryIsSaved says nothing of answers on their way and of the shape of  *)
(* the hashes; IInv adds both and is inductive.  The words and ids of the  *)
(* fifteen parsers matter only in that an id is one of five kinds.         *)
(*                                                                         *)
(* FinalIsShown holds when all is filed; Told says what holds while items  *)
(* of an event are still to be filed, and Heard what a worker that is down *)
(* has heard of.  OwnRecords follows the ids of withdrawals from answers   *)
(* to items, hashes and tables; OneRecordEach then counts.                 *)
(***************************************************************************)
EXTENDS BalanceWorker, FiniteSetTheorems, TLAPS

\* What is on its way tells states of transfers.
AnswersOK ==
  \A p \in answers :
    /\ DOMAIN p.seen \subseteq Transfer
    /\ \A t \in DOMAIN p.seen : p.seen[t] \in States

\* A hash and a table for each kind.
ShapeOK == DOMAIN memory = Kinds /\ DOMAIN tables = Kinds

IInv == MemoryIsSaved /\ AnswersOK /\ ShapeOK

Hows == {"own", "built", "other", "zero", "empty"}

-----------------------------------------------------------------------------
(* The tables of the parsers *)

\* A list, and a creation, file under one kind of id, or under none.
NamesIds(f) ==
  /\ f.deposits.id \in Hows \cup {"none"}
  /\ f.withdraws.id \in Hows \cup {"none"}
  /\ f.created.id \in Hows \cup {"none"}

LEMMA ParsersNameIds == \A e \in Exchanges : NamesIds(FundsAnswers[e])
<1> USE DEF NamesIds, Hows, Funds, Transfers, NoTransfers, Created, NotCreated
<1>1. NamesIds(FundsAnswers["binance"])
  BY DEF FundsAnswers, BinanceFundsAnswers
<1>2. NamesIds(FundsAnswers["bitfinex"])
  BY DEF FundsAnswers, BitfinexFundsAnswers
<1>3. NamesIds(FundsAnswers["bittrex"])
  BY DEF FundsAnswers, BittrexFundsAnswers
<1>4. NamesIds(FundsAnswers["cexio"])
  BY DEF FundsAnswers, CexioFundsAnswers
<1>5. NamesIds(FundsAnswers["exmo"])
  BY DEF FundsAnswers, ExmoFundsAnswers
<1>6. NamesIds(FundsAnswers["hitbtc"])
  BY DEF FundsAnswers, HitbtcFundsAnswers
<1>7. NamesIds(FundsAnswers["huobi"])
  BY DEF FundsAnswers, HuobiFundsAnswers
<1>8. NamesIds(FundsAnswers["idcm"])
  BY DEF FundsAnswers, IDCMFundsAnswers
<1>9. NamesIds(FundsAnswers["kraken"])
  BY DEF FundsAnswers, KrakenFundsAnswers
<1>10. NamesIds(FundsAnswers["kucoin"])
  BY DEF FundsAnswers, KuCoinFundsAnswers
<1>11. NamesIds(FundsAnswers["lakebtc"])
  BY DEF FundsAnswers, LakeBTCFundsAnswers
<1>12. NamesIds(FundsAnswers["lbank"])
  BY DEF FundsAnswers, LbankFundsAnswers
<1>13. NamesIds(FundsAnswers["livecoin"])
  BY DEF FundsAnswers, LivecoinFundsAnswers
<1>14. NamesIds(FundsAnswers["okcoin"])
  BY DEF FundsAnswers, OkcoinFundsAnswers
<1>15. NamesIds(FundsAnswers["zb"])
  BY DEF FundsAnswers, ZBFundsAnswers
<1> HIDE DEF NamesIds
<1> QED
  BY <1>1, <1>2, <1>3, <1>4, <1>5, <1>6, <1>7, <1>8, <1>9, <1>10, <1>11, <1>12, <1>13, <1>14, <1>15 DEF Exchanges

LEMMA IdsAreIds ==
  ASSUME NEW how \in Hows, NEW t \in Transfer
  PROVE  IdOf(how, t) \in Ids
BY DEF Ids, Hows

-----------------------------------------------------------------------------
(* Shapes and types *)

Typed == TypeOK /\ AnswersOK /\ ShapeOK

\* The part of MemoryIsSaved that is about the tables.
HashesMatch ==
  up => \A k \in Kinds :
    /\ DOMAIN tables[k] \subseteq DOMAIN memory[k]
    /\ \A i \in DOMAIN memory[k] :
         \/ i \in DOMAIN tables[k] /\ memory[k][i] = tables[k][i]
         \/ <<k, i>> \in refused
         \/ Phantom(k, i)

LEMMA IInvParts == IInv <=> Typed /\ HashesMatch
BY DEF IInv, MemoryIsSaved, Typed, HashesMatch

\* g is f with an entry i = s in the hash of k.
Adds(f, g, k, i, s) ==
  /\ DOMAIN g = Kinds
  /\ DOMAIN g[k] = DOMAIN f[k] \cup {i}
  /\ g[k][i] = s
  /\ \A j \in DOMAIN f[k] : j # i => g[k][j] = f[k][j]
  /\ \A h \in Kinds : h # k => g[h] = f[h]

LEMMA Filed ==
  ASSUME NEW f, DOMAIN f = Kinds, NEW k \in Kinds, NEW i, NEW s,
         NEW g, g = [f EXCEPT ![k] = Put(@, i, s)]
  PROVE  Adds(f, g, k, i, s)
<1>1. g[k] = Put(f[k], i, s)
  OBVIOUS
<1>2. DOMAIN g = Kinds /\ \A h \in Kinds : h # k => g[h] = f[h]
  OBVIOUS
<1>3. /\ DOMAIN Put(f[k], i, s) = DOMAIN f[k] \cup {i}
      /\ Put(f[k], i, s)[i] = s
      /\ \A j \in DOMAIN f[k] : j # i => Put(f[k], i, s)[j] = f[k][j]
  BY DEF Put
<1>4. /\ DOMAIN g[k] = DOMAIN f[k] \cup {i}
      /\ g[k][i] = s
      /\ \A j \in DOMAIN f[k] : j # i => g[k][j] = f[k][j]
  BY <1>1, <1>3, Zenon
<1> QED
  BY <1>2, <1>4, Zenon DEF Adds

\* The items of a list are of the kinds and ids there are.
LEMMA ListingsTyped ==
  ASSUME Typed, NEW p \in answers, NEW S \in Listings(p), NEW i \in S
  PROVE  DOMAIN i = {"k", "id", "st"} /\ i.k \in Kinds /\ i.id \in Ids
<1>1. PICK t \in DOMAIN p.seen :
        /\ kind[t] \in KindsIn(p.m)
        /\ \E st : i = [k |-> kind[t], id |-> IdOf(ListSays(kind[t]).id, t), st |-> st]
  BY DEF Listings
<1>2. t \in Transfer /\ ex \in Exchanges
  BY DEF Typed, AnswersOK, TypeOK
<1>3. kind[t] \in Kinds /\ ListSays(kind[t]).id # "none"
  BY <1>1 DEF KindsIn
<1>4. ListSays(kind[t]).id \in Hows
  BY <1>2, <1>3, ParsersNameIds DEF NamesIds, ListSays
<1> QED
  BY <1>1, <1>2, <1>3, <1>4, IdsAreIds

LEMMA CreationTyped ==
  ASSUME Typed, NEW p \in answers, NEW i \in Creation(p)
  PROVE  DOMAIN i = {"k", "id", "st"} /\ i.k \in Kinds /\ i.id \in Ids
<1>1. PICK t \in DOMAIN p.seen :
        /\ FundsAnswers[ex].created.id # "none"
        /\ i = [k |-> "withdraw", id |-> IdOf(FundsAnswers[ex].created.id, t),
                st |-> FundsAnswers[ex].created.word]
  BY DEF Creation
<1>2. t \in Transfer /\ ex \in Exchanges
  BY DEF Typed, AnswersOK, TypeOK
<1>3. FundsAnswers[ex].created.id \in Hows
  BY <1>1, <1>2, ParsersNameIds DEF NamesIds
<1> QED
  BY <1>1, <1>2, <1>3, IdsAreIds DEF Kinds

LEMMA InitTyped == Init => Typed
BY DEF Init, Typed, TypeOK, AnswersOK, ShapeOK, NoRecords, Kinds, States

LEMMA WithdrawTyped ==
  ASSUME Typed, NEW t \in Transfer, Withdraw(t)
  PROVE  Typed'
<1>2. AnswersOK'
  <2>1. answers' = answers \cup {[m |-> "WithdrawCreate", seen |-> [u \in {t} |-> "pending"]]}
    BY DEF Withdraw
  <2> QED
    BY <2>1 DEF Typed, AnswersOK, States
<1>3. kind' \in [Transfer -> Kinds \cup {"none"}] /\ real' \in [Transfer -> States]
  BY DEF Withdraw, Typed, TypeOK, Kinds, States
<1> QED
  BY <1>2, <1>3 DEF Withdraw, Typed, TypeOK, ShapeOK, history

LEMMA ExchangeTyped ==
  ASSUME Typed, NEW t \in Transfer, Deposit(t) \/ Finish(t)
  PROVE  Typed'
<1>1. kind' \in [Transfer -> Kinds \cup {"none"}] /\ real' \in [Transfer -> States]
  BY BalanceOK DEF Deposit, Finish, Typed, TypeOK, Kinds, States, Final
<1> QED
  BY <1>1 DEF Deposit, Finish, Typed, TypeOK, AnswersOK, ShapeOK, history

LEMMA AskTyped ==
  ASSUME Typed, NEW k \in Kinds, NEW scope \in SUBSET Transfer, NEW keys, Ask(k, scope, keys)
  PROVE  Typed'
<1>1. AnswersOK'
  BY DEF Ask, Typed, TypeOK, AnswersOK
<1> QED
  BY <1>1 DEF Ask, Typed, TypeOK, ShapeOK, exchange, history

LEMMA ParseTyped ==
  ASSUME Typed, NEW p \in answers, Parse(p)
  PROVE  Typed'
<1>1. \A i \in items' : DOMAIN i = {"k", "id", "st"} /\ i.k \in Kinds /\ i.id \in Ids
  <2>1. CASE up /\ p.m = "WithdrawCreate"
    BY <2>1, CreationTyped DEF Parse
  <2>2. CASE up /\ p.m # "WithdrawCreate"
    BY <2>2, ListingsTyped DEF Parse
  <2>3. CASE ~up
    BY <2>3 DEF Parse, Typed, TypeOK
  <2> QED
    BY <2>1, <2>2, <2>3
<1>2. news' \in [Transfer -> States \cup {"old"}]
  <2>1. \A t \in DOMAIN p.seen : p.seen[t] \in States
    BY DEF Typed, AnswersOK
  <2>2. news \in [Transfer -> States \cup {"old"}]
    BY DEF Typed, TypeOK
  <2>3. CASE up
    BY <2>1, <2>2, <2>3 DEF Parse
  <2>4. CASE ~up
    BY <2>2, <2>4 DEF Parse
  <2> QED
    BY <2>3, <2>4
<1> QED
  BY <1>1, <1>2 DEF Parse, Typed, TypeOK, AnswersOK, ShapeOK, exchange

LEMMA HandleItemTyped ==
  ASSUME Typed, HandleItem
  PROVE  Typed'
<1>1. PICK i \in items :
        /\ items' = items \ {i}
        /\ File(i) \/ UNCHANGED <<memory, tables, faults, refused>>
  BY DEF HandleItem
<1>2. i.k \in Kinds /\ i.id \in Ids
  BY DEF Typed, TypeOK
<1>3. CASE UNCHANGED <<memory, tables, faults, refused>>
  BY <1>1, <1>3 DEF HandleItem, Typed, TypeOK, AnswersOK, ShapeOK, exchange
<1>4. CASE File(i)
  <2>1. /\ Adds(memory, memory', i.k, i.id, i.st)
        /\ Adds(tables, tables', i.k, i.id, i.st) \/ tables' = tables
        /\ refused' \subseteq refused \cup {<<i.k, i.id>>}
    BY <1>2, <1>4, Filed DEF File, Typed, ShapeOK
  <2>2. ShapeOK'
    BY <2>1 DEF Typed, ShapeOK, Adds
  <2>3. \A k \in Kinds : DOMAIN memory'[k] \subseteq Ids /\ DOMAIN tables'[k] \subseteq Ids
    BY <1>2, <2>1 DEF Typed, TypeOK, Adds
  <2>4. refused' \subseteq Kinds \X Ids
    BY <1>2, <2>1 DEF Typed, TypeOK
  <2> QED
    BY <1>1, <2>2, <2>3, <2>4 DEF HandleItem, Typed, TypeOK, AnswersOK, exchange
<1> QED
  BY <1>1, <1>3, <1>4

LEMMA CrashTyped ==
  ASSUME Typed, Crash
  PROVE  Typed'
BY DEF Crash, Typed, TypeOK, AnswersOK, ShapeOK, NoRecords, States, exchange

\* What the start reads back: the tables, and deposits of withdrawals.
LEMMA LoadedShape ==
  ASSUME Typed
  PROVE  /\ DOMAIN Loaded = Kinds
         /\ Loaded["withdraw"] = tables["withdraw"]
         /\ DOMAIN Loaded["deposit"] = DOMAIN tables["deposit"] \cup DOMAIN tables["withdraw"]
         /\ \A i \in DOMAIN tables["deposit"] : Loaded["deposit"][i] = tables["deposit"][i]
         /\ \A i \in DOMAIN tables["withdraw"] \ DOMAIN tables["deposit"] :
              Loaded["deposit"][i] = ""
BY DEF Typed, ShapeOK, Loaded, Kinds

LEMMA StartTyped ==
  ASSUME Typed, Start
  PROVE  Typed'
<1>1. \A k \in Kinds : DOMAIN memory'[k] \subseteq Ids
  BY LoadedShape DEF Start, Typed, TypeOK, Kinds
<1>2. ShapeOK'
  BY LoadedShape DEF Start, Typed, ShapeOK
<1> QED
  BY <1>1, <1>2 DEF Start, Typed, TypeOK, AnswersOK, exchange, history

-----------------------------------------------------------------------------
(* Hashes and tables *)

\* A phantom stays one as long as nobody files a deposit under its id.
LEMMA FileMatches ==
  ASSUME Typed, HashesMatch, up, up', NEW i \in items, File(i)
  PROVE  HashesMatch'
<1> DEFINE id == i.id
<1>1. i.k \in Kinds
  BY DEF Typed, TypeOK
<1>2. Adds(memory, memory', i.k, id, i.st)
  BY <1>1, Filed DEF File, Typed, ShapeOK
<1>3. \/ Adds(tables, tables', i.k, id, i.st) /\ refused' = refused \ {<<i.k, id>>}
      \/ tables' = tables /\ refused' = refused \cup {<<i.k, id>>}
  BY <1>1, Filed DEF File, Typed, ShapeOK
<1> SUFFICES ASSUME NEW k \in Kinds
             PROVE  /\ DOMAIN tables'[k] \subseteq DOMAIN memory'[k]
                    /\ \A j \in DOMAIN memory'[k] :
                         \/ j \in DOMAIN tables'[k] /\ memory'[k][j] = tables'[k][j]
                         \/ <<k, j>> \in refused'
                         \/ Phantom(k, j)'
  BY DEF HashesMatch
<1>4. /\ DOMAIN tables[k] \subseteq DOMAIN memory[k]
      /\ \A j \in DOMAIN memory[k] :
           \/ j \in DOMAIN tables[k] /\ memory[k][j] = tables[k][j]
           \/ <<k, j>> \in refused
           \/ Phantom(k, j)
  BY DEF HashesMatch
<1>5. /\ DOMAIN memory'[k] = DOMAIN memory[k] \cup (IF k = i.k THEN {id} ELSE {})
      /\ k = i.k => memory'[k][id] = i.st
      /\ \A j \in DOMAIN memory[k] : ~(k = i.k /\ j = id) => memory'[k][j] = memory[k][j]
  BY <1>2 DEF Adds
<1>6. \A h \in Kinds :
        /\ DOMAIN tables[h] \subseteq DOMAIN tables'[h]
        /\ DOMAIN tables'[h] \subseteq DOMAIN tables[h] \cup (IF h = i.k THEN {id} ELSE {})
        /\ \A j \in DOMAIN tables[h] : ~(h = i.k /\ j = id) => tables'[h][j] = tables[h][j]
  BY <1>3 DEF Adds
<1>7. DOMAIN tables'[k] \subseteq DOMAIN memory'[k]
  BY <1>4, <1>5, <1>6
<1>8. ASSUME NEW j \in DOMAIN memory'[k]
      PROVE  \/ j \in DOMAIN tables'[k] /\ memory'[k][j] = tables'[k][j]
             \/ <<k, j>> \in refused'
             \/ Phantom(k, j)'
  <2>1. CASE k = i.k /\ j = id
    <3>1. CASE Adds(tables, tables', i.k, id, i.st)
      BY <1>5, <2>1, <3>1 DEF Adds
    <3>2. CASE refused' = refused \cup {<<i.k, id>>}
      BY <2>1, <3>2
    <3> QED
      BY <1>3, <3>1, <3>2
  <2>2. CASE ~(k = i.k /\ j = id)
    <3>1. j \in DOMAIN memory[k] /\ memory'[k][j] = memory[k][j]
      BY <1>5, <2>2
    <3>2. CASE j \in DOMAIN tables[k] /\ memory[k][j] = tables[k][j]
      BY <1>6, <2>2, <3>1, <3>2
    <3>3. CASE <<k, j>> \in refused
      <4>1. <<k, j>> # <<i.k, id>>
        BY <2>2
      <4> QED
        BY <1>3, <3>3, <4>1
    <3>4. CASE Phantom(k, j)
      BY <1>6, <2>2, <3>1, <3>4 DEF Phantom, Kinds
    <3> QED
      BY <1>4, <3>1, <3>2, <3>3, <3>4
  <2> QED
    BY <2>1, <2>2
<1> QED
  BY <1>7, <1>8

LEMMA StartMatches ==
  ASSUME Typed, Start
  PROVE  HashesMatch'
<1>1. memory' = Loaded /\ tables' = tables
  BY DEF Start
<1>2. ASSUME NEW i \in DOMAIN Loaded["deposit"], i \notin DOMAIN tables["deposit"]
      PROVE  Phantom("deposit", i)'
  BY <1>1, <1>2, LoadedShape DEF Phantom
<1> QED
  BY <1>1, <1>2, LoadedShape DEF HashesMatch, Kinds

-----------------------------------------------------------------------------
(* What FinalIsShown and OneRecordEach say of answers and items on their way *)

\* Transfer t is listed under its own id, and in so many words.
Words(t, s) == ListSays(kind[t]).word[s]
Shown(t) == news[t] \in Final /\ ListSays(kind[t]).id = "own" /\ Words(t, news[t]) # {}
ItemOf(i, t) == i.k = kind[t] /\ i.id = IdOf("own", t)
RecordSays(t) ==
  /\ IdOf("own", t) \in DOMAIN memory[kind[t]]
  /\ memory[kind[t]][IdOf("own", t)] \in Words(t, news[t])

\* While the worker is down it has heard of nothing; what it has heard of was
\* made; a creation tells of a pending transfer.
Heard ==
  /\ ~up => items = {} /\ \A t \in Transfer : news[t] = "none"
  /\ \A t \in Transfer : news[t] \in Final => kind[t] \in Kinds
  /\ \A p \in answers : p.m = "WithdrawCreate" => \A t \in DOMAIN p.seen : p.seen[t] = "pending"

\* What a list said last is in the hash or in an item still to be filed, and
\* no item still to be filed says anything else.
Told ==
  \A t \in Transfer : Shown(t) =>
    /\ \A i \in items : ItemOf(i, t) => i.st \in Words(t, news[t])
    /\ RecordSays(t) \/ \E i \in items : ItemOf(i, t)

\* The ids that creations and lists of withdrawals give at the exchanges of OneRecordEach.
OwnIds == {IdOf("own", t) : t \in {u \in Transfer : kind[u] = "withdraw"}}

OwnRecords ==
  ex \notin TwoIds =>
    /\ \A p \in answers : p.m = "WithdrawCreate" => \A t \in DOMAIN p.seen : kind[t] = "withdraw"
    /\ \A i \in items : i.k = "withdraw" => i.id \in OwnIds
    /\ DOMAIN memory["withdraw"] \subseteq OwnIds
    /\ DOMAIN tables["withdraw"] \subseteq OwnIds

-----------------------------------------------------------------------------
(* One record each *)

KeepsOwnIds(f) == f.withdraws.id \in {"own", "none"} /\ f.created.id \in {"own", "none"}

LEMMA ParsersKeepOwnIds == \A e \in Exchanges \ TwoIds : KeepsOwnIds(FundsAnswers[e])
<1> USE DEF KeepsOwnIds, Funds, Transfers, NoTransfers, Created, NotCreated
<1>1. KeepsOwnIds(FundsAnswers["bittrex"])
  BY DEF FundsAnswers, BittrexFundsAnswers
<1>2. KeepsOwnIds(FundsAnswers["cexio"])
  BY DEF FundsAnswers, CexioFundsAnswers
<1>3. KeepsOwnIds(FundsAnswers["hitbtc"])
  BY DEF FundsAnswers, HitbtcFundsAnswers
<1>4. KeepsOwnIds(FundsAnswers["idcm"])
  BY DEF FundsAnswers, IDCMFundsAnswers
<1>5. KeepsOwnIds(FundsAnswers["lakebtc"])
  BY DEF FundsAnswers, LakeBTCFundsAnswers
<1>6. KeepsOwnIds(FundsAnswers["lbank"])
  BY DEF FundsAnswers, LbankFundsAnswers
<1>7. KeepsOwnIds(FundsAnswers["livecoin"])
  BY DEF FundsAnswers, LivecoinFundsAnswers
<1>8. KeepsOwnIds(FundsAnswers["zb"])
  BY DEF FundsAnswers, ZBFundsAnswers
<1> HIDE DEF KeepsOwnIds
<1> QED
  BY <1>1, <1>2, <1>3, <1>4, <1>5, <1>6, <1>7, <1>8 DEF Exchanges, TwoIds

\* Nobody's id is another's: neither of another transfer nor of another sort.
LEMMA OwnIsOne ==
  ASSUME NEW how \in Hows, NEW t, NEW u, IdOf(how, u) = IdOf("own", t)
  PROVE  how = "own" /\ u = t
BY DEF IdOf, Hows

\* Where items come from.
LEMMA ListedItem ==
  ASSUME NEW p \in answers, NEW S \in Listings(p), NEW i \in S
  PROVE  \E t \in DOMAIN p.seen :
           /\ p.seen[t] # "none" /\ kind[t] \in KindsIn(p.m)
           /\ i.k = kind[t] /\ i.id = IdOf(ListSays(kind[t]).id, t)
           /\ i.st \in Words(t, p.seen[t])
<1> DEFINE words(u) == ListSays(kind[u]).word[p.seen[u]]
           shown == {u \in DOMAIN p.seen :
                       p.seen[u] # "none" /\ kind[u] \in KindsIn(p.m) /\ words(u) # {}}
<1>1. PICK f \in {g \in [shown -> UNION {words(u) : u \in shown}] : \A u \in shown : g[u] \in words(u)} :
        S = {[k |-> kind[u], id |-> IdOf(ListSays(kind[u]).id, u), st |-> f[u]] : u \in shown}
  BY DEF Listings
<1>2. PICK t \in shown : i = [k |-> kind[t], id |-> IdOf(ListSays(kind[t]).id, t), st |-> f[t]]
  BY <1>1
<1>3. f[t] \in Words(t, p.seen[t])
  BY <1>1, <1>2 DEF Words
<1> QED
  BY <1>2, <1>3

LEMMA ListedTransfer ==
  ASSUME NEW p \in answers, NEW S \in Listings(p), NEW t \in DOMAIN p.seen,
         p.seen[t] # "none", kind[t] \in KindsIn(p.m), Words(t, p.seen[t]) # {}
  PROVE  \E i \in S : i.k = kind[t] /\ i.id = IdOf(ListSays(kind[t]).id, t)
<1> DEFINE words(u) == ListSays(kind[u]).word[p.seen[u]]
           shown == {u \in DOMAIN p.seen :
                       p.seen[u] # "none" /\ kind[u] \in KindsIn(p.m) /\ words(u) # {}}
<1>1. PICK f : S = {[k |-> kind[u], id |-> IdOf(ListSays(kind[u]).id, u), st |-> f[u]] : u \in shown}
  BY DEF Listings
<1>2. t \in shown
  BY DEF Words
<1> HIDE DEF shown
<1> DEFINE i == [k |-> kind[t], id |-> IdOf(ListSays(kind[t]).id, t), st |-> f[t]]
<1>3. i \in S
  BY <1>1, <1>2
<1> QED
  BY <1>3

LEMMA CreatedItem ==
  ASSUME NEW p, NEW i \in Creation(p)
  PROVE  \E t \in DOMAIN p.seen :
           /\ FundsAnswers[ex].created.id # "none"
           /\ i.k = "withdraw" /\ i.id = IdOf(FundsAnswers[ex].created.id, t)
BY DEF Creation

\* A kind of a list has an id.
LEMMA KindsInIds ==
  ASSUME Typed, NEW t \in Transfer, NEW m, kind[t] \in KindsIn(m)
  PROVE  kind[t] \in Kinds /\ ListSays(kind[t]).id \in Hows
BY ParsersNameIds DEF KindsIn, NamesIds, ListSays, Typed, TypeOK

LEMMA OwnRecordsInit == Init => OwnRecords
BY DEF Init, OwnRecords, NoRecords, Kinds

\* A kind, once there, stays.
LEMMA KindStays ==
  ASSUME Typed, [Next]_vars
  PROVE  \A t \in Transfer : kind[t] # "none" => kind'[t] = kind[t]
<1>1. ASSUME NEW t \in Transfer, Withdraw(t) \/ Deposit(t) \/ Finish(t)
      PROVE  \A u \in Transfer : kind[u] # "none" => kind'[u] = kind[u]
  BY <1>1 DEF Withdraw, Deposit, Finish, Typed, TypeOK
<1>2. CASE UNCHANGED kind
  BY <1>2
<1> QED
  BY <1>1, <1>2 DEF Next, Request, ProcessQueue, Ask, Parse, HandleItem, Crash, Start, vars, exchange

LEMMA OwnIdsGrow ==
  ASSUME Typed, [Next]_vars
  PROVE  OwnIds \subseteq OwnIds'
BY KindStays DEF OwnIds

\* The answers tell of the transfers they always did.
LEMMA OwnRecordsNext ==
  ASSUME Typed, OwnRecords, [Next]_vars
  PROVE  OwnRecords'
<1>1. ex' = ex
  BY DEF Next, Withdraw, Deposit, Finish, Request, ProcessQueue, Ask, Parse, HandleItem, Crash,
         Start, vars, exchange
<1> SUFFICES ASSUME ex \notin TwoIds
             PROVE  /\ \A p \in answers' : p.m = "WithdrawCreate" => \A t \in DOMAIN p.seen : kind'[t] = "withdraw"
                    /\ \A i \in items' : i.k = "withdraw" => i.id \in OwnIds'
                    /\ DOMAIN memory'["withdraw"] \subseteq OwnIds'
                    /\ DOMAIN tables'["withdraw"] \subseteq OwnIds'
  BY <1>1 DEF OwnRecords
<1>2. /\ \A p \in answers : p.m = "WithdrawCreate" => \A t \in DOMAIN p.seen : kind[t] = "withdraw"
      /\ \A i \in items : i.k = "withdraw" => i.id \in OwnIds
      /\ DOMAIN memory["withdraw"] \subseteq OwnIds
      /\ DOMAIN tables["withdraw"] \subseteq OwnIds
  BY DEF OwnRecords
<1>3. OwnIds \subseteq OwnIds'
  BY OwnIdsGrow
<1>4. \A p \in answers' : p.m = "WithdrawCreate" => \A t \in DOMAIN p.seen : kind'[t] = "withdraw"
  <2>1. \A p \in answers : p.m = "WithdrawCreate" => \A t \in DOMAIN p.seen : kind'[t] = "withdraw"
    BY <1>2, KindStays DEF Typed, AnswersOK
  <2>2. ASSUME NEW t \in Transfer, Withdraw(t)
        PROVE  \A p \in answers' : p.m = "WithdrawCreate" => \A u \in DOMAIN p.seen : kind'[u] = "withdraw"
    <3>1. kind'[t] = "withdraw"
      BY <2>2 DEF Withdraw, Typed, TypeOK
    <3>2. answers' = answers \cup {[m |-> "WithdrawCreate", seen |-> [u \in {t} |-> "pending"]]}
      BY <2>2 DEF Withdraw
    <3> QED
      BY <2>1, <3>1, <3>2
  <2>3. ASSUME NEW k \in Kinds, NEW scope, NEW keys, Ask(k, scope, keys)
        PROVE  \A p \in answers' : p.m = "WithdrawCreate" => p \in answers
    BY <2>3 DEF Ask, ListOf
  <2>4. CASE answers' \subseteq answers
    BY <2>1, <2>4
  <2> QED
    BY <2>1, <2>2, <2>3, <2>4 DEF Next, Deposit, Finish, Request, ProcessQueue, Parse, HandleItem, Crash, Start, vars
<1>5. \A i \in items' : i.k = "withdraw" => i.id \in OwnIds'
  <2>1. CASE items' \subseteq items
    BY <1>2, <1>3, <2>1
  <2>2. ASSUME NEW p \in answers, Parse(p), up, NEW i \in items', i.k = "withdraw"
        PROVE  i.id \in OwnIds'
    <3>0. ex \in Exchanges \ TwoIds /\ DOMAIN p.seen \subseteq Transfer
      BY DEF Typed, TypeOK, AnswersOK
    <3>1. CASE p.m = "WithdrawCreate"
      <4>1. PICK t \in DOMAIN p.seen :
              FundsAnswers[ex].created.id # "none" /\ i.id = IdOf(FundsAnswers[ex].created.id, t)
        BY <2>2, <3>1, CreatedItem DEF Parse
      <4>2. kind[t] = "withdraw" /\ FundsAnswers[ex].created.id = "own"
        BY <1>2, <3>0, <3>1, <4>1, ParsersKeepOwnIds DEF KeepsOwnIds
      <4> QED
        BY <1>3, <3>0, <4>1, <4>2 DEF OwnIds
    <3>2. CASE p.m # "WithdrawCreate"
      <4>1. PICK t \in DOMAIN p.seen :
              kind[t] \in KindsIn(p.m) /\ i.k = kind[t] /\ i.id = IdOf(ListSays(kind[t]).id, t)
        BY <2>2, <3>2, ListedItem DEF Parse
      <4>2. kind[t] = "withdraw" /\ ListSays(kind[t]).id = "own"
        BY <2>2, <3>0, <4>1, ParsersKeepOwnIds DEF KeepsOwnIds, KindsIn, ListSays
      <4> QED
        BY <1>3, <3>0, <4>1, <4>2 DEF OwnIds
    <3> QED
      BY <3>1, <3>2
  <2>3. ASSUME NEW p \in answers, Parse(p)
        PROVE  up \/ items' = items
    BY <2>3 DEF Parse
  <2> QED
    BY <2>1, <2>2, <2>3 DEF Next, Withdraw, Deposit, Finish, Request, ProcessQueue, Ask, HandleItem, Crash, Start, vars
<1>6. DOMAIN memory'["withdraw"] \subseteq OwnIds' /\ DOMAIN tables'["withdraw"] \subseteq OwnIds'
  <2>1. CASE UNCHANGED <<memory, tables>>
    BY <1>2, <1>3, <2>1
  <2>2. CASE HandleItem
    <3>1. PICK i \in items : File(i) \/ UNCHANGED <<memory, tables, faults, refused>>
      BY <2>2 DEF HandleItem
    <3>2. i.k \in Kinds
      BY DEF Typed, TypeOK
    <3>3. CASE File(i)
      <4>1. /\ Adds(memory, memory', i.k, i.id, i.st)
            /\ Adds(tables, tables', i.k, i.id, i.st) \/ tables' = tables
        BY <3>2, <3>3, Filed DEF File, Typed, ShapeOK
      <4> QED
        BY <1>2, <1>3, <4>1 DEF Adds, Kinds
    <3> QED
      BY <2>1, <3>1, <3>3
  <2>3. CASE Crash
    BY <1>2, <1>3, <2>3 DEF Crash, NoRecords, Kinds
  <2>4. CASE Start
    BY <1>2, <1>3, <2>4, LoadedShape DEF Start
  <2> QED
    BY <2>1, <2>2, <2>3, <2>4 DEF Next, Withdraw, Deposit, Finish, Request, ProcessQueue, Ask, Parse, vars
<1> QED
  BY <1>4, <1>5, <1>6

\* As many records as withdrawals.
LEMMA OwnRecordsCount ==
  ASSUME Typed, OwnRecords
  PROVE  OneRecordEach
<1> SUFFICES ASSUME ex \notin TwoIds PROVE OneRecordEach
  BY DEF OneRecordEach
<1> DEFINE made == {t \in Transfer : kind[t] = "withdraw"}
           f == [i \in DOMAIN memory["withdraw"] |-> i[2]]
<1>1. DOMAIN memory["withdraw"] \subseteq {IdOf("own", t) : t \in made}
  BY DEF OwnRecords, OwnIds
<1>2. IsFiniteSet(made)
  BY BalanceOK, FS_Subset
<1>3. f \in Injection(DOMAIN memory["withdraw"], made)
  <2>1. \A i \in DOMAIN memory["withdraw"] : f[i] \in made /\ i = IdOf("own", f[i])
    BY <1>1 DEF IdOf
  <2> QED
    BY <2>1 DEF Injection, IsInjective
<1>4. Cardinality(DOMAIN memory["withdraw"]) <= Cardinality(made)
  BY <1>2, <1>3, FS_Injection
<1> QED
  BY <1>1, <1>4 DEF OneRecordEach

-----------------------------------------------------------------------------
(* What a list said last *)

LEMMA HeardInit == Init => Heard /\ Told
BY DEF Init, Heard, Told, Shown, Final

LEMMA HeardNext ==
  ASSUME Typed, Heard, [Next]_vars
  PROVE  Heard'
<1>1. ~up' => items' = {} /\ \A t \in Transfer : news'[t] = "none"
  <2>1. CASE UNCHANGED <<up, items, news>>
    BY <2>1 DEF Heard
  <2>2. ASSUME NEW p \in answers, Parse(p), ~up'
        PROVE  UNCHANGED <<up, items, news>>
    BY <2>2 DEF Parse
  <2>3. CASE Crash
    BY <2>3 DEF Crash
  <2>4. HandleItem \/ Start => up'
    BY DEF HandleItem, Start
  <2>5. ASSUME NEW t \in Transfer, Withdraw(t) \/ Deposit(t) \/ Finish(t)
        PROVE  UNCHANGED <<up, items, news>>
    BY <2>5 DEF Withdraw, Deposit, Finish, history
  <2>6. ASSUME NEW k, NEW scope, NEW keys, Ask(k, scope, keys)
        PROVE  UNCHANGED <<up, items, news>>
    BY <2>6 DEF Ask, history
  <2>7. UNCHANGED vars => UNCHANGED <<up, items, news>>
    BY DEF vars, history
  <2>8. ~up' => (UNCHANGED <<up, items, news>> \/ Crash)
    BY <2>2, <2>4, <2>5, <2>6, <2>7 DEF Next, Request, ProcessQueue
  <2> QED
    BY <2>1, <2>3, <2>8
<1>2. ASSUME NEW t \in Transfer, news'[t] \in Final
      PROVE  kind'[t] \in Kinds
  <2>1. CASE news'[t] = news[t]
    BY <1>2, <2>1, KindStays DEF Heard, Typed, TypeOK, Kinds
  <2>2. ASSUME NEW p \in answers, Parse(p), news'[t] # news[t]
        PROVE  kind'[t] \in Kinds
    <3>1. kind[t] \in KindsIn(p.m) /\ kind' = kind
      BY <1>2, <2>2 DEF Parse, Final, exchange
    <3> QED
      BY <3>1 DEF KindsIn
  <2>3. CASE Crash
    BY <1>2, <2>3 DEF Crash, Final
  <2> QED
    BY <2>1, <2>2, <2>3 DEF Next, Withdraw, Deposit, Finish, Request, ProcessQueue, Ask, HandleItem,
         Start, vars, history
<1>3. \A p \in answers' : p.m = "WithdrawCreate" => \A t \in DOMAIN p.seen : p.seen[t] = "pending"
  <2>1. ASSUME NEW t \in Transfer, Withdraw(t)
        PROVE  \A p \in answers' : p.m = "WithdrawCreate" => \A u \in DOMAIN p.seen : p.seen[u] = "pending"
    BY <2>1 DEF Withdraw, Heard
  <2>2. ASSUME NEW k \in Kinds, NEW scope, NEW keys, Ask(k, scope, keys)
        PROVE  \A p \in answers' : p.m = "WithdrawCreate" => p \in answers
    BY <2>2 DEF Ask, ListOf
  <2>3. CASE answers' \subseteq answers
    BY <2>3 DEF Heard
  <2>4. \/ \E t \in Transfer : Withdraw(t)
        \/ \E k \in Kinds : \E scope, keys : Ask(k, scope, keys)
        \/ answers' \subseteq answers
    BY DEF Next, Deposit, Finish, Request, ProcessQueue, Parse, HandleItem, Crash, Start, vars
  <2> QED
    BY <2>1, <2>2, <2>3, <2>4 DEF Heard
<1> QED
  BY <1>1, <1>2, <1>3 DEF Heard

ToldOf(t) ==
  Shown(t) =>
    /\ \A i \in items : ItemOf(i, t) => i.st \in Words(t, news[t])
    /\ RecordSays(t) \/ \E i \in items : ItemOf(i, t)

\* An answer without transfer t changes nothing about it.
LEMMA ParseTold ==
  ASSUME Typed, Heard, Told, NEW p \in answers, Parse(p), NEW t \in Transfer
  PROVE  ToldOf(t)'
<1> SUFFICES ASSUME Shown(t)'
             PROVE  /\ \A i \in items' : ItemOf(i, t)' => i.st \in Words(t, news[t])'
                    /\ RecordSays(t)' \/ \E i \in items' : ItemOf(i, t)'
  BY DEF ToldOf
<1>1. UNCHANGED <<ex, kind, memory, up>> /\ items = {}
  BY DEF Parse, exchange, Quiet
<1>2. news'[t] \in Final /\ ListSays(kind[t]).id = "own" /\ Words(t, news'[t]) # {}
  BY <1>1 DEF Shown, ListSays, Words
<1>3. up
  BY <1>2 DEF Parse, Heard, Final
<1>4. news'[t] = IF t \notin DOMAIN p.seen \/ news[t] = "old" THEN news[t]
                 ELSE IF Rank(p.seen[t]) < Rank(news[t]) THEN "old"
                 ELSE IF p.m # "WithdrawCreate" /\ kind[t] \in KindsIn(p.m) THEN p.seen[t]
                 ELSE news[t]
  BY <1>3 DEF Parse
<1>5. CASE t \in DOMAIN p.seen /\ p.m # "WithdrawCreate" /\ kind[t] \in KindsIn(p.m)
  <2>1. news'[t] = p.seen[t] /\ p.seen[t] # "none"
    BY <1>2, <1>4, <1>5 DEF Final
  <2>2. items' \in Listings(p)
    BY <1>3, <1>5 DEF Parse
  <2>3. \E i \in items' : ItemOf(i, t)
    BY <1>2, <1>5, <2>1, <2>2, ListedTransfer DEF ItemOf
  <2>4. ASSUME NEW i \in items', ItemOf(i, t)
        PROVE  i.st \in Words(t, news'[t])
    <3>1. PICK u \in DOMAIN p.seen :
            /\ kind[u] \in KindsIn(p.m) /\ i.id = IdOf(ListSays(kind[u]).id, u)
            /\ i.st \in Words(u, p.seen[u])
      BY <2>2, ListedItem
    <3>2. u \in Transfer
      BY DEF Typed, AnswersOK
    <3>3. u = t
      BY <2>4, <3>1, <3>2, KindsInIds, OwnIsOne DEF ItemOf
    <3> QED
      BY <2>1, <3>1, <3>3
  <2> QED
    BY <1>1, <2>3, <2>4 DEF ItemOf, Words, ListSays
<1>6. CASE ~(t \in DOMAIN p.seen /\ p.m # "WithdrawCreate" /\ kind[t] \in KindsIn(p.m))
  <2>1. news'[t] = news[t]
    BY <1>2, <1>4, <1>6 DEF Final
  <2>2. ~(t \in DOMAIN p.seen /\ p.m = "WithdrawCreate")
    <3>1. Rank("pending") < Rank(news[t]) /\ news[t] # "old"
      BY <1>2, <2>1 DEF Rank, Final
    <3> QED
      BY <1>2, <1>4, <3>1 DEF Heard, Final
  <2>3. RecordSays(t)
    BY <1>1, <1>2, <2>1 DEF Told, Shown
  <2>4. ASSUME NEW i \in items', ItemOf(i, t)
        PROVE  FALSE
    <3>1. CASE p.m = "WithdrawCreate"
      <4>1. PICK u \in DOMAIN p.seen :
              FundsAnswers[ex].created.id # "none" /\ i.id = IdOf(FundsAnswers[ex].created.id, u)
        BY <1>3, <2>4, <3>1, CreatedItem DEF Parse
      <4>2. FundsAnswers[ex].created.id \in Hows
        BY <4>1, ParsersNameIds DEF NamesIds, Typed, TypeOK
      <4>3. u = t
        BY <2>4, <4>1, <4>2, OwnIsOne DEF ItemOf
      <4> QED
        BY <2>2, <3>1, <4>3
    <3>2. CASE p.m # "WithdrawCreate"
      <4>1. PICK u \in DOMAIN p.seen :
              kind[u] \in KindsIn(p.m) /\ i.id = IdOf(ListSays(kind[u]).id, u)
        BY <1>3, <2>4, <3>2, ListedItem DEF Parse
      <4>2. u \in Transfer
        BY DEF Typed, AnswersOK
      <4>3. u = t
        BY <2>4, <4>1, <4>2, KindsInIds, OwnIsOne DEF ItemOf
      <4> QED
        BY <1>6, <3>2, <4>1, <4>3
    <3> QED
      BY <3>1, <3>2
  <2> QED
    BY <1>1, <2>1, <2>3, <2>4 DEF ItemOf, RecordSays, Words, ListSays
<1> QED
  BY <1>5, <1>6

\* Filing an item keeps the record of every transfer, or writes its own.
LEMMA HandleItemTold ==
  ASSUME Typed, Heard, Told, HandleItem, NEW t \in Transfer
  PROVE  ToldOf(t)'
<1> SUFFICES ASSUME Shown(t)'
             PROVE  /\ \A i \in items' : ItemOf(i, t)' => i.st \in Words(t, news[t])'
                    /\ RecordSays(t)' \/ \E i \in items' : ItemOf(i, t)'
  BY DEF ToldOf
<1>1. UNCHANGED <<ex, kind, news>>
  BY DEF HandleItem, exchange
<1>2. /\ Shown(t)
      /\ \A i : ItemOf(i, t)' <=> ItemOf(i, t)
      /\ \A s : Words(t, s)' = Words(t, s)
  BY <1>1 DEF Shown, ItemOf, Words, ListSays
<1>3. /\ \A i \in items : ItemOf(i, t) => i.st \in Words(t, news[t])
      /\ RecordSays(t) \/ \E i \in items : ItemOf(i, t)
  BY <1>2 DEF Told
<1>4. PICK i \in items :
        /\ items' = items \ {i}
        /\ File(i) \/ (Known(i) /\ UNCHANGED <<memory, tables, faults, refused>>)
  BY DEF HandleItem
<1>5. i.k \in Kinds /\ kind[t] \in Kinds
  BY <1>2 DEF Typed, TypeOK, Heard, Shown
<1>6. /\ i.id \in DOMAIN memory'[i.k] /\ memory'[i.k][i.id] = i.st
      /\ \A k \in Kinds : \A j \in DOMAIN memory[k] :
           ~(k = i.k /\ j = i.id) => j \in DOMAIN memory'[k] /\ memory'[k][j] = memory[k][j]
  <2>1. CASE File(i)
    <3>1. Adds(memory, memory', i.k, i.id, i.st)
      BY <1>5, <2>1, Filed DEF File, Typed, ShapeOK
    <3> QED
      BY <1>5, <3>1 DEF Adds
  <2>2. CASE Known(i) /\ UNCHANGED <<memory, tables, faults, refused>>
    BY <2>2 DEF Known
  <2> QED
    BY <1>4, <2>1, <2>2
<1>7. \A j \in items' : ItemOf(j, t)' => j.st \in Words(t, news[t])'
  BY <1>1, <1>2, <1>3, <1>4
<1>8. CASE ItemOf(i, t)
  <2>1. RecordSays(t)'
    BY <1>1, <1>2, <1>3, <1>6, <1>8 DEF RecordSays, ItemOf
  <2> QED
    BY <1>7, <2>1
<1>9. CASE ~ItemOf(i, t)
  <2>1. RecordSays(t) => RecordSays(t)'
    BY <1>1, <1>2, <1>5, <1>6, <1>9 DEF RecordSays, ItemOf
  <2>2. (\E j \in items : ItemOf(j, t)) => \E j \in items' : ItemOf(j, t)'
    BY <1>2, <1>4, <1>9
  <2> QED
    BY <1>3, <1>7, <2>1, <2>2
<1> QED
  BY <1>8, <1>9

LEMMA ToldNext ==
  ASSUME Typed, Heard, Told, [Next]_vars
  PROVE  Told'
<1> SUFFICES ASSUME NEW t \in Transfer PROVE ToldOf(t)'
  BY DEF Told, ToldOf
<1>1. CASE UNCHANGED <<ex, items, memory, news>>
  <2>1. Shown(t)' => news[t] \in Final
    BY <1>1 DEF Shown
  <2>2. Shown(t)' => kind'[t] = kind[t]
    BY <2>1, KindStays DEF Heard, Kinds
  <2> QED
    BY <1>1, <2>2 DEF ToldOf, Told, Shown, ItemOf, RecordSays, Words, ListSays
<1>2. ASSUME NEW p \in answers, Parse(p)
      PROVE  ToldOf(t)'
  BY <1>2, ParseTold
<1>3. CASE HandleItem
  BY <1>3, HandleItemTold
<1>4. CASE Crash
  BY <1>4 DEF Crash, ToldOf, Shown, Final
<1>5. CASE Start
  BY <1>5 DEF Start, Heard, ToldOf, Shown, Final, history
<1> QED
  BY <1>1, <1>2, <1>3, <1>4, <1>5 DEF Next, Withdraw, Deposit, Finish, Request, ProcessQueue, Ask, vars,
       exchange, history

LEMMA ToldIsShown ==
  ASSUME Told
  PROVE  FinalIsShown
BY DEF Told, Shown, RecordSays, Words, FinalIsShown, Quiet

-----------------------------------------------------------------------------
(* Theorems *)

LEMMA InitIInv == Init => IInv
<1>1. Init => HashesMatch
  BY DEF Init, HashesMatch, NoRecords, Kinds
<1> QED
  BY <1>1, InitTyped, IInvParts

LEMMA NextIInv == IInv /\ [Next]_vars => IInv'
<1> SUFFICES ASSUME Typed, HashesMatch, [Next]_vars
             PROVE  Typed' /\ HashesMatch'
  BY IInvParts, PTL
<1>1. ASSUME NEW t \in Transfer, Withdraw(t)
      PROVE  Typed' /\ HashesMatch'
  BY <1>1, WithdrawTyped DEF Withdraw, HashesMatch, Phantom, history
<1>2. ASSUME NEW t \in Transfer, Deposit(t) \/ Finish(t)
      PROVE  Typed' /\ HashesMatch'
  <2>1. UNCHANGED <<up, memory, tables, refused>>
    BY <1>2 DEF Deposit, Finish, history
  <2> QED
    BY <1>2, <2>1, ExchangeTyped DEF HashesMatch, Phantom
<1>3. ASSUME NEW k \in Kinds, NEW scope \in SUBSET Transfer, NEW keys, Ask(k, scope, keys)
      PROVE  Typed' /\ HashesMatch'
  BY <1>3, AskTyped DEF Ask, HashesMatch, Phantom, history
<1>4. ASSUME NEW p \in answers, Parse(p)
      PROVE  Typed' /\ HashesMatch'
  BY <1>4, ParseTyped DEF Parse, HashesMatch, Phantom
<1>5. CASE HandleItem
  <2>1. PICK i \in items : File(i) \/ UNCHANGED <<memory, tables, faults, refused>>
    BY <1>5 DEF HandleItem
  <2>2. up /\ up'
    BY <1>5 DEF HandleItem
  <2>3. CASE File(i)
    BY <1>5, <2>2, <2>3, HandleItemTyped, FileMatches
  <2>4. CASE UNCHANGED <<memory, tables, faults, refused>>
    BY <1>5, <2>2, <2>4, HandleItemTyped DEF HashesMatch, Phantom
  <2> QED
    BY <2>1, <2>3, <2>4
<1>6. CASE Crash
  BY <1>6, CrashTyped DEF Crash, HashesMatch
<1>7. CASE Start
  BY <1>7, StartTyped, StartMatches
<1>8. CASE UNCHANGED vars
  BY <1>8 DEF vars, exchange, history, Typed, TypeOK, AnswersOK, ShapeOK, HashesMatch, Phantom
<1>9. ASSUME NEW k \in Kinds, Request(k)
      PROVE  Typed' /\ HashesMatch'
  BY <1>3, <1>9 DEF Request
<1>10. ASSUME NEW k \in Kinds, NEW t \in Transfer, ProcessQueue(k, t)
       PROVE  Typed' /\ HashesMatch'
  BY <1>3, <1>10 DEF ProcessQueue
<1> QED
  BY <1>1, <1>2, <1>4, <1>5, <1>6, <1>7, <1>8, <1>9, <1>10 DEF Next

\* Shapes, types and the agreement of hashes and tables are inductive.
THEOREM BalanceInvariant == Spec => []IInv
BY InitIInv, NextIInv, PTL DEF Spec

\* Hashes and tables hold the same records with the same status, across crashes, save
\* for refused writes and phantom deposits (BalanceWorker::onDeposits, onWithdraws and
\* the constructor), for all transfers, faults and exchanges.
THEOREM MemoryAlwaysSaved == Spec => []MemoryIsSaved
<1>1. IInv => MemoryIsSaved
  BY DEF IInv
<1> QED
  BY <1>1, BalanceInvariant, PTL

\* Withdrawals and their records correspond one to one, whether the worker heard of a
\* withdrawal from its creation, from a list or from both (BalanceWorker::onWithdraws,
\* with the ids the parsers give), save for the exchanges of TwoIds: for all transfers,
\* answers in any order, crashes and refused writes.
THEOREM OneRecordAlways == Spec => []OneRecordEach
<1>1. Init => Typed /\ OwnRecords
  BY InitTyped, OwnRecordsInit
<1>2. IInv /\ OwnRecords /\ [Next]_vars => OwnRecords'
  BY IInvParts, OwnRecordsNext
<1>3. IInv /\ OwnRecords => OneRecordEach
  BY IInvParts, OwnRecordsCount
<1> QED
  BY <1>1, <1>2, <1>3, BalanceInvariant, PTL DEF Spec

\* Once every item is filed, the record of a transfer that a list reported as final says
\* so, unless an older answer was read after that list (BalanceWorker::onDeposits,
\* onWithdraws): for all transfers, answers in any order, crashes and refused writes.
THEOREM FinalAlwaysShown == Spec => []FinalIsShown
<1>1. Init => Heard /\ Told
  BY HeardInit
<1>2. IInv /\ Heard /\ Told /\ [Next]_vars => Heard' /\ Told'
  BY IInvParts, HeardNext, ToldNext
<1>3. Told => FinalIsShown
  BY ToldIsShown
<1> QED
  BY <1>1, <1>2, <1>3, BalanceInvariant, PTL DEF Spec
=============================================================================
