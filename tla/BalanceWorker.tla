------------------------------- MODULE BalanceWorker -------------------------------
(***************************************************************************)
(* BalanceWorker keeps the deposits and withdrawals of every exchange: in  *)
(* two hashes and in two tables.  It asks for the lists again and again,   *)
(* hears of the answers, and of every withdrawal somebody creates, on its  *)
(* feed, and files what is new or has another status.  ExchangeClients and *)
(* ExchangeParsers say what a client asks and what its parser reports.     *)
(*                                                                         *)
(* Every transfer is in a currency of its own.  Balances, rates and        *)
(* required amounts are left out.  Items of one event are filed in one go. *)
(***************************************************************************)
EXTENDS Naturals, Sequences, FiniteSets, ExchangeClients, ExchangeParsers

CONSTANTS
  Transfer,     \* deposits and withdrawals
  Built,        \* address and amount of a transfer
  Outcomes,     \* bound: how a transfer may end
  MaxAnswers,   \* bound: answers not read yet
  MaxDeposits,  \* bound: deposits among them
  MaxFaults     \* bound: crashes and refused writes

ASSUME BalanceOK ==
  /\ IsFiniteSet(Transfer)
  /\ DOMAIN Built = Transfer
  /\ Outcomes \subseteq {"done", "failed"}
  /\ MaxAnswers \in Nat /\ MaxDeposits \in Nat /\ MaxFaults \in Nat

VARIABLES
  ex, separated,        \* the exchange, isSeparatedApi
  kind, real,           \* what a transfer is, its state at the exchange
  answers,              \* not read yet
  up,                   \* the worker runs
  items,                \* of the current events, not filed yet
  memory,               \* _transactions_deposits, _transactions_withdraws: status by id
  tables,               \* deposits, withdraws: status by remote_id
  faults,
  refused,              \* records whose last write failed (history)
  news                  \* the last state a list reported since the start, "old"
                        \* when an older answer was read afterwards (history)

exchange == <<ex, separated, kind, real>>
history == <<refused, news>>
vars == <<exchange, answers, up, items, memory, tables, faults, history>>

Kinds == {"deposit", "withdraw"}
Final == {"done", "failed"}
States == {"none", "pending"} \cup Final
Rank(s) == CASE s = "none" -> 0 [] s = "pending" -> 1 [] OTHER -> 2

\* What a record is filed under.  Each created withdrawal has a hash of its own.
IdOf(how, t) ==
  CASE how = "built" -> <<how, Built[t]>>
    [] how = "zero"  -> <<how, "0">>
    [] OTHER -> <<how, t>>
Ids == {IdOf(how, t) : how \in {"own", "built", "other", "zero", "empty"}, t \in Transfer}

NoRecords == [k \in Kinds |-> [i \in {} |-> ""]]
Put(f, i, s) == [j \in DOMAIN f \cup {i} |-> IF j = i THEN s ELSE f[j]]

Init ==
  /\ ex \in Exchanges /\ separated \in BOOLEAN
  /\ kind = [t \in Transfer |-> "none"] /\ real = [t \in Transfer |-> "none"]
  /\ answers = {} /\ items = {}
  /\ up = TRUE
  /\ memory = NoRecords /\ tables = NoRecords
  /\ faults = 0
  /\ refused = {}
  /\ news = [t \in Transfer |-> "none"]

Quiet == items = {}
Room == Cardinality(answers) < MaxAnswers

-----------------------------------------------------------------------------
(* The exchange *)

\* balance.withdraw, with everything its client insists on.
Withdraw(t) ==
  /\ Quiet /\ Room
  /\ kind[t] = "none"
  /\ SendsRequest(ex, "WithdrawCreate", Method(ex, "WithdrawCreate").needs)
  /\ kind' = [kind EXCEPT ![t] = "withdraw"] /\ real' = [real EXCEPT ![t] = "pending"]
  /\ answers' = answers \cup {[m |-> "WithdrawCreate", seen |-> [u \in {t} |-> "pending"]]}
  /\ UNCHANGED <<ex, separated, up, items, memory, tables, faults, history>>

Deposit(t) ==
  /\ Quiet
  /\ kind[t] = "none"
  /\ Cardinality({u \in Transfer : kind[u] = "deposit"}) < MaxDeposits
  /\ kind' = [kind EXCEPT ![t] = "deposit"] /\ real' = [real EXCEPT ![t] = "pending"]
  /\ UNCHANGED <<ex, separated, answers, up, items, memory, tables, faults, history>>

Finish(t) ==
  /\ Quiet
  /\ real[t] = "pending"
  /\ \E s \in Outcomes : real' = [real EXCEPT ![t] = s]
  /\ UNCHANGED <<ex, separated, kind, answers, up, items, memory, tables, faults, history>>

-----------------------------------------------------------------------------
(* Requests *)

ListOf(k) == IF k = "deposit" THEN "GetDeposits" ELSE "WithdrawHistory"

Ask(k, scope, keys) ==
  /\ up /\ Quiet /\ Room
  /\ SendsRequest(ex, ListOf(k), keys)
  /\ answers' = answers \cup {[m |-> ListOf(k), seen |-> [t \in scope |-> real[t]]]}
  /\ UNCHANGED <<exchange, up, items, memory, tables, faults, history>>

\* requestDeposits, requestWithdraws.
Request(k) == ~separated /\ Ask(k, Transfer, {})

\* processDepositsQueue, processWithdrawsQueue.  The two requests fill their
\* queue with every currency again and again, the queue serves each in turn;
\* which is next is left open.
ProcessQueue(k, t) == separated /\ Ask(k, {t}, {"currency_id"})

-----------------------------------------------------------------------------
(* Answers *)

ListSays(k) == IF k = "deposit" THEN FundsAnswers[ex].deposits ELSE FundsAnswers[ex].withdraws

\* The kinds of transfers the answer to a list holds.
KindsIn(m) ==
  {k \in Kinds : (m = ListOf(k) \/ FundsAnswers[ex].both) /\ ListSays(k).id # "none"}

\* The items of a list.
Listings(p) ==
  LET words(t) == ListSays(kind[t]).word[p.seen[t]]
      shown == {t \in DOMAIN p.seen :
                  p.seen[t] # "none" /\ kind[t] \in KindsIn(p.m) /\ words(t) # {}} IN
  {{[k |-> kind[t], id |-> IdOf(ListSays(kind[t]).id, t), st |-> f[t]] : t \in shown} :
     f \in {g \in [shown -> UNION {words(t) : t \in shown}] : \A t \in shown : g[t] \in words(t)}}

\* The result of a creation, as an item.
Creation(p) ==
  LET created == FundsAnswers[ex].created IN
  IF created.id = "none" THEN {}
  ELSE {[k |-> "withdraw", id |-> IdOf(created.id, t), st |-> created.word] : t \in DOMAIN p.seen}

\* The parser reads an answer, the client publishes it; the worker hears of
\* it when it runs.
Parse(p) ==
  /\ Quiet
  /\ answers' = answers \ {p}
  /\ IF up
     THEN /\ IF p.m = "WithdrawCreate" THEN items' = Creation(p) ELSE items' \in Listings(p)
          /\ news' = [t \in Transfer |->
                IF t \notin DOMAIN p.seen \/ news[t] = "old" THEN news[t]
                ELSE IF Rank(p.seen[t]) < Rank(news[t]) THEN "old"
                ELSE IF p.m # "WithdrawCreate" /\ kind[t] \in KindsIn(p.m) THEN p.seen[t]
                ELSE news[t]]
     ELSE UNCHANGED <<items, news>>
  /\ UNCHANGED <<exchange, up, memory, tables, faults, refused>>

\* A bug that could be: a record that is there is not looked at again.
KnownById(i) == i.id \in DOMAIN memory[i.k]

\* The record is there with this status.
Known(i) == i.id \in DOMAIN memory[i.k] /\ memory[i.k][i.id] = i.st

\* onDeposits, onWithdraws for one item: memory first, then the table.
File(i) ==
  /\ ~Known(i)
  /\ memory' = [memory EXCEPT ![i.k] = Put(@, i.id, i.st)]
  /\ \/ /\ tables' = [tables EXCEPT ![i.k] = Put(@, i.id, i.st)]
        /\ refused' = refused \ {<<i.k, i.id>>}
        /\ UNCHANGED faults
     \/ /\ faults < MaxFaults /\ faults' = faults + 1
        /\ refused' = refused \cup {<<i.k, i.id>>}
        /\ UNCHANGED tables

HandleItem ==
  /\ up
  /\ \E i \in items :
      /\ items' = items \ {i}
      /\ \/ File(i)
         \/ Known(i) /\ UNCHANGED <<memory, tables, faults, refused>>
  /\ UNCHANGED <<exchange, answers, up, news>>

Crash ==
  /\ up /\ faults < MaxFaults
  /\ faults' = faults + 1
  /\ up' = FALSE
  /\ items' = {}
  /\ memory' = NoRecords
  /\ refused' = {}
  /\ news' = [t \in Transfer |-> "none"]
  /\ UNCHANGED <<exchange, answers, tables>>

\* A bug that could be: withdrawals are not read back.
LoadedDeposits == [tables EXCEPT !["withdraw"] = NoRecords["withdraw"]]

\* The constructor reads both tables.  For the exchange of a withdrawal it
\* looks the withdrawal up among the deposits, which makes one there.
Loaded ==
  LET phantoms == DOMAIN tables["withdraw"] \ DOMAIN tables["deposit"] IN
  [tables EXCEPT !["deposit"] =
     [i \in DOMAIN @ \cup phantoms |-> IF i \in DOMAIN @ THEN @[i] ELSE ""]]

Start ==
  /\ ~up
  /\ up' = TRUE
  /\ memory' = Loaded
  /\ UNCHANGED <<exchange, answers, items, tables, faults, history>>

Next ==
  \/ \E t \in Transfer : Withdraw(t) \/ Deposit(t) \/ Finish(t)
  \/ \E k \in Kinds : Request(k) \/ \E t \in Transfer : ProcessQueue(k, t)
  \/ \E p \in answers : Parse(p)
  \/ HandleItem \/ Crash \/ Start

\* The timers of the five chains go off again and again, an answer is read
\* some time, and so is an event.
Fairness ==
  /\ \A k \in Kinds : SF_vars(Request(k)) /\ \A t \in Transfer : SF_vars(ProcessQueue(k, t))
  /\ \A m \in {"GetDeposits", "WithdrawHistory", "WithdrawCreate"} :
        WF_vars(\E p \in answers : p.m = m /\ Parse(p))
  /\ WF_vars(HandleItem) /\ WF_vars(Start)

Spec == Init /\ [][Next]_vars
FairSpec == Spec /\ Fairness

-----------------------------------------------------------------------------
(* Properties *)

TypeOK ==
  /\ ex \in Exchanges /\ separated \in BOOLEAN /\ up \in BOOLEAN
  /\ kind \in [Transfer -> Kinds \cup {"none"}] /\ real \in [Transfer -> States]
  /\ \A i \in items : DOMAIN i = {"k", "id", "st"} /\ i.k \in Kinds /\ i.id \in Ids
  /\ \A k \in Kinds : DOMAIN memory[k] \subseteq Ids /\ DOMAIN tables[k] \subseteq Ids
  /\ refused \subseteq Kinds \X Ids
  /\ news \in [Transfer -> States \cup {"old"}]

\* A withdrawal read back at the start and filed among the deposits too.
Phantom(k, i) ==
  /\ k = "deposit" /\ i \in DOMAIN tables["withdraw"] /\ i \notin DOMAIN tables["deposit"]
  /\ memory[k][i] = ""

\* Types; and memory and tables hold the same records with the same status, across
\* crashes, save for refused writes, which nobody repeats, and for the
\* phantom deposits of a start.
MemoryIsSaved ==
  /\ TypeOK
  /\ up => \A k \in Kinds :
       /\ DOMAIN tables[k] \subseteq DOMAIN memory[k]
       /\ \A i \in DOMAIN memory[k] :
            \/ i \in DOMAIN tables[k] /\ memory[k][i] = tables[k][i]
            \/ <<k, i>> \in refused
            \/ Phantom(k, i)

\* Exchanges whose list files a withdrawal under another id than its creation,
\* or under one that two withdrawals may share.
TwoIds == {"binance", "bitfinex", "exmo", "huobi", "kraken", "kucoin", "okcoin"}

\* Withdrawals and their records correspond one to one, whether the worker
\* heard of a withdrawal from its creation, from a list or from both.
OneRecordEach ==
  ex \notin TwoIds =>
    LET made == {t \in Transfer : kind[t] = "withdraw"} IN
    /\ Cardinality(DOMAIN memory["withdraw"]) <= Cardinality(made)
    /\ DOMAIN memory["withdraw"] \subseteq {IdOf("own", t) : t \in made}

\* The record of a transfer that a list reported as final since the start
\* says so, unless an older answer was read after that list.
FinalIsShown ==
  \A t \in Transfer :
    (/\ up /\ Quiet /\ news[t] \in Final
     /\ ListSays(kind[t]).id = "own" /\ ListSays(kind[t]).word[news[t]] # {}) =>
      LET id == IdOf("own", t) IN
      /\ id \in DOMAIN memory[kind[t]]
      /\ memory[kind[t]][id] \in ListSays(kind[t]).word[news[t]]

\* The exchange answers, and the worker asks, for transfers of this kind,
\* and the list does not leave this one out.
Listed(t) ==
  /\ real[t] \in Final
  /\ kind[t] \in KindsIn(ListOf(kind[t]))
  /\ SendsRequest(ex, ListOf(kind[t]), IF separated THEN {"currency_id"} ELSE {})
  /\ ListSays(kind[t]).word[real[t]] # {}

Saved(t) ==
  \E k \in Kinds : \E i \in DOMAIN tables[k] :
    /\ k = kind[t] /\ i = IdOf(ListSays(k).id, t)
    /\ tables[k][i] \in ListSays(k).word[real[t]]

WriteRefused(t) == <<kind[t], IdOf(ListSays(kind[t]).id, t)>> \in refused

\* What is final at the exchange is final in the table some time, but for a
\* refused write: only a start after that makes the worker write again.
FinalIsSaved ==
  \A t \in Transfer : Listed(t) ~> (Saved(t) \/ WriteRefused(t))
====================================================================================
