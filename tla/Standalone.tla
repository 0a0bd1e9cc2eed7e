----------------------------- MODULE Standalone -----------------------------
(***************************************************************************)
(* The components that share no state with another one: the two sinks, of  *)
(* which the configuration starts one, the parts of the Binance account    *)
(* adapter, the circuit breaker and the arithmetic of a position. A        *)
(* behaviour of this module is one of one of them, which `part` chooses:   *)
(* the product of independent components has no behaviour worth checking   *)
(* that its factors do not have.                                           *)
(***************************************************************************)
EXTENDS Integers

CONSTANTS
  Streams, ObsStreams, Key, BATCH_SIZE, MaxAttempts, MaxRows, MaxFaults, MaxLives, MaxBreaks,
  Requests, MaxLinks, MaxCuts,
  Trades, SEEN_LIMIT, Copies,
  From, WINDOW, LIMIT, MaxTime, MaxTrades,
  Threads, THRESHOLD, MaxCount,
  Quantities, Prices, Fees, FeeRate, EPSILON, MaxDeals

ASSUME SinksAssumption ==
  /\ ObsStreams \subseteq Streams /\ DOMAIN Key = Streams
  /\ BATCH_SIZE \in Nat \ {0} /\ MaxAttempts \in Nat /\ MaxRows \in Nat
  /\ MaxFaults \in Nat /\ MaxLives \in Nat /\ MaxBreaks \in Nat
ASSUME AccountAssumption ==
  /\ MaxLinks \in Nat \ {0} /\ MaxCuts \in Nat /\ SEEN_LIMIT \in Nat \ {0} /\ Copies \in Nat
  /\ From \in Nat /\ WINDOW \in Nat \ {0} /\ LIMIT \in Nat \ {0} /\ MaxTime \in Nat \ {0}
ASSUME BreakerAssumption == THRESHOLD \in Nat /\ MaxCount \in Nat
ASSUME PositionAssumption ==
  /\ Quantities \subseteq Int \ {0} /\ Prices \subseteq Nat \ {0} /\ Fees \subseteq Int
  /\ FeeRate \in Nat /\ EPSILON \in Nat \ {0} /\ MaxDeals \in Nat

VARIABLES
  part,
  stage, cause, todo, writers, counters, files, rows, first, unclosed, blind, rowFaults, lives,
  ilpStage, ilpCause, ilpTodo, ilpRows, buffers, batch, attempts, link, wire, table, failedWrites, lost, abandoned, breaks,
  ws_api, step, handle, retried, pending, queue, writer, reader, cut, opened, executed, answers,
  seen_ortu, pending_tl, emitted, updates, lites, live, forgotten,
  clock, trades, phase, now_ms_all, window_start_ms, page_start, fetched, cutAt,
  failure_count, has_failed, state, is_testing, at, trips,
  amount, avp, realized, fees, dealt

Parquet == INSTANCE ParquetSink
QuestDb == INSTANCE QuestDbSink WITH
  Streams <- Streams \ ObsStreams,
  stage <- ilpStage, cause <- ilpCause, todo <- ilpTodo, rows <- ilpRows
Api == INSTANCE WsApi
Stream == INSTANCE UserStream
History == INSTANCE TradeHistory
Breaker == INSTANCE CircuitBreaker
Pos == INSTANCE Position WITH MaxTrades <- MaxDeals

parquetVars ==
  <<stage, cause, todo, writers, counters, files, rows, first, unclosed, blind, rowFaults, lives>>
questDbVars ==
  <<ilpStage, ilpCause, ilpTodo, ilpRows, buffers, batch, attempts, link, wire, table,
    failedWrites, lost, abandoned, breaks>>
apiVars ==
  <<ws_api, step, handle, retried, pending, queue, writer, reader, cut, opened, executed, answers>>
streamVars == <<seen_ortu, pending_tl, emitted, updates, lites, live, forgotten>>
historyVars == <<clock, trades, phase, now_ms_all, window_start_ms, page_start, fetched, cutAt>>
breakerVars == <<failure_count, has_failed, state, is_testing, at, trips>>
positionVars == <<amount, avp, realized, fees, dealt>>
sinkVars == <<parquetVars, questDbVars>>
accountVars == <<apiVars, streamVars, historyVars>>
restVars == <<breakerVars, positionVars>>
vars == <<part, sinkVars, accountVars, restVars>>

Init ==
  /\ part \in {"parquet", "questdb", "api", "stream", "history", "breaker", "position"}
  /\ Parquet!Init /\ QuestDb!Init /\ Api!Init /\ Stream!Init /\ History!Init
  /\ Breaker!Init /\ Pos!Init

Only(p, othersOfIts, others) ==
  part = p /\ UNCHANGED <<part, othersOfIts, others>>

RunParquet == Only("parquet", questDbVars, <<accountVars, restVars>>) /\ Parquet!Next
RunQuestDb == Only("questdb", parquetVars, <<accountVars, restVars>>) /\ QuestDb!Next
RunApi == Only("api", <<streamVars, historyVars>>, <<sinkVars, restVars>>) /\ Api!Next
RunStream == Only("stream", <<apiVars, historyVars>>, <<sinkVars, restVars>>) /\ Stream!Next
RunHistory == Only("history", <<apiVars, streamVars>>, <<sinkVars, restVars>>) /\ History!Next
RunBreaker == Only("breaker", positionVars, <<sinkVars, accountVars>>) /\ Breaker!Next
RunPosition == Only("position", breakerVars, <<sinkVars, accountVars>>) /\ Pos!Next

Next ==
  \/ RunParquet \/ RunQuestDb \/ RunApi \/ RunStream \/ RunHistory \/ RunBreaker \/ RunPosition

Spec == Init /\ [][Next]_vars

(***************************************************************************)
(* Properties: those of the components.                                    *)
(***************************************************************************)
TypeOK ==
  /\ Parquet!TypeOK /\ QuestDb!TypeOK /\ Api!TypeOK /\ Stream!TypeOK /\ History!TypeOK
  /\ Breaker!TypeOK /\ Pos!TypeOK

RowsOnce == Parquet!RowsOnce
FilesKept == Parquet!FilesKept
RowsExplained == QuestDb!RowsExplained
RequestsSound == Api!RequestsSound
TradesReported == Stream!TradesReported
HistoryComplete == History!HistoryComplete
NeverStuck == Breaker!NeverStuck
PositionExact == Pos!PositionExact
=============================================================================
