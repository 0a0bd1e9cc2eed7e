----------------------------- MODULE UserStream -----------------------------
(***************************************************************************)
(* src/src/exchanges/binance_account.rs, the task of subscribe_live:       *)
(* Binance tells of a trade twice, with a TRADE_LITE and with an           *)
(* ORDER_TRADE_UPDATE, in any order. The second is emitted at once; the    *)
(* first waits in pending_tl for it and is emitted in its place when a     *)
(* text frame comes 1.5 seconds later. seen_ortu remembers the trades that *)
(* have been emitted from an ORDER_TRADE_UPDATE, and is cleared as a whole *)
(* when it is too large.                                                   *)
(***************************************************************************)
EXTENDS Naturals, Sequences, FiniteSets, Functions

CONSTANTS
  Trades,
  SEEN_LIMIT,      \* seen_ortu is cleared when it has more entries
  Copies           \* bound: how often an ORDER_TRADE_UPDATE may come

VARIABLES
  seen_ortu,
  pending_tl,      \* trade -> "young" or "old"
  emitted,         \* what was emitted for each trade, in order
  updates, lites,  \* how often each message has come
  live,            \* whether the task runs
  forgotten        \* trades that were in seen_ortu when it was cleared

vars == <<seen_ortu, pending_tl, emitted, updates, lites, live, forgotten>>

Init ==
  /\ seen_ortu = {} /\ pending_tl = << >> /\ emitted = [t \in Trades |-> << >>]
  /\ updates = [t \in Trades |-> 0] /\ lites = [t \in Trades |-> 0]
  /\ live = TRUE /\ forgotten = {}

\* What has waited for 1.5 seconds is emitted, after the frame was handled.
Old(tl) == {t \in DOMAIN tl : tl[t] = "old"}
Flush(tl, out) ==
  /\ pending_tl' = Restrict(tl, DOMAIN tl \ Old(tl))
  /\ emitted' = [t \in Trades |-> IF t \in Old(tl) THEN Append(out[t], "TL") ELSE out[t]]

\* seen_ortu is cleared with the trade just inserted in it. Mutants: it is
\* cleared one entry late; the trade's TRADE_LITE is left to wait.
RememberOneMore(seen) == IF Cardinality(seen) > SEEN_LIMIT + 1 THEN {} ELSE seen
Remember(seen) == IF Cardinality(seen) > SEEN_LIMIT THEN {} ELSE seen
LeavePending(t) == pending_tl
DropPending(t) == Restrict(pending_tl, DOMAIN pending_tl \ {t})
OrderTradeUpdate(t) ==
  /\ live /\ updates[t] < Copies /\ updates' = [updates EXCEPT ![t] = @ + 1]
  /\ IF t \in seen_ortu THEN UNCHANGED <<seen_ortu, pending_tl, emitted, forgotten>>
     ELSE /\ seen_ortu' = Remember(seen_ortu \cup {t})
          /\ forgotten' = forgotten \cup ((seen_ortu \cup {t}) \ seen_ortu')
          /\ Flush(DropPending(t), [emitted EXCEPT ![t] = Append(@, "ORTU")])
  /\ UNCHANGED <<lites, live>>

TradeLite(t) ==
  /\ live /\ lites[t] = 0 /\ lites' = [lites EXCEPT ![t] = 1]
  /\ IF t \in seen_ortu THEN UNCHANGED <<pending_tl, emitted>>
     ELSE Flush([x \in DOMAIN pending_tl \cup {t} |->
                   IF x \in DOMAIN pending_tl THEN pending_tl[x] ELSE "young"], emitted)
  /\ UNCHANGED <<seen_ortu, updates, live, forgotten>>

\* Any other text frame, a cancellation among them.
OtherText ==
  /\ live /\ Old(pending_tl) # {} /\ Flush(pending_tl, emitted)
  /\ UNCHANGED <<seen_ortu, updates, lites, live, forgotten>>

Wait(t) ==
  /\ live /\ t \in DOMAIN pending_tl /\ pending_tl[t] = "young"
  /\ pending_tl' = [pending_tl EXCEPT ![t] = "old"]
  /\ UNCHANGED <<seen_ortu, emitted, updates, lites, live, forgotten>>

\* The connection is closed, fails or has been idle for 180 seconds: what is
\* pending goes with it.
End ==
  /\ live /\ live' = FALSE /\ pending_tl' = << >>
  /\ UNCHANGED <<seen_ortu, emitted, updates, lites, forgotten>>

Next == End \/ OtherText \/ \E t \in Trades : OrderTradeUpdate(t) \/ TradeLite(t) \/ Wait(t)

Spec == Init /\ [][Next]_vars

(***************************************************************************)
(* Properties.                                                             *)
(***************************************************************************)
TypeOK ==
  /\ seen_ortu \subseteq Trades /\ Cardinality(seen_ortu) <= SEEN_LIMIT
  /\ DOMAIN pending_tl \subseteq Trades /\ forgotten \subseteq Trades /\ live \in BOOLEAN

\* A trade is emitted twice only when its TRADE_LITE was emitted before its
\* ORDER_TRADE_UPDATE came, or when seen_ortu has been cleared of it; and the
\* TRADE_LITE is never emitted after the update otherwise. A trade of which
\* the stream heard is emitted or, while the stream lives, about to be.
TradesReported ==
  \A t \in Trades :
    /\ t \in forgotten \/ emitted[t] \in {<< >>, <<"TL">>, <<"ORTU">>, <<"TL", "ORTU">>}
    /\ updates[t] > 0 => \E i \in DOMAIN emitted[t] : emitted[t][i] = "ORTU"
    /\ live /\ lites[t] > 0 => emitted[t] # << >> \/ t \in DOMAIN pending_tl
=============================================================================
