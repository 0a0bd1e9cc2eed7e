------------------------------ MODULE Position ------------------------------
(***************************************************************************)
(* src/src/xcommons/position.rs: a position with its average price, the    *)
(* profit realized and the fees. Quantities and prices are whole numbers   *)
(* and the average a fraction, so that nothing is rounded; quantities      *)
(* smaller than EPSILON stand for what floating-point arithmetic leaves    *)
(* over. The contract size is 1.                                           *)
(***************************************************************************)
EXTENDS Integers, Sequences

CONSTANTS
  Quantities, Prices,
  Fees,            \* what the exchange may charge for a trade
  FeeRate,         \* fee_percent
  EPSILON,
  MaxTrades        \* bound

VARIABLES
  amount,
  avp,             \* [num, den]
  realized,        \* [num, den]
  fees,
  dealt            \* the trades so far: quantity, price, fee and what was snapped off

vars == <<amount, avp, realized, fees, dealt>>

Abs(x) == IF x < 0 THEN -x ELSE x
Zero(x) == Abs(x) < EPSILON
Same(x, y) == (x < 0) <=> (y < 0)

Fraction(n) == [num |-> n, den |-> 1]
Plus(x, y) == [num |-> x.num * y.den + y.num * x.den, den |-> x.den * y.den]
Scaled(x, n) == [num |-> x.num * n, den |-> x.den]
Equal(x, y) == x.num * y.den = y.num * x.den

Init ==
  /\ amount = 0 /\ avp = Fraction(0) /\ realized = Fraction(0) /\ fees = 0 /\ dealt = << >>

\* A position is [amount, avp, realized] while a trade goes on.
increase_position(p, qty, price) ==
  [p EXCEPT
    !.amount = @ + qty,
    !.avp = IF Zero(p.amount) THEN Fraction(price)
            ELSE LET cost == Plus(Scaled(@, Abs(p.amount)), Fraction(price * Abs(qty)))
                 IN [cost EXCEPT !.den = @ * (Abs(qty) + Abs(p.amount))]]

decrease_position(p, qty, price) ==
  [p EXCEPT
    !.amount = @ + qty,
    !.realized = Plus(@, Scaled(Plus(Fraction(price), Scaled(p.avp, -1)), -qty))]

\* Mutant: crossing through zero opens the whole of the trade.
FlipWhole(p, qty, price) == increase_position(decrease_position(p, -p.amount, price), qty, price)
Flip(p, qty, price) ==
  increase_position(decrease_position(p, -p.amount, price), p.amount + qty, price)

Traded(p, qty, price) ==
  LET pending == p.amount + qty
  IN IF Zero(p.amount) THEN increase_position(p, qty, price)
     ELSE IF Zero(pending) THEN decrease_position(p, qty, price)
     ELSE IF ~ Same(p.amount, pending) THEN Flip(p, qty, price)
     ELSE IF Abs(pending) > Abs(p.amount) THEN increase_position(p, qty, price)
     ELSE decrease_position(p, qty, price)

\* What would leave the position nearly flat makes it flat.
Snapped(requested) == IF Zero(amount + requested) THEN -amount ELSE requested

\* trade_with_fee: the fee trade() computes is applied, and taken back if the
\* exchange says what it was.
trade(requested, price, charged) ==
  LET qty == Snapped(requested)
      p == Traded([amount |-> amount, avp |-> avp, realized |-> realized], qty, price)
      fee == IF charged = << >> THEN FeeRate * Abs(requested) * price ELSE charged[1]
  IN /\ Len(dealt) < MaxTrades
     /\ amount' = IF Zero(amount + qty) THEN 0 ELSE p.amount
     /\ avp' = p.avp /\ realized' = Plus(p.realized, Fraction(-fee)) /\ fees' = fees + fee
     /\ dealt' = Append(dealt, [qty |-> qty, price |-> price, fee |-> fee, off |-> requested - qty])

Next ==
  \E requested \in Quantities, price \in Prices :
    \/ trade(requested, price, << >>)
    \/ \E fee \in Fees : trade(requested, price, <<fee>>)

Spec == Init /\ [][Next]_vars

(***************************************************************************)
(* Properties.                                                             *)
(***************************************************************************)
TypeOK ==
  /\ amount \in Int /\ fees \in Int /\ avp.den > 0 /\ realized.den > 0
  /\ dealt \in Seq([qty : Int, price : Prices, fee : Int, off : Int])

Total(f(_)) == LET sum[i \in 0 .. Len(dealt)] == IF i = 0 THEN 0 ELSE sum[i - 1] + f(dealt[i])
               IN sum[Len(dealt)]

\* The books balance: however trades open, add to, reduce, close or turn the
\* position around, what it holds at its average price is what was paid for it
\* and has been realized. Nothing is left over that is smaller than EPSILON,
\* and no trade is changed by more than that.
PositionExact ==
  /\ amount = Total(LAMBDA d : d.qty) /\ fees = Total(LAMBDA d : d.fee)
  /\ Equal(Plus(Scaled(avp, amount), Scaled(realized, -1)),
           Fraction(Total(LAMBDA d : d.qty * d.price + d.fee)))
  /\ amount = 0 \/ (~ Zero(amount) /\ avp.num > 0)
  /\ \A i \in DOMAIN dealt : Zero(dealt[i].off)
=============================================================================
