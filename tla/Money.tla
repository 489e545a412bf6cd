------------------------------- MODULE Money -------------------------------
(* shared.Money: amounts are int64, here of a smaller width, and Mul and    *)
(* Add wrap around silently.                                                *)

EXTENDS Integers, Sequences

CONSTANTS
  MaxInt,      \* the largest amount
  Currencies   \* codes of three characters, each of one byte

DefaultCurrency == "USD"

ASSUME MoneyAssumption ==
  MaxInt \in Nat \ {0} /\ Currencies \subseteq STRING /\ DefaultCurrency \in Currencies

\* Two's complement with 2 * (MaxInt + 1) values.
Wrap(n) == ((n + MaxInt + 1) % (2 * (MaxInt + 1))) - (MaxInt + 1)

\* Variant: zero is refused as well.
ValidMoneyPositive(amount, currency) == amount > 0 /\ currency \in Currencies

\* NewMoney refuses a negative amount and a code that is not three bytes long;
\* MustMoney panics on them.
ValidMoney(amount, currency) == amount >= 0 /\ currency \in Currencies

Mul(amount, quantity) == Wrap(amount * quantity)
Add(a, b) == Wrap(a + b)

\* NewOrder: the subtotals of the lines, summed in order.
Total(lines) ==
  LET sum[n \in 0 .. Len(lines)] ==
        IF n = 0 THEN 0 ELSE Add(sum[n - 1], Mul(lines[n].price, lines[n].quantity))
  IN sum[Len(lines)]

\* The same without wrapping.
ExactTotal(lines) ==
  LET sum[n \in 0 .. Len(lines)] ==
        IF n = 0 THEN 0 ELSE sum[n - 1] + lines[n].price * lines[n].quantity
  IN sum[Len(lines)]
=============================================================================
