------------------------------ MODULE RexPool -------------------------------
(***************************************************************************)
(* The totals of the REX pool (the rexpool row of the system contract) and *)
(* what the helpers of rex.cpp do to them.  A pool that was never          *)
(* initialized and one that has been emptied behave alike, so the row is   *)
(* always there and NoRex is its initial value.                            *)
(***************************************************************************)
EXTENDS Integers

CONSTANTS
    rex_ratio,       \* REX issued per token by an empty pool, 10000 in the code
    init_total_rent  \* the virtual rent balance of an empty pool

ASSUME RexPoolAssumption ==
    /\ rex_ratio \in Nat \ {0}
    /\ init_total_rent \in Nat \ {0}

Pool == [total_lent : Nat, total_unlent : Nat, total_rent : Nat,
         total_lendable : Nat, total_rex : Nat]

\* What is lendable is what is lent and what is not, and belongs to someone.
PoolOK(pool) ==
    /\ pool \in Pool
    /\ pool.total_lendable = pool.total_unlent + pool.total_lent
    /\ pool.total_rex = 0 => pool.total_lendable = 0

NoRex == [total_lent |-> 0, total_unlent |-> 0, total_rent |-> 0,
          total_lendable |-> 0, total_rex |-> 0]

\* The quotient that converts shares to value and back: a * b / c, truncated.
MulDiv(a, b, c) == (a * b) \div c

rex_available(pool) == pool.total_rex > 0

(* add_to_rex_pool: REX bought with payment *)

CanAddToRexPool(pool) == rex_available(pool) => pool.total_lendable > 0

rex_received_RoundedUp(pool, payment) ==
    IF rex_available(pool)
    THEN MulDiv(pool.total_lendable + payment, pool.total_rex, pool.total_lendable)
         - pool.total_rex + 1
    ELSE payment * rex_ratio

rex_received(pool, payment) ==
    IF rex_available(pool)
    THEN MulDiv(pool.total_lendable + payment, pool.total_rex, pool.total_lendable)
         - pool.total_rex
    ELSE payment * rex_ratio

add_to_rex_pool(pool, payment) ==
    LET S1 == IF rex_available(pool) THEN pool.total_lendable + payment ELSE payment
        lent == IF rex_available(pool) THEN pool.total_lent ELSE 0
    IN  [total_lent |-> lent,
         total_unlent |-> S1 - lent,
         total_rent |-> IF rex_available(pool) THEN pool.total_rent ELSE init_total_rent,
         total_lendable |-> S1,
         total_rex |-> pool.total_rex + rex_received(pool, payment)]

(* fill_rex_order: rex sold, if enough of the pool is not lent *)

proceeds(pool, rex) == MulDiv(rex, pool.total_lendable, pool.total_rex)

CanFill_Strictly(pool, rex) ==
    proceeds(pool, rex) < pool.total_unlent - (2 * pool.total_lent) \div 10

CanFill(pool, rex) ==
    proceeds(pool, rex) <= pool.total_unlent - (2 * pool.total_lent) \div 10

fill_rex_order(pool, rex) ==
    LET S1 == pool.total_lendable - proceeds(pool, rex)
    IN  [total_lent |-> pool.total_lent,
         total_unlent |-> S1 - pool.total_lent,
         total_rent |-> pool.total_rent,
         total_lendable |-> S1,
         total_rex |-> pool.total_rex - rex]

(* channel_to_rex: income of the pool; without REX holders nothing is taken *)
channel_to_rex(pool, amount) ==
    IF rex_available(pool)
    THEN [total_lent |-> pool.total_lent,
          total_unlent |-> pool.total_unlent + amount,
          total_rent |-> pool.total_rent,
          total_lendable |-> pool.total_lendable + amount,
          total_rex |-> pool.total_rex]
    ELSE pool

(* Loans: what a payment rents, and what the pool lends and gets back *)

\* The Bancor formula: what inp buys out of out_reserve, truncated.
get_bancor_output(inp_reserve, out_reserve, inp) ==
    (inp * out_reserve) \div (inp_reserve + inp)

rented_tokens(pool, payment) ==
    get_bancor_output(pool.total_rent, pool.total_unlent, payment)

add_loan_to_rex_pool(pool, payment, rented) ==
    LET lent == pool.total_lent + rented
        unlent == pool.total_unlent - rented + payment
    IN  [total_lent |-> lent,
         total_unlent |-> unlent,
         total_rent |-> pool.total_rent + payment,
         total_lendable |-> unlent + lent,
         total_rex |-> pool.total_rex]

remove_loan_from_rex_pool(pool, staked) ==
    LET delta_total_rent == get_bancor_output(pool.total_unlent, pool.total_rent, staked)
        lent == pool.total_lent - staked
        unlent == pool.total_unlent + staked
    IN  [total_lent |-> lent,
         total_unlent |-> unlent,
         total_rent |-> pool.total_rent - delta_total_rent,
         total_lendable |-> unlent + lent,
         total_rex |-> pool.total_rex]

-----------------------------------------------------------------------------
(* Properties of two pools, one after the other                            *)

\* What a unit of REX is worth does not fall.
ValueKept(pool, next) ==
    rex_available(pool) /\ rex_available(next) =>
      pool.total_lendable * next.total_rex <= next.total_lendable * pool.total_rex
=============================================================================
