--------------------------- MODULE RexPoolProofs ----------------------------
(***************************************************************************)
(* Lemmas about truncating division and about the operators of RexPool.    *)
(***************************************************************************)
EXTENDS RexPool, TLAPS

\* The whole intervals in t seconds do not exceed the t seconds.
LEMMA DivLower ==
    ASSUME NEW t \in Nat, NEW d \in Nat \ {0}
    PROVE  t \div d \in Nat /\ (t \div d) * d <= t
BY SMT

LEMMA DivAtLeast ==
    ASSUME NEW n \in Int, NEW d \in Nat \ {0}, NEW q \in Int, q * d <= n
    PROVE  n \div d \in Int /\ q <= n \div d
BY SMT

LEMMA DivAtMost ==
    ASSUME NEW n \in Int, NEW d \in Nat \ {0}, NEW q \in Int, n < (q + 1) * d
    PROVE  n \div d \in Int /\ n \div d <= q
BY SMT

\* Converting a part a <= c of the shares gives at most the whole value b.
LEMMA MulDivPart ==
    ASSUME NEW a \in Nat, NEW b \in Nat, NEW c \in Nat \ {0}, a <= c
    PROVE  MulDiv(a, b, c) \in Nat /\ MulDiv(a, b, c) <= b
<1> DEFINE n == a * b
<1>1. n \in Nat /\ n <= b * c
  BY SMT
<1>2. n < (b + 1) * c /\ 0 * c <= n
  BY <1>1, SMT
<1> HIDE DEF n
<1>3. n \div c \in Int /\ n \div c <= b /\ 0 <= n \div c
  BY <1>1, <1>2, DivAtMost, DivAtLeast
<1> QED
  BY <1>3 DEF n, MulDiv

\* Buying REX from a pool whose totals agree leaves totals that agree.
LEMMA AddToRexPoolOK ==
    ASSUME NEW pool \in Pool, PoolOK(pool), CanAddToRexPool(pool), NEW payment \in Nat
    PROVE  PoolOK(add_to_rex_pool(pool, payment))
<1> USE RexPoolAssumption DEF PoolOK, Pool
<1>1. CASE rex_available(pool)
  <2> DEFINE S == pool.total_lendable
             R == pool.total_rex
             n == (S + payment) * R
  <2>1. S \in Nat \ {0} /\ R \in Nat
    BY <1>1 DEF CanAddToRexPool, rex_available
  <2>2. n \in Int /\ R * S <= n
    BY <2>1, SMT
  <2> HIDE DEF n
  <2>3. n \div S \in Int /\ R <= n \div S
    BY <2>1, <2>2, DivAtLeast
  <2>4. rex_received(pool, payment) \in Nat
    BY <1>1, <2>1, <2>3, SMT DEF n, rex_received, MulDiv
  <2> QED
    BY <1>1, <2>1, <2>4, SMT DEF add_to_rex_pool, rex_available
<1>2. CASE ~rex_available(pool)
  <2>1. rex_received(pool, payment) \in Nat /\ (rex_received(pool, payment) = 0 => payment = 0)
    BY <1>2, SMT DEF rex_received
  <2> QED
    BY <1>2, <2>1, SMT DEF add_to_rex_pool, rex_available
<1> QED
  BY <1>1, <1>2

\* Selling no more REX than there is leaves totals that agree.
LEMMA FillRexOrderOK ==
    ASSUME NEW pool \in Pool, PoolOK(pool), NEW rex \in 1..pool.total_rex, CanFill(pool, rex)
    PROVE  PoolOK(fill_rex_order(pool, rex))
<1> USE DEF PoolOK, Pool
<1> DEFINE p == proceeds(pool, rex)
<1>1. pool.total_rex \in Nat \ {0} /\ pool.total_lendable \in Nat /\ rex \in Nat /\ rex <= pool.total_rex
  BY SMT
<1>2. p \in Nat
  BY <1>1, MulDivPart DEF proceeds
<1>3. p <= pool.total_unlent
  BY <1>2, SMT DEF CanFill
<1>5. pool.total_rex - rex = 0 => pool.total_lendable - p = 0
  <2> SUFFICES ASSUME rex = pool.total_rex PROVE p = pool.total_lendable
    BY <1>1, <1>2, SMT
  <2> DEFINE n == rex * pool.total_lendable
  <2>1. n \in Nat /\ pool.total_lendable * rex <= n /\ n < (pool.total_lendable + 1) * rex
    BY <1>1, SMT
  <2> HIDE DEF n
  <2>2. n \div rex = pool.total_lendable
    BY <1>1, <2>1, DivAtLeast, DivAtMost, SMT
  <2> QED
    BY <2>2 DEF n, proceeds, MulDiv
<1> HIDE DEF p
<1>4. fill_rex_order(pool, rex) =
        [total_lent |-> pool.total_lent,
         total_unlent |-> pool.total_lendable - p - pool.total_lent,
         total_rent |-> pool.total_rent,
         total_lendable |-> pool.total_lendable - p,
         total_rex |-> pool.total_rex - rex]
  BY DEF p, fill_rex_order
<1> QED
  BY <1>1, <1>2, <1>3, <1>4, <1>5, SMT

LEMMA ChannelToRexOK ==
    ASSUME NEW pool \in Pool, PoolOK(pool), NEW amount \in Nat
    PROVE  PoolOK(channel_to_rex(pool, amount))
BY SMT DEF PoolOK, Pool, channel_to_rex, rex_available

-----------------------------------------------------------------------------
(* Loans                                                                   *)

\* The Bancor formula never gives out more than there is, and all of it only
\* when there was nothing to begin with.
LEMMA BancorBound ==
    ASSUME NEW inp_reserve \in Nat, NEW out_reserve \in Nat, NEW inp \in Nat,
           inp_reserve + inp > 0
    PROVE  get_bancor_output(inp_reserve, out_reserve, inp) \in 0..out_reserve
<1>1. inp <= inp_reserve + inp /\ inp_reserve + inp \in Nat \ {0}
  BY SMT
<1>2. /\ MulDiv(inp, out_reserve, inp_reserve + inp) \in Nat
      /\ MulDiv(inp, out_reserve, inp_reserve + inp) <= out_reserve
  BY <1>1, MulDivPart
<1> QED
  BY <1>2 DEF MulDiv, get_bancor_output

\* A loan leaves totals that agree, and takes no more than was not lent.
LEMMA AddLoanOK ==
    ASSUME NEW pool \in Pool, PoolOK(pool), rex_available(pool), NEW payment \in Nat \ {0}
    PROVE  PoolOK(add_loan_to_rex_pool(pool, payment, rented_tokens(pool, payment)))
<1> DEFINE rented == rented_tokens(pool, payment)
<1>1. pool.total_rent \in Nat /\ pool.total_unlent \in Nat /\ pool.total_rent + payment > 0
  BY SMT DEF Pool
<1>2. rented \in 0..pool.total_unlent
  BY <1>1, BancorBound DEF rented_tokens
<1> HIDE DEF rented
<1>3. PoolOK(add_loan_to_rex_pool(pool, payment, rented))
  BY <1>2, SMT DEF PoolOK, Pool, add_loan_to_rex_pool, rex_available
<1> QED
  BY <1>3 DEF rented

\* The end of a loan leaves totals that agree, and gives back what was lent.
LEMMA RemoveLoanOK ==
    ASSUME NEW pool \in Pool, PoolOK(pool), NEW staked \in 1..pool.total_lent
    PROVE  PoolOK(remove_loan_from_rex_pool(pool, staked))
<1> DEFINE delta == get_bancor_output(pool.total_unlent, pool.total_rent, staked)
<1>1. /\ pool.total_rent \in Nat /\ pool.total_unlent \in Nat /\ staked \in Nat
      /\ pool.total_unlent + staked > 0
  BY SMT DEF Pool
<1>2. delta \in 0..pool.total_rent
  BY <1>1, BancorBound
<1> HIDE DEF delta
<1>3. remove_loan_from_rex_pool(pool, staked) =
        [total_lent |-> pool.total_lent - staked,
         total_unlent |-> pool.total_unlent + staked,
         total_rent |-> pool.total_rent - delta,
         total_lendable |-> pool.total_unlent + staked + (pool.total_lent - staked),
         total_rex |-> pool.total_rex]
  BY DEF delta, remove_loan_from_rex_pool
<1> QED
  BY <1>2, <1>3, SMT DEF PoolOK, Pool

-----------------------------------------------------------------------------
(* The value of REX                                                        *)

\* A quotient is rounded so that it gives back no more than was put in.
LEMMA DivTimes ==
    ASSUME NEW n \in Nat, NEW d \in Nat \ {0}
    PROVE  n \div d \in Nat /\ d * (n \div d) <= n
BY SMT

\* Whoever buys REX pays at least what it is worth.
THEOREM PurchaseKeepsValue ==
    ASSUME NEW pool \in Pool, PoolOK(pool), CanAddToRexPool(pool), NEW payment \in Nat
    PROVE  ValueKept(pool, add_to_rex_pool(pool, payment))
<1> SUFFICES ASSUME rex_available(pool) PROVE ValueKept(pool, add_to_rex_pool(pool, payment))
  BY DEF ValueKept
<1> DEFINE S == pool.total_lendable
           R == pool.total_rex
           n == (S + payment) * R
           next == add_to_rex_pool(pool, payment)
<1>1. S \in Nat \ {0} /\ R \in Nat
  BY DEF CanAddToRexPool, PoolOK, Pool
<1>2. n \in Nat
  BY <1>1, SMT
<1>3. next.total_lendable = S + payment /\ next.total_rex = R + (n \div S - R)
  BY DEF add_to_rex_pool, rex_received, MulDiv
<1> HIDE DEF n, next
<1>4. n \div S \in Nat /\ S * (n \div S) <= n
  BY <1>1, <1>2, DivTimes
<1>5. next.total_rex = n \div S
  BY <1>1, <1>3, <1>4, SMT
<1>6. S * next.total_rex <= next.total_lendable * R
  BY <1>3, <1>4, <1>5 DEF n
<1> QED
  BY <1>6 DEF ValueKept, next

\* Whoever sells REX gets at most what it is worth.
THEOREM SaleKeepsValue ==
    ASSUME NEW pool \in Pool, PoolOK(pool), NEW rex \in 1..pool.total_rex
    PROVE  ValueKept(pool, fill_rex_order(pool, rex))
<1> DEFINE S == pool.total_lendable
           R == pool.total_rex
           n == rex * S
           next == fill_rex_order(pool, rex)
<1>1. S \in Nat /\ R \in Nat \ {0} /\ rex \in Nat
  BY SMT DEF PoolOK, Pool
<1>2. n \in Nat
  BY <1>1, SMT
<1>3. next.total_lendable = S - n \div R /\ next.total_rex = R - rex
  BY DEF fill_rex_order, proceeds, MulDiv
<1>4. n = rex * S
  OBVIOUS
<1> HIDE DEF n, next
<1>5. n \div R \in Nat /\ R * (n \div R) <= n
  BY <1>1, <1>2, DivTimes
<1> DEFINE p == n \div R
<1>6. p \in Nat /\ R * p <= rex * S
  BY <1>4, <1>5
<1>7. next.total_lendable = S - p
  BY <1>3
<1> HIDE DEF p
<1>8. S * (R - rex) <= (S - p) * R
  BY <1>1, <1>6, SMT
<1> QED
  BY <1>3, <1>7, <1>8 DEF ValueKept, next

\* A loan that is made brings its payment, one that ends takes nothing, and
\* what is channelled to the pool stays there.
THEOREM IncomeKeepsValue ==
    ASSUME NEW pool \in Pool, PoolOK(pool), NEW amount \in Nat
    PROVE  /\ ValueKept(pool, channel_to_rex(pool, amount))
           /\ \A rented \in Int : ValueKept(pool, add_loan_to_rex_pool(pool, amount, rented))
           /\ \A staked \in Nat : ValueKept(pool, remove_loan_from_rex_pool(pool, staked))
<1> DEFINE S == pool.total_lendable
           R == pool.total_rex
<1>1. S \in Nat /\ R \in Nat /\ S = pool.total_unlent + pool.total_lent
      /\ pool.total_unlent \in Nat /\ pool.total_lent \in Nat
  BY DEF PoolOK, Pool
<1>2. S * R <= (S + amount) * R
  BY <1>1, SMT
<1>3. ValueKept(pool, channel_to_rex(pool, amount))
  BY <1>2 DEF ValueKept, channel_to_rex
<1>4. ASSUME NEW rented \in Int PROVE ValueKept(pool, add_loan_to_rex_pool(pool, amount, rented))
  <2> DEFINE next == add_loan_to_rex_pool(pool, amount, rented)
  <2>1. next.total_lendable = S + amount /\ next.total_rex = R
    BY <1>1, SMT DEF add_loan_to_rex_pool
  <2> HIDE DEF next
  <2>2. S * next.total_rex <= next.total_lendable * R
    BY <1>2, <2>1
  <2> QED
    BY <2>2 DEF ValueKept, next
<1>5. ASSUME NEW staked \in Nat PROVE ValueKept(pool, remove_loan_from_rex_pool(pool, staked))
  <2> DEFINE next == remove_loan_from_rex_pool(pool, staked)
  <2>1. next.total_lendable = S /\ next.total_rex = R
    BY <1>1, SMT DEF remove_loan_from_rex_pool
  <2> HIDE DEF next
  <2>2. S * next.total_rex <= next.total_lendable * R
    BY <1>1, <2>1, SMT
  <2> QED
    BY <2>2 DEF ValueKept, next
<1> QED
  BY <1>3, <1>4, <1>5
=============================================================================
