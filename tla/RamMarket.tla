----------------------------- MODULE RamMarket ------------------------------
(***************************************************************************)
(* The market that sells RAM for tokens (exchange_state.cpp), and what the *)
(* administration does to its supply (eosio.system.cpp).  Of the tables    *)
(*   market  the two reserves: base, in bytes, and quote, in tokens        *)
(*   ram     of the global row: max_ram_size, total_ram_bytes_reserved as  *)
(*           reserved, total_ram_stake as stake, last_ram_increase,        *)
(*           new_ram_per_block                                             *)
(* Amounts become doubles in the code for the length of a formula, whose   *)
(* result is truncated: at the sizes that occur a division of integers.    *)
(***************************************************************************)
EXTENDS Integers

\* The market that init sets up.
NewMarket(free_ram, supply) == [base |-> free_ram, quote |-> supply \div 1000]

get_bancor_output_RoundedUp(inp_reserve, out_reserve, inp) ==
    (inp * out_reserve + inp_reserve + inp - 1) \div (inp_reserve + inp)

get_bancor_output(inp_reserve, out_reserve, inp) ==
    (inp * out_reserve) \div (inp_reserve + inp)

\* What would have to be put in to get out so much, less than the reserve.
get_bancor_input(out_reserve, inp_reserve, out) ==
    (inp_reserve * out) \div (out_reserve - out)

BytesFor(market, tokens) == get_bancor_output(market.quote, market.base, tokens)
TokensFor(market, bytes) == get_bancor_output(market.base, market.quote, bytes)

\* direct_convert, one way and the other.
BytesBought(market, tokens) ==
    [base |-> market.base - BytesFor(market, tokens), quote |-> market.quote + tokens]
BytesSold(market, bytes) ==
    [base |-> market.base + bytes, quote |-> market.quote - TokensFor(market, bytes)]

\* Half a percent, rounded up.
RamFee(tokens) == (tokens + 199) \div 200

MoreRam(t, bytes) == [t EXCEPT !.ram.max_ram_size = @ + bytes, !.market.base = @ + bytes]

\* RAM grows by a number of bytes in every block.
update_ram_supply(t) ==
    IF t.now <= t.ram.last_ram_increase THEN t
    ELSE LET new_ram == (t.now - t.ram.last_ram_increase) * t.ram.new_ram_per_block
         IN  [MoreRam(t, new_ram) EXCEPT !.ram.last_ram_increase = t.now]
=============================================================================
