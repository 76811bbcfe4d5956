----------------------------- MODULE MCPricing -----------------------------
(***************************************************************************)
(* A small instance of Pricing: sales of one target that history can       *)
(* match, in two sizes, with prices on both sides of the median; the same  *)
(* target under its own name; a row whose last cell is empty.              *)
(***************************************************************************)
EXTENDS Pricing

P6000   == <<"nike", "p-6000">>
AirMax  == <<"nike", "air", "max", "95">>
Sneaker == <<"sneaker">> \o P6000   \* normalized to what MatchModel returns

\* A row with all it needs.
Row(model, product, size, condition, cents) ==
  [model |-> model, product |-> product, size |-> size, condition |-> condition,
   purchase |-> 1000, cents |-> cents, readable |-> TRUE, complete |-> TRUE]

\* The rows an estimate can be made of, spelled one way and another...
MCComparable ==
  {Row(Sneaker, <<>>, <<"42">>, "good", c) : c \in {2000, 9000}}
    \cup {Row(Sneaker, <<>>, <<"eu", "42">>, "great", 3500),
          Row(Sneaker, <<>>, <<"43">>, "good", 3001),
          Row(Sneaker, <<>>, <<"43">>, "very good", 6000)}

\* ... and with rows that look as if they could.
OwnName == Row(P6000, Tail(P6000), <<"42">>, "good", 3500)
MCRows  ==
  MCComparable
    \cup {OwnName, [OwnName EXCEPT !.model = <<"p", "6000", "nike">>],
          [Row(Sneaker, <<>>, <<"42">>, "good", 3500) EXCEPT !.complete = FALSE]}

Listing(models, size, condition, cents) ==
  [models |-> models, size |-> size, condition |-> condition, cents |-> cents]

MCListings ==
  {Listing({P6000}, <<"42">>, "good", c) : c \in {700, 2200}}
    \cup {Listing({P6000}, <<"43">>, "good", 1000), Listing({P6000}, <<"43">>, "very good", 1000),
          Listing({P6000}, <<"42">>, "", 700), Listing({P6000}, <<>>, "good", 700),
          Listing({P6000, AirMax}, <<"42">>, "good", 700), Listing({AirMax}, <<"42">>, "okay", 700)}

MCRules == [m \in {P6000} |-> 3500]

=============================================================================
