------------------------------ MODULE Pricing ------------------------------
(***************************************************************************)
(* What a listing is judged by: the rows of the sales sheet as Syncer.Sync *)
(* and history.ParseCSV read them, the resale estimate that                *)
(* pricing.Estimator makes of them, and the verdict of evaluation.Evaluate *)
(* (pkg/history, pkg/pricing, pkg/evaluation).                             *)
(*                                                                         *)
(* These are pure functions of the sheet, so the only step is a row more   *)
(* in it; the order of the rows does not matter, for robustEstimate sorts  *)
(* prices first, and the sheet is a bag of rows.  A product's name, and a  *)
(* size, is the sequence of its words in lower case; amounts are cents.    *)
(***************************************************************************)
EXTENDS Integers, Sequences, FiniteSets

CONSTANTS
  Rows,         \* [model, product, size, condition, purchase, cents, readable,
                \* complete]: see ParseCSV and NormalizedModel
  Listings,     \* [models, size, condition, cents]: see MatchModel
  ResaleRules,  \* RESALE_RULES, by target
  MinimumProfit,
  MaxRows       \* bound: rows in the sheet

VARIABLES
  sheet,     \* sheet[r]: rows of kind r
  estimate   \* estimate[l]: what the worker takes l to resell for

NikeModels == {<<"p-6000">>, <<"air", "max", "95">>, <<"air", "max", "90">>,
               <<"air", "max", "97">>, <<"shox">>}

\* The keys of modelAliases.
Targets == {<<"nike">> \o m : m \in NikeModels}

ASSUME PricingAssumption ==
  /\ IsFiniteSet(Rows)
  /\ \A r \in Rows :
       /\ {r.purchase, r.cents} \subseteq Int
       /\ r.readable \in BOOLEAN /\ r.complete \in BOOLEAN
       /\ r.product \in NikeModels \cup {<<>>}
       /\ r.model \in Targets => r.product = Tail(r.model)
  /\ \A l \in Listings : l.models \subseteq Targets /\ l.cents \in Nat
  /\ DOMAIN ResaleRules \subseteq Targets
  /\ {MinimumProfit, MaxRows} \subseteq Nat

\* What the worker asks of an estimate from history.
MinimumModelData   == 8
MinimumSegmentData == 5

\* The rows of the sheet, those that are alike told apart by a number.
Entries == UNION {{r} \X (1 .. sheet[r]) : r \in Rows}

-----------------------------------------------------------------------------
(* From rows to sales.                                                     *)

\* The reseller filled in the required columns; an amount that is missing,
\* negative or no number is -1 here.
HasRequired(r) == r.model # <<>> /\ r.purchase >= 0 /\ r.cents >= 0

\* Costs and dates must parse where they are given.  The Sheets API leaves
\* the empty cells at the end of a row out, and csv.Reader refuses a row with
\* fewer fields than the header.
ParseCSV(r) == HasRequired(r) /\ r.readable /\ r.complete

\* normalizeProduct, without the brand.  r.product is the known product that
\* the compact spelling of the model names ("Nike P6000", "P 6000 Nike"), or
\* <<>>; of any other text the first word is taken for the brand.
NormalizedModel(r) ==
  IF r.product # <<>> THEN r.product
  ELSE IF Len(r.model) = 1 THEN r.model ELSE Tail(r.model)

\* The prefixes are cut off; a number is in its shortest spelling already.
normalizeSize(size) ==
  LET cut(words, prefix) == IF Len(words) > 1 /\ Head(words) = prefix THEN Tail(words)
                                                                     ELSE words
  IN cut(cut(size, "eu"), "eur")

normalizeCondition(text) ==
  LET spellings == [new       |-> {"new", "new with tags", "new without tags", "brand new"},
                    very_good |-> {"very good", "very_good", "like new", "excellent"},
                    good      |-> {"good", "great"},
                    okay      |-> {"satisfactory", "okay", "ok", "fair"},
                    poor      |-> {"poor", "bad"}]
      named     == {c \in DOMAIN spellings : text \in spellings[c]}
  IN IF named # {} THEN CHOOSE c \in named : TRUE ELSE text

SalesOf(model) == {x \in Entries : ParseCSV(x[1]) /\ NormalizedModel(x[1]) = model}

\* Only the sale's side is normalized: a listing in "very good" condition has
\* no segment, for the sales like it are "very_good".
Segment(model, l) ==
  {x \in SalesOf(model) : /\ normalizeSize(x[1].size) = l.size
                          /\ normalizeCondition(x[1].condition) = l.condition}

-----------------------------------------------------------------------------
(* The estimate, from a set of sales.  Sorted(sales)[k] is the k-th lowest *)
(* price, k from 0.                                                        *)

Price(x) == x[1].cents

Cents(sales)    == {Price(x) : x \in sales}
Below(sales, c) == Cardinality({x \in sales : Price(x) < c})
Above(sales, c) == Cardinality({x \in sales : Price(x) > c})

Sorted(sales) ==
  [k \in 0 .. Cardinality(sales) - 1 |->
     CHOOSE c \in Cents(sales) :
       Below(sales, c) <= k /\ k < Cardinality(sales) - Above(sales, c)]

\* Mutant: the outliers are taken off the low end only.
RobustEstimateLowOnly(sales, method) ==
  LET values   == Sorted(sales)
      low      == Cardinality(sales) \div 10
      high     == Cardinality(sales) - 1
      n        == high + 1 - low
      middle   == low + n \div 2
  IN [method   |-> method,
      expected |-> IF n % 2 = 0 THEN (values[middle - 1] + values[middle]) \div 2
                                ELSE values[middle],
      low      |-> values[low],
      high     |-> values[high],
      samples  |-> Cardinality(sales)]

\* A tenth of the prices is trimmed off at each end.
RobustEstimate(sales, method) ==
  LET values   == Sorted(sales)
      low      == Cardinality(sales) \div 10
      high     == Cardinality(sales) - 1 - low
      n        == high + 1 - low
      middle   == low + n \div 2
  IN [method   |-> method,
      expected |-> IF n % 2 = 0 THEN (values[middle - 1] + values[middle]) \div 2
                                ELSE values[middle],
      low      |-> values[low],
      high     |-> values[high],
      samples  |-> Cardinality(sales)]

NoEstimate == [method |-> "none"]

\* Mutant: the segment is preferred however small it is.
EstimateAnySegment(model, l) ==
  IF Cardinality(Segment(model, l)) >= 1
    THEN RobustEstimate(Segment(model, l), "segment")
  ELSE IF Cardinality(SalesOf(model)) >= MinimumModelData
    THEN RobustEstimate(SalesOf(model), "model")
  ELSE IF model \in DOMAIN ResaleRules
    THEN [method |-> "fallback", expected |-> ResaleRules[model]]
  ELSE NoEstimate

Estimate(model, l) ==
  IF Cardinality(Segment(model, l)) >= MinimumSegmentData
    THEN RobustEstimate(Segment(model, l), "segment")
  ELSE IF Cardinality(SalesOf(model)) >= MinimumModelData
    THEN RobustEstimate(SalesOf(model), "model")
  ELSE IF model \in DOMAIN ResaleRules
    THEN [method |-> "fallback", expected |-> ResaleRules[model]]
  ELSE NoEstimate

-----------------------------------------------------------------------------
(* The verdict.                                                            *)

\* MatchModel: l.models are the targets with an alias in the listing's brand
\* or title; none or several are an error.
Matched(l) == Cardinality(l.models) = 1
Model(l)   == CHOOSE m \in l.models : TRUE

\* Mutant: the price is held against the resale value, not the maximum
\* purchase price.
EvaluateBreakEven(l, resale) ==
  /\ l.size # <<>>
  /\ l.condition \notin {"poor", "unknown", ""}
  /\ resale - l.cents >= 0

\* Evaluate, with no costs: the worker's policy names none.
Evaluate(l, resale) ==
  /\ l.size # <<>>
  /\ l.condition \notin {"poor", "unknown", ""}
  /\ resale - l.cents >= MinimumProfit

Judge(l) == IF Matched(l) THEN Estimate(Model(l), l) ELSE NoEstimate

Qualified(l) == estimate[l] # NoEstimate /\ Evaluate(l, estimate[l].expected)

-----------------------------------------------------------------------------

Init ==
  /\ sheet = [r \in Rows |-> 0]
  /\ estimate = [l \in Listings |-> Judge(l)]

\* The sheet has a row more, and the next synchronization takes it in.
AddRow(r) ==
  /\ Cardinality(Entries) < MaxRows
  /\ sheet' = [sheet EXCEPT ![r] = @ + 1]
  /\ estimate' = [l \in Listings |-> Judge(l)']

Next == \E r \in Rows : AddRow(r)

Spec == Init /\ [][Next]_<<sheet, estimate>>

-----------------------------------------------------------------------------
(* What should hold.                                                       *)

Historical == {"segment", "model"}
Informed   == {l \in Listings : estimate[l].method \in Historical}

Comparables(l) ==
  IF estimate[l].method = "segment" THEN Segment(Model(l), l) ELSE SalesOf(Model(l))

\* The lower and the upper median, without sorting.
LowerMedian(sales) ==
  CHOOSE c \in Cents(sales) :
    2 * Below(sales, c) < Cardinality(sales) /\ 2 * Above(sales, c) <= Cardinality(sales)

UpperMedian(sales) ==
  CHOOSE c \in Cents(sales) :
    2 * Above(sales, c) < Cardinality(sales) /\ 2 * Below(sales, c) <= Cardinality(sales)

\* An estimate from history is the median of its comparable sales whatever
\* trimming takes off, from at least as many of them as the worker asks,
\* and its range leaves out at most a tenth of them on either side.
EstimateIsMedian ==
  \A l \in Informed :
    LET e     == estimate[l]
        sales == Comparables(l)
    IN /\ e.expected = (LowerMedian(sales) + UpperMedian(sales)) \div 2
       /\ e.samples = Cardinality(sales)
       /\ e.samples >= IF e.method = "segment" THEN MinimumSegmentData
                                               ELSE MinimumModelData
       /\ 10 * Below(sales, e.low) <= e.samples
       /\ 10 * Above(sales, e.high) <= e.samples

\* "Do not infer a high resale price from one exceptional sale" (the
\* implementation plan, line 85): one more sale moves an estimate of the
\* same method towards its own price if at all, and not past the range of
\* the sales that were there.
OneSaleNeverDecides ==
  [][\A r \in {q \in Rows : sheet'[q] > sheet[q]}, l \in Informed :
       LET e   == estimate[l]
           new == estimate'[l]
       IN new.method = e.method =>
            /\ r.cents >= e.expected => new.expected >= e.expected
            /\ r.cents <= e.expected => new.expected <= e.expected
            /\ \E x \in Comparables(l) : Price(x) <= new.expected
            /\ \E x \in Comparables(l) : Price(x) >= new.expected]_<<sheet, estimate>>

\* A listing that qualifies on history pays off on the sales themselves: at
\* least half of them, from five sales or more, fetched its price and the
\* minimum profit.
QualifiedPaysOff ==
  \A l \in Informed : Qualified(l) =>
    LET sales == Comparables(l)
        paid  == {x \in sales : Price(x) >= l.cents + MinimumProfit}
    IN Cardinality(sales) >= MinimumSegmentData /\ 2 * Cardinality(paid) >= Cardinality(sales)

\* What the comment at history.Sale says, "Normalized* fields are used for
\* matching", and PRD 12.5 of the best comparables, "Same normalized model":
\* once the sheet lists enough complete sales of a target under the target's
\* own name, they, not the resale rule, price it.
OwnNameCounts ==
  \A l \in Listings :
    LET own == {x \in Entries : ParseCSV(x[1]) /\ x[1].model = Model(l)}
    IN Matched(l) /\ Cardinality(own) >= MinimumModelData => l \in Informed

\* "The application should tolerate incomplete historical rows and use only
\* the fields that are available" (PRD, line 396): a row with everything
\* that is required, and nothing in it that cannot be read, counts.
IncompleteRowsCount ==
  \A r \in Rows : (sheet[r] > 0 /\ HasRequired(r) /\ r.readable) => ParseCSV(r)

=============================================================================
