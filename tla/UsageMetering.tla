---------------------------- MODULE UsageMetering ----------------------------
(***************************************************************************)
(* The arithmetic of one meter version: a quantity is sent in one of the   *)
(* units of the meter, normalized into its canonical unit (MeterV1 and     *)
(* UnitTransform of models.py), kept if it fits (_fit, storage_decimal),   *)
(* corrected by signed deltas, and summed (aggregate_events).              *)
(*                                                                         *)
(* A history is one event and the corrections of it, all in one unit.      *)
(* Python computes in a context of a given precision; the model keeps the  *)
(* precisions and says where a result would not fit one.                   *)
(***************************************************************************)
EXTENDS UsageDecimals

CONSTANTS Meters,        \* [precision, scale]: the meters registered
          Transforms,    \* [scale, offset]: the units they declare
          Inputs,        \* the quantities that are sent
          MaxRecords,    \* bound of an event and its corrections
          MinPrecision, Slack,       \* 100 and 20, of UnitTransform.apply
          SumPrecision               \* 100, of aggregate_events

\* MeterV1.__post_init__
LegalMeter(m) ==
  /\ m.scale <= Smaller(m.precision, StoreScale)
  /\ m.precision - m.scale <= StoreInteger

ASSUME MeteringAssumption ==
  /\ Meters \subseteq [precision : Nat \ {0}, scale : Nat]
  /\ \A m \in Meters : LegalMeter(m)
  /\ Transforms \subseteq [scale : Decimal, offset : Decimal]
  /\ \A t \in Transforms : t.scale.c > 0 /\ Bounded(t.scale) /\ Bounded(t.offset)
  /\ Inputs \subseteq Decimal
  /\ \A d \in Inputs : Bounded(d)
  /\ {MaxRecords, MinPrecision, Slack, SumPrecision} \subseteq Nat

\* The digits that a window can sum: 10^24 events of the widest meter.
ASSUME SumAssumption ==
  /\ SumPrecision # 0
  /\ \A m \in Meters : MaxRecords * TenTo[m.precision] <= TenTo[SumPrecision]

VARIABLES meter, unit,  \* of this history
          count,        \* the event and the corrections kept so far
          quantity,     \* ghost: the sum of what was sent of them
          total,        \* the sum of what is stored of them
          last          \* the last event sent, and what became of it

meteringVars == <<meter, unit, count, quantity, total, last>>

Identity == [scale |-> [c |-> 1, e |-> 0], offset |-> Zero]

\* The part of a UsageEventV1 that metering is about.
Event == [value : Decimal, unit : Transforms \cup {Identity},
          original : Decimal]

Outcomes == {"kept", "overflow", "negative"}

Nothing == [outcome |-> "none"]

MeteringTypeOK ==
  /\ meter \in Meters
  /\ unit \in Transforms
  /\ count \in 0 .. MaxRecords
  /\ {quantity, total} \subseteq Decimal
  /\ last \in [outcome : Outcomes, event : Event, input : Inputs] \cup {Nothing}
  /\ last.outcome = "kept" => last.event.value.e \in {0, -meter.scale}

MeteringInit ==
  /\ meter \in Meters
  /\ unit \in Transforms
  /\ count = 0
  /\ quantity = Zero
  /\ total = Zero
  /\ last = Nothing

-----------------------------------------------------------------------------
\* The precision that UnitTransform.apply computes with.
ConversionPrecision(t, value) ==
  Larger(MinPrecision,
         Digits(value.c) + Digits(t.scale.c) + Digits(t.offset.c)
           + Abs(Adjusted(value)) + Abs(Adjusted(t.scale))
           + Abs(Adjusted(t.offset)) + Slack)

\* UnitTransform.apply, when the precision suffices.
Converted(t, value) == Plus(Times(value, t.scale), t.offset)

\* A mutation: digits beyond the scale are cut off.
FitsRounded(m, d) == IntegerDigits(d) + m.scale <= m.precision

\* A mutation: one digit less is allowed.
FitsStrictly(m, d) ==
  Integral(d, m.scale) /\ IntegerDigits(d) + m.scale < m.precision

\* MeterV1._fit does not raise.
Fits(m, d) ==
  Integral(d, m.scale) /\ IntegerDigits(d) + m.scale <= m.precision

\* The quantized number.
Quantized(m, d) == Canonical([c |-> AtScale(d, m.scale), e |-> -m.scale])

\* What normalized() raises for an event; an ordinary one must not be negative
\* before the conversion, and the event it is replaced by not after it.
Outcome(m, event, correction) ==
  LET value == Converted(event.unit, event.value) IN
  IF event.value.c < 0 /\ ~correction THEN "negative"
  ELSE IF ~Storable(event.original) \/ ~Fits(m, value) THEN "overflow"
  ELSE IF Quantized(m, value).c < 0 /\ ~correction THEN "negative"
  ELSE "kept"

\* A mutation: the normalized event is still said to be in the unit sent.
NormalizedInUnit(m, event) ==
  [event EXCEPT !.value = Quantized(m, Converted(event.unit, event.value))]

\* UsageEventV1.normalized: in the canonical unit, and the original is kept.
Normalized(m, event) ==
  [event EXCEPT !.value = Quantized(m, Converted(event.unit, event.value)),
                !.unit = Identity]

Sent(input) == [value |-> Canonical(input), unit |-> unit,
                original |-> Canonical(input)]

\* The first event is an ordinary one, the others are corrections of it.
Send(input) ==
  LET event == Sent(input)
      outcome == Outcome(meter, event, count > 0)
      kept == Normalized(meter, event)
  IN
  /\ count < MaxRecords
  /\ \/ /\ outcome = "kept"
        /\ count' = count + 1
        /\ quantity' = Plus(quantity, input)
        /\ total' = Plus(total, kept.value)
        /\ last' = [outcome |-> outcome, event |-> kept, input |-> input]
     \/ /\ outcome # "kept"
        /\ last' = [outcome |-> outcome, event |-> event, input |-> input]
        /\ UNCHANGED <<count, quantity, total>>
  /\ UNCHANGED <<meter, unit>>

MeteringNext == \E input \in Inputs : Send(input)

MeteringSpec == MeteringInit /\ [][MeteringNext]_meteringVars

-----------------------------------------------------------------------------
(* Properties *)

\* docs/recording.md: "Conversion traps inexact scale changes and overflow; no
\* silent rounding occurs."  The total is what the quantities amount to in the
\* canonical unit, to the last digit, over any sequence of corrections: each
\* record, a correction too, adds the offset of its unit.
TotalIsExact ==
  Equals(total, Plus(Times(quantity, unit.scale),
                     Times([c |-> count, e |-> 0], unit.offset)))

\* No conversion and no sum needs more digits than its context has, so that no
\* result is ever rounded and the order of a sum does not matter.
NeverRounds ==
  /\ last # Nothing =>
       LET value == Canonical(last.input)
           precision == ConversionPrecision(unit, value)
       IN /\ Digits(Times(value, unit.scale).c) <= precision
          /\ Digits(Converted(unit, value).c) <= precision
  /\ Digits(total.c) <= SumPrecision

ArithmeticIsExact == TotalIsExact /\ NeverRounds

\* The meter has a number of its precision and scale for this one.
Representable(m, d) ==
  Integral(d, m.scale) /\ Abs(AtScale(d, m.scale)) < TenTo[m.precision]

\* A meter whose digits are all behind the point.
OfFractions(m) == m.precision = m.scale

\* errors.py: "An exact conversion cannot fit the declared Decimal domain."
\* A quantity is refused as an overflow only if its original does not fit the
\* store or its conversion has no number in the domain of the meter; except
\* that a meter of fractions, for which a digit before the point is counted
\* that it does not have, refuses everything.
OverflowIsReal ==
  /\ last.outcome = "overflow" =>
       \/ ~Storable(last.event.original)
       \/ ~Representable(meter, Converted(unit, Canonical(last.input)))
       \/ OfFractions(meter)
  /\ last.outcome = "kept" => ~OfFractions(meter)

\* A batch normalizes its events twice, once before it begins and once in
\* record(): the second time must change nothing and refuse nothing, and what
\* is kept fits the columns of the events resource.
NormalizedOnce ==
  last.outcome = "kept" =>
    /\ Normalized(meter, last.event) = last.event
    /\ Outcome(meter, last.event, count > 1) = "kept"
    /\ Storable(last.event.value) /\ Storable(last.event.original)
=============================================================================
