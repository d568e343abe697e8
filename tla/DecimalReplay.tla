---------------------------- MODULE DecimalReplay ----------------------------
(***************************************************************************)
(* How a record is read back whose numbers have lost their scale.  A       *)
(* fingerprint covers the text of a number, storage keeps the number: 2.0  *)
(* may come back as 2 or as 2.000000.  from_mapping of the events and the  *)
(* aggregates (models.py) and _decimal.py try the texts that the numbers   *)
(* may have had until the fingerprint of the complete record agrees.       *)
(*                                                                         *)
(* A text is a decimal without a positive exponent, and its scale is the   *)
(* number of digits behind the point.  An event has two numbers, "value"   *)
(* and "original"; an aggregate has its total as "original" and no value.  *)
(* All else in a record is its content.                                    *)
(***************************************************************************)
EXTENDS UsageDecimals

CONSTANTS Numbers,     \* that publishers send
          Quantities,  \* the numbers that normalization makes of them
          NoNumber,
          NoDigest,
          Contents

ASSUME ReplayAssumption ==
  /\ Numbers \subseteq Decimal
  /\ Quantities \subseteq Decimal
  /\ NoNumber \notin Decimal
  /\ NoDigest \notin
       [value : Decimal \cup {NoNumber}, original : Decimal, content : Contents]

\* An original that fits the store has no more digits before the point than an
\* input may have.
ASSUME DomainAssumption == StoreInteger <= MaxDigits

\* decimal_text: fixed-point notation has no positive exponents.
Text(d) ==
  IF d = NoNumber THEN d
  ELSE IF d.c = 0 THEN Zero
  ELSE IF d.e > 0 THEN [c |-> AtScale(d, 0), e |-> 0]
  ELSE d

\* The number written with so many digits behind the point.
WithScale(d, scale) == [c |-> AtScale(d, scale), e |-> -scale]

LeastScale(d) ==
  CHOOSE s \in 0 .. StoreScale :
    Integral(d, s) /\ \A r \in 0 .. s - 1 : ~Integral(d, r)

\* The events that normalized() lets pass: the original as it was sent, and the
\* value at a scale of a meter.
Originals == {Canonical(d) : d \in {x \in Numbers : Bounded(x) /\ Storable(x)}}

MeterValues ==
  UNION {{Canonical(WithScale(d, s)) : s \in LeastScale(d) .. StoreScale} :
           d \in {q \in Quantities : Storable(q)}}

WrittenRecord ==
  [value : MeterValues \cup {NoNumber}, original : Originals, content : Contents]

\* The same record as a store may return it, the scale lost.
StoredRecord ==
  [value : Decimal \cup {NoNumber}, original : Decimal, content : Contents]

IsEvent(r) == r.value # NoNumber

\* The fingerprint stands for the texts and the content.
Fingerprint(r) ==
  [value |-> Text(r.value), original |-> Text(r.original),
   content |-> r.content]

VARIABLES written,  \* ghost: the record that was put
          digest,   \* the fingerprint stored with it
          stored,   \* the record as the store returns it
          intact,   \* ghost: whether the store has kept what it was given
          reader,   \* from_mapping
          tried     \* the candidates it has digested

replayVars == <<written, digest, stored, intact, reader, tried>>

\* The scales of the next candidate.
Reader == [step : {"idle", "match", "search", "done", "unchecked", "rejected"},
           original : 0 .. MaxDigits + StoreScale, value : 0 .. StoreScale]

ReplayTypeOK ==
  /\ written \in WrittenRecord
  /\ digest \in {Fingerprint(written), NoDigest}
  /\ stored \in StoredRecord
  /\ intact \in BOOLEAN
  /\ reader \in Reader
  /\ tried \in Nat

NotReading == [step |-> "idle", original |-> 0, value |-> 0]

\* What a column gives back: the number padded to the scale of the column, or
\* without the zeros at its end.
FromColumn(d) ==
  IF d = NoNumber THEN {d}
  ELSE {Canonical(WithScale(d, StoreScale)), Canonical(WithScale(d, LeastScale(d)))}

ReplayInit ==
  /\ written \in WrittenRecord
  /\ digest = Fingerprint(written)
  /\ \E original \in FromColumn(written.original),
        value \in FromColumn(written.value) :
       stored = [value |-> value, original |-> original,
                 content |-> written.content]
  /\ intact = TRUE
  /\ reader = NotReading
  /\ tried = 0

Stripped(D) == {Canonical(WithScale(d, LeastScale(d))) : d \in D}

\* A number or a fact of the stored record changes and the digest stays, or the
\* digest is lost.
Corrupt ==
  /\ reader.step = "idle"
  /\ intact
  /\ \/ \E d \in Stripped(Originals) :
          /\ ~Equals(d, stored.original)
          /\ stored' = [stored EXCEPT !.original = d]
     \/ \E d \in Stripped(MeterValues) :
          /\ IsEvent(stored)
          /\ ~Equals(d, stored.value)
          /\ stored' = [stored EXCEPT !.value = d]
     \/ \E content \in Contents \ {stored.content} :
          stored' = [stored EXCEPT !.content = content]
     \/ stored' = stored
  /\ digest' \in IF stored' = stored THEN {NoDigest} ELSE {digest}
  /\ intact' = FALSE
  /\ UNCHANGED <<written, reader, tried>>

-----------------------------------------------------------------------------
\* from_mapping digests the record as it comes.  Without a fingerprint get_event
\* refuses an event, and an aggregate is returned as it comes.
ReadRecord ==
  /\ reader.step = "idle"
  /\ reader' = [reader EXCEPT
       !.step = IF digest # NoDigest
                THEN IF Fingerprint(stored) = digest THEN "match" ELSE "search"
                ELSE IF IsEvent(stored) THEN "rejected" ELSE "unchecked",
       !.original = LeastScale(stored.original),
       !.value = IF IsEvent(stored) THEN LeastScale(stored.value) ELSE 0]
  /\ UNCHANGED <<written, digest, stored, intact, tried>>

\* scan_events with a query that selects columns, the fingerprint not among them:
\* from_mapping has nothing to compare with.
ScanRecord ==
  /\ reader.step = "idle"
  /\ IsEvent(stored)
  /\ reader' = [reader EXCEPT !.step = "unchecked"]
  /\ UNCHANGED <<written, digest, stored, intact, tried>>

\* A mutation: originals are enumerated like meter values.
LastOriginalOfMeter(d) == IF d.c = 0 THEN 0 ELSE StoreScale

\* An input has at most MaxDigits digits, the zeros at its end included.
LastOriginal(d) == IF d.c = 0 THEN 0 ELSE MaxDigits - Adjusted(d) - 1

\* A normalized value has the scale of a meter.
LastValue(d) == IF d = NoNumber \/ d = Zero THEN 0 ELSE StoreScale

\* One pair of _representations of the two stored numbers.
Candidate ==
  [value |-> IF stored.value = NoNumber THEN NoNumber
             ELSE Canonical(WithScale(stored.value, reader.value)),
   original |-> Canonical(WithScale(stored.original, reader.original)),
   content |-> stored.content]

\* A mutation: the number is compared and not the whole record.
AuthenticNumber(r) == Text(r.original) = digest.original

\* The digest of the complete record agrees.
Authentic(r) == Fingerprint(r) = digest

\* The loop over the originals, and in it the one over the values.
NextScales ==
  IF reader.value < LastValue(stored.value)
  THEN [reader EXCEPT !.value = @ + 1]
  ELSE IF reader.original < LastOriginal(stored.original)
       THEN [reader EXCEPT
              !.original = @ + 1,
              !.value = IF stored.value = NoNumber THEN 0
                        ELSE LeastScale(stored.value)]
       ELSE [reader EXCEPT !.step = "rejected"]   \* InvalidUsageResult

TryCandidate ==
  /\ reader.step = "search"
  /\ tried' = tried + 1
  /\ reader' = IF Authentic(Candidate)
               THEN [reader EXCEPT !.step = "done"] ELSE NextScales
  /\ UNCHANGED <<written, digest, stored, intact>>

ReplayNext == Corrupt \/ ReadRecord \/ ScanRecord \/ TryCandidate

ReplaySpec == ReplayInit /\ [][ReplayNext]_replayVars

-----------------------------------------------------------------------------
\* The record that from_mapping has returned.
Restored == IF reader.step = "match" THEN stored ELSE Candidate

\* A record that is returned has the texts and the content that were written:
\* it replays against the event its publisher sends again, and a record that
\* was changed in the store is never returned.
ReturnsWhatWasWritten ==
  reader.step \in {"match", "done"} =>
    Fingerprint(Restored) = Fingerprint(written)

\* No record whose numbers kept their value is ever refused, whatever scale the
\* publisher sent, the meter gave or the store returns.
IntactIsReadable == reader.step = "rejected" => ~intact

\* docs/decimal-replay.md: "Recovery therefore examines at most 19,000 exact
\* candidates."
SearchIsBounded == tried <= (StoreScale + 1) * MaxDigits

\* The candidates are enough and no more than promised.
SearchSucceeds == IntactIsReadable /\ SearchIsBounded
=============================================================================
