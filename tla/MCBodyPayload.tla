--------------------------- MODULE MCBodyPayload ---------------------------
(* PrepareBodyPayload over every text of up to MaxLen of the symbols in      *)
(* Reported and every limit up to MaxBytes, 0 standing for the default.      *)
EXTENDS BodyPayload
LOCAL INSTANCE SequencesExt

CONSTANTS Reported, MaxLen, MaxBytes

ASSUME SizesAssumption == Reported \subseteq Symbols /\ MaxLen \in Nat /\ MaxBytes \in Nat

VARIABLES input, max, stored

payloadVars == <<input, max, stored>>

MCPhone == [digits |-> 3, head |-> 1, tail |-> 1]
MCCard  == [digits |-> 4, head |-> 1, tail |-> 1]

(* A JSON value that can hold a member begins and ends with a bracket.       *)
BeginsJSON(t, n) == n = 0 \/ (1 < n /\ t[1] = "x" /\ t[n] = "x")

PayloadInit ==
  /\ \E t \in BoundedSeq(Reported, MaxLen) :
       \E n \in 0..Len(t), truncated \in BOOLEAN :
         /\ BeginsJSON(t, n)
         /\ input = [present |-> TRUE, text |-> t, json |-> n, truncated |-> truncated]
  /\ max \in 0..MaxBytes
  /\ stored = NoBody

PayloadNext ==
  /\ stored = NoBody /\ input.text # <<>>
  /\ stored' = PrepareBodyPayload(input, max)
  /\ UNCHANGED <<input, max>>

PayloadSpec == PayloadInit /\ [][PayloadNext]_payloadVars

Digits(t) == Cardinality({i \in DOMAIN t : t[i] = "d"})

(* What is stored went through redaction first: no key=value is left in it    *)
(* and, if the text was decoded, no sensitive member; of the digits reported *)
(* no more than stand outside the covered parts of phone and card numbers;   *)
(* not even the part of a number in front of the cut is stored in clear      *)
(* (PrepareBodyPayload redacts before it truncates).                         *)
StoredRedacted ==
  /\ \A i \in DOMAIN stored.text : stored.text[i] \notin {"k", "b"}
  /\ input.json > 0 => \A i \in DOMAIN stored.text : stored.text[i] # "s"
  /\ LET t == RedactFields(input)
     IN  Digits(stored.text) <=
           Digits(t) - Cardinality(Covered(t, Phone) \cup Covered(t, Card))
  /\ IsPrefix(stored.text, RedactSensitiveBody(input))

(* The stored text fits the limit of the rule, one more character would not  *)
(* have fitted, and it is marked truncated exactly when something of the     *)
(* redacted text is missing or the reporter had cut it.                      *)
StoredFits ==
  stored.present =>
    LET whole == RedactSensitiveBody(input)
        n     == Len(stored.text)
    IN  /\ Size(stored.text) <= Limit(max)
        /\ n < Len(whole) => Size(SubSeq(whole, 1, n + 1)) > Limit(max)
        /\ stored.truncated <=> (n < Len(whole) \/ input.truncated)

(* docs/development-design-requirements.md:76: only what was redacted is       *)
(* stored; so no sensitive field, nor a part of its value, should be in it.  *)
NoSecretStored ==
  \A i \in DOMAIN stored.text : stored.text[i] \notin {"s", "k", "b", "c"}
=============================================================================
