---------------------------- MODULE BodyPayload ----------------------------
(***************************************************************************)
(* What becomes of a reported body before it is stored                     *)
(* (internal/audit/body.go): sensitive parts are redacted, then the text   *)
(* is cut to a number of bytes without splitting a character.              *)
(*                                                                         *)
(* A text is a sequence of symbols:                                        *)
(*   "x" punctuation   "w" a letter   "u" a character of three bytes       *)
(*   "d" a digit       "*" a mask     "r" the text "[REDACTED]"            *)
(*   "s" a member of JSON with a sensitive key, key and value in quotes    *)
(*   "k" a sensitive key=value, of one word or quoted                      *)
(*   "b" one whose value goes on after the first word, as that of          *)
(*       Authorization: Bearer abc       "c" the rest of such a value      *)
(* Abstracted: the layout of JSON that is encoded again, the leading       *)
(* digits of a phone number, a final X of an id card, sizes and hash.      *)
(***************************************************************************)
EXTENDS Integers, Sequences, FiniteSets
LOCAL INSTANCE SequencesExt
LOCAL INSTANCE FiniteSetsExt

CONSTANTS
  Phone, Card,           \* digits in all, kept in front, kept at the end
  DefaultMaxBodyBytes

(* Phone numbers and card numbers have different lengths (11 and 18).        *)
ASSUME PayloadAssumption ==
  /\ Phone \in [digits : Nat \ {0}, head : Nat, tail : Nat]
  /\ Card \in [digits : Nat \ {0}, head : Nat, tail : Nat]
  /\ Phone.digits # Card.digits
  /\ DefaultMaxBodyBytes \in Nat \ {0}

Symbols == {"x", "w", "u", "d", "s", "k", "b", "c", "*", "r"}

(* json is the length of the JSON value a reported text begins with; 0 when  *)
(* the text does not look like JSON, or its decoding fails as that of a text *)
(* the reporter cut off does.                                               *)
Body   == {body \in [present : BOOLEAN, text : Seq(Symbols), json : Nat, truncated : BOOLEAN] :
             body.json <= Len(body.text)}
NoBody == [present |-> FALSE, text |-> <<>>, json |-> 0, truncated |-> FALSE]     \* nil

Size(t) == Len(t) + 2 * Cardinality({i \in DOMAIN t : t[i] = "u"})

----------------------------------------------------------------------------
(* RedactSensitiveBody.                                                    *)

(* One symbol after redactJSONValue, if the text was decoded, and textSecrets, *)
(* which does not find a key in quotes and takes the first word for the value. *)
Redacted(symbol, decoded) ==
  CASE symbol = "k" \/ (symbol = "s" /\ decoded) -> <<"w", "x", "r", "x">>
    [] symbol = "b" -> <<"w", "x", "r", "x", "c">>
    [] OTHER -> <<symbol>>

FieldsRedacted(t, decoded) == FlattenSeq([i \in DOMAIN t |-> Redacted(t[i], decoded)])

(* Decode reads one value, which is all that is encoded again; after an error *)
(* the text is left to the patterns as it is.                               *)
RedactFields(body) ==
  IF body.json > 0 THEN FieldsRedacted(SubSeq(body.text, 1, body.json), TRUE)
  ELSE FieldsRedacted(body.text, FALSE)

(* \b...\b: the digits of a number are no part of a longer word.            *)
IsNumber(t, kind, i) ==
  LET j == i + kind.digits - 1
      Outside(k) == k \notin DOMAIN t \/ t[k] \notin {"w", "d", "c"}
  IN  /\ j <= Len(t)
      /\ \A k \in i..j : t[k] = "d"
      /\ Outside(i - 1) /\ Outside(j + 1)

Covered(t, kind) ==
  UNION {(i + kind.head)..(i + kind.digits - kind.tail - 1) :
           i \in {k \in DOMAIN t : IsNumber(t, kind, k)}}

Mask(t, kind) ==
  LET covered == Covered(t, kind)
  IN  [i \in DOMAIN t |-> IF i \in covered THEN "*" ELSE t[i]]

RedactSensitiveBody(body) == Mask(Mask(RedactFields(body), Phone), Card)

----------------------------------------------------------------------------
(* truncateUTF8: the cut moves down until it falls between two characters.  *)

ValidCut(t, n) == \E p \in Prefixes(t) : Size(p) = n

(* Faulty: the cut moves up.                                                *)
TruncateUpwards(t, max) ==
  IF Size(t) <= max THEN t
  ELSE CHOOSE p \in Prefixes(t) :
         Size(p) >= max /\ \A q \in Prefixes(t) : Size(q) >= max => Size(p) <= Size(q)

TruncateUTF8(t, max) ==
  IF Size(t) <= max THEN t
  ELSE CHOOSE p \in Prefixes(t) : Size(p) = Max({n \in 0..max : ValidCut(t, n)})

Limit(max) == IF max <= 0 THEN DefaultMaxBodyBytes ELSE max

(* Faulty: cut first, so that half of a number is not recognized.           *)
PrepareCutFirst(input, max) ==
  IF ~input.present \/ input.text = <<>> THEN NoBody
  ELSE LET cut  == TruncateUTF8(input.text, Limit(max))
           left == [input EXCEPT !.text = cut, !.json = IF @ <= Len(cut) THEN @ ELSE 0]
       IN  [present |-> TRUE, text |-> TruncateUTF8(RedactSensitiveBody(left), Limit(max)),
            json |-> 0, truncated |-> input.truncated \/ cut # input.text]

PrepareBodyPayload(input, max) ==
  IF ~input.present \/ input.text = <<>> THEN NoBody
  ELSE LET redacted == RedactSensitiveBody(input)
       IN  [present |-> TRUE, text |-> TruncateUTF8(redacted, Limit(max)), json |-> 0,
            truncated |-> input.truncated \/ Size(redacted) > Limit(max)]
=============================================================================
