----------------------------- MODULE Extraction -----------------------------
(***************************************************************************)
(* What the service makes of a language model's answer: the providers'     *)
(* validation (extraction/schema.py, gemini.py, anthropic.py) and the      *)
(* post-processing of parse.py.  Text, category, merchant and payment      *)
(* method pass through and are left out.                                   *)
(***************************************************************************)
EXTENDS Domain, Integers

CONSTANTS
  OkThreshold,   \* CONFIDENCE_OK_THRESHOLD, in per cent
  LowThreshold,  \* CONFIDENCE_LOW_THRESHOLD
  INF,           \* the float infinity, which the schema lets through as amount
  MaxMoney       \* the largest amount quantize can represent with its places

ASSUME ExtractionAssumption ==
  /\ LowThreshold \in Nat /\ OkThreshold \in Nat
  /\ LowThreshold <= OkThreshold
  /\ MaxMoney \in Nat
  /\ INF \notin Int \cup {NULL}

(* A model's answer: NULL for an error, a timeout or an empty response, or *)
(* fields that may be missing or nonsense.  `day` is NULL unless spent_at  *)
(* is an ISO date.                                                         *)

(* RawExtraction: a negative amount or a confidence outside its range is   *)
(* malformed output.                                                       *)
WellFormed(answer) ==
  /\ answer.amount \in {NULL, INF} \/ answer.amount >= 0
  /\ answer.confidence \in 0 .. 100

(* What `extract` returns of it: malformed output is no output. *)
Outcome(answer) ==
  IF answer = NULL THEN NULL
  ELSE IF WellFormed(answer) THEN answer ELSE NULL

StatusOf(raw) ==
  IF raw = NULL THEN "failed"
  ELSE IF raw.confidence >= OkThreshold THEN "ok"
  ELSE IF raw.confidence >= LowThreshold THEN "low_confidence"
  ELSE "failed"

(* The answer to the client: a response cannot carry an infinite amount,   *)
(* and building one raises.                                                *)
ReplyOf(raw) == IF raw.amount = INF THEN "error" ELSE StatusOf(raw)

(* A currency that is not a three-letter code is dropped. *)
NormalizeCurrency(c) == IF c \in Currencies THEN c ELSE NULL

SpentDay(raw, reference) ==
  IF raw.day = NULL THEN reference ELSE raw.day

(* Whether the answer carries what a conversion needs. *)
Convertible(raw) ==
  raw.amount # NULL /\ NormalizeCurrency(raw.currency) # NULL

(* convert, once both rates are read: it divides by the first, and         *)
(* quantize raises for a result that is infinite or of too many digits.    *)
ConversionRaises(amount, from, to) ==
  IF from = 0 \/ amount = INF THEN TRUE
  ELSE (amount * to) \div from > MaxMoney
=============================================================================
