------------------------------ MODULE CtcDecode ------------------------------
(***************************************************************************)
(* LprnetOcrEngine::greedy_ctc_decode (edge_ops/gema_vision): the text in  *)
(* the logits of a plate, one timestep after the other.                    *)
(***************************************************************************)
EXTENDS Integers, Sequences

CONSTANTS
  NumClasses,  \* classes 0 .. NumClasses - 1, the last of them the blank
  Values,      \* the finite logits, integers
  NotFinite,   \* a NaN or an infinity
  Timesteps

VARIABLES
  prev_char,
  result,
  seen        \* history: the class of each timestep, or Corrupt

vars == <<prev_char, result, seen>>

Classes   == 0 .. NumClasses - 1
kBlankIdx == NumClasses - 1
Corrupt   == -1
Logits    == [Classes -> Values \cup {NotFinite}]

TypeOK ==
  /\ prev_char \in Classes \cup {Corrupt}
  /\ seen \in UNION {[1 .. n -> Classes \cup {Corrupt}] : n \in 0 .. Timesteps}
  /\ result \in UNION {[1 .. n -> Classes \ {kBlankIdx}] : n \in 0 .. Len(seen)}

Init == prev_char = -1 /\ result = <<>> /\ seen = <<>>

\* The first of the classes with the largest logit.
Argmax(logits) ==
  CHOOSE c \in Classes : \A d \in Classes :
    logits[d] < logits[c] \/ (logits[d] = logits[c] /\ c <= d)

\* A timestep with a logit that is not finite.
Skip(logits) ==
  /\ Len(seen) < Timesteps
  /\ \E c \in Classes : logits[c] = NotFinite
  /\ prev_char' = -1 /\ seen' = Append(seen, Corrupt) /\ UNCHANGED result

\* Mutant: a blank does not separate two equal characters.
DecodeBlankKept(logits) ==
  /\ Len(seen) < Timesteps
  /\ \A c \in Classes : logits[c] # NotFinite
  /\ LET max_idx == Argmax(logits)
     IN /\ result' = IF max_idx \notin {kBlankIdx, prev_char}
                       THEN Append(result, max_idx) ELSE result
        /\ prev_char' = IF max_idx = kBlankIdx THEN prev_char ELSE max_idx
        /\ seen' = Append(seen, max_idx)

Decode(logits) ==
  /\ Len(seen) < Timesteps
  /\ \A c \in Classes : logits[c] # NotFinite
  /\ LET max_idx == Argmax(logits)
     IN /\ result' = IF max_idx \notin {kBlankIdx, prev_char}
                       THEN Append(result, max_idx) ELSE result
        /\ prev_char' = max_idx /\ seen' = Append(seen, max_idx)

Next == \E logits \in Logits : Skip(logits) \/ Decode(logits)

Spec == Init /\ [][Next]_vars

\* Reference: the timesteps at which a run of one character begins.
Starts == {i \in 1 .. Len(seen) :
             seen[i] \notin {kBlankIdx, Corrupt} /\ (i = 1 \/ seen[i] # seen[i - 1])}

\* The text has one character for each run of equal ones, in their order: runs
\* are ended by another character, a blank or a timestep that is corrupt.  The
\* types, by which no blank is in the text, are part of it.
DecodedRuns ==
  TypeOK /\ \E start \in [DOMAIN result -> Starts] :
    /\ \A k \in DOMAIN result : result[k] = seen[start[k]]
    /\ \A j, k \in DOMAIN result : j < k => start[j] < start[k]
    /\ \A s \in Starts : \E k \in DOMAIN result : start[k] = s
=============================================================================
