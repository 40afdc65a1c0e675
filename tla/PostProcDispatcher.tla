------------------------- MODULE PostProcDispatcher -------------------------
(***************************************************************************)
(* What happens to each primitive after its projection (edge_ops/          *)
(* gema_vision, PostProcessDispatcher::process with the colour validation  *)
(* of ColorValidator), while another thread configures colours.            *)
(*                                                                         *)
(* A region is its number of pixels, of those that are glare, and of the   *)
(* others that each colour range matches.  The text of an OCR zone is left *)
(* out, and so is a box that is not inside the frame, which throws.        *)
(***************************************************************************)
EXTENDS Naturals

CONSTANTS
  Ranges,   \* the colour ranges that may be configured
  Ratio,    \* pass_ratio, in percent
  Regions   \* what may be in a box of the frame

VARIABLES
  configs_,     \* the range of each class, or "none"
  ocr_, color_, \* the dispatcher was given these engines
  prim,         \* the primitive
  judged,       \* it has been processed
  inforce       \* history: the ranges in force since it came

vars == <<configs_, ocr_, color_, prim, judged, inforce>>

Classes == 0 .. 2   \* DEFECT, OCR_ZONE, COLOR_ZONE
Empty   == [total |-> 0, glare |-> 0, hits |-> [r \in Ranges |-> 0]]
Prims   == [class_id : Classes, bbox : Regions, roi : Regions \cup {Empty},
            color_pass : BOOLEAN]

TypeOK ==
  /\ configs_ \in [Classes -> Ranges \cup {"none"}]
  /\ ocr_ \in BOOLEAN /\ color_ \in BOOLEAN /\ judged \in BOOLEAN
  /\ prim \in Prims /\ inforce \subseteq Ranges \cup {"none"}

\* What configs_.begin() may be, of whichever class: configs_ is an unordered_map.
FirstRanges(configs) ==
  LET configured == {configs[c] : c \in Classes} \ {"none"}
  IN IF configured = {} THEN {"none"} ELSE configured

\* What infer() may return: it may have extracted the region.
Inferred == {p \in Prims : p.roi \in {p.bbox, Empty} /\ ~p.color_pass}

Init ==
  /\ configs_ = [c \in Classes |-> "none"] /\ ocr_ \in BOOLEAN /\ color_ \in BOOLEAN
  /\ prim \in Inferred /\ judged = FALSE /\ inforce = {"none"}

\* configure, under the mutex that validate() takes to read the range.
Configure(c, r) ==
  /\ configs_' = [configs_ EXCEPT ![c] = r]
  /\ inforce' = inforce \cup FirstRanges(configs_')
  /\ UNCHANGED <<ocr_, color_, prim, judged>>

\* Mutant: the glare is not taken out of the pixels that are counted.
ValidateAllPixels(roi, range) ==
  /\ roi.total > 0 /\ 10 * roi.glare <= 7 * roi.total
  /\ range # "none" => 100 * (roi.hits[range] + roi.glare) >= Ratio * roi.total

\* validate: result.pass, which stays false when the validation is skipped, for
\* an empty region or for glare, and is true when nothing is configured.
Validate(roi, range) ==
  /\ roi.total > 0
  /\ 10 * roi.glare <= 7 * roi.total
  /\ 10 * (roi.total - roi.glare) >= 3 * roi.total
  /\ range # "none" =>
       100 * roi.hits[range] >= Ratio * (roi.total - roi.glare)

\* The region of an OCR zone is extracted for the OCR engine only, that of a
\* colour zone for the validator.
Extracted(p) ==
  IF p.roi = Empty /\ (IF p.class_id = 1 THEN ocr_ ELSE p.class_id = 2 /\ color_)
    THEN p.bbox ELSE p.roi

Process ==
  /\ ~judged /\ judged' = TRUE
  /\ \E range \in FirstRanges(configs_) :
       LET roi == Extracted(prim)
       IN prim' = [prim EXCEPT !.roi = roi, !.color_pass =
            IF color_ /\ prim.class_id \in {1, 2} THEN Validate(roi, range) ELSE @]
  /\ UNCHANGED <<configs_, ocr_, color_, inforce>>

NextPrimitive ==
  /\ judged /\ judged' = FALSE
  /\ prim' \in Inferred /\ inforce' = FirstRanges(configs_)
  /\ UNCHANGED <<configs_, ocr_, color_>>

Next ==
  (\E c \in Classes, r \in Ranges : Configure(c, r)) \/ Process \/ NextPrimitive

Spec == Init /\ [][Next]_vars

-----------------------------------------------------------------------------
(* Properties                                                              *)

\* Of a zone that passes, few of the pixels that are no glare are of another colour
\* than some range, of any class, that was in force while it was processed.
PassIsDeserved ==
  judged /\ prim.color_pass =>
    LET r     == prim.bbox
        clear == r.total - r.glare
    IN "none" \in inforce \/ \E range \in inforce :
         100 * (clear - r.hits[range]) <= (100 - Ratio) * clear

\* A colour zone that every range in force matches passes, whether or not the
\* inference engine extracted its region and whatever other engines there are,
\* unless its box is empty or mostly glare.
MatchPasses ==
  judged /\ color_ /\ prim.class_id = 2 /\ prim.bbox.total > 0 =>
    LET r == prim.bbox
    IN 10 * r.glare <= 7 * r.total
       /\ (\A range \in inforce \ {"none"} : r.hits[range] = r.total - r.glare)
       => prim.color_pass

\* A zone passes neither without deserving it nor the other way round.
PostProcInv == TypeOK /\ PassIsDeserved /\ MatchPasses
=============================================================================
