---------------------------- MODULE MCVisionParts ----------------------------
(* Small instances of the parts of VisionParts for TLC.                    *)
EXTENDS VisionParts

Region(glare, red, green) ==
  [total |-> 10, glare |-> glare, hits |-> [red |-> red, green |-> green]]

\* All red; both colours at the limit; the most glare that is let through, and
\* more; glare that makes up what is missing of the colour.
SomeRegions ==
  {Region(0, 10, 0), Region(0, 7, 10), Region(7, 3, 0), Region(8, 2, 2), Region(5, 3, 2)}
=============================================================================
