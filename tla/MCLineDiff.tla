----------------------------- MODULE MCLineDiff -----------------------------
(* Every pair of texts of up to five lines over two lines; one line of     *)
(* context, and folds from two lines on that open one line a click.        *)
EXTENDS LineDiff
=============================================================================
