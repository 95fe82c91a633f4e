----------------------------- MODULE MCRowEdits -----------------------------
\* RowEdits on small instances.
EXTENDS RowEdits, TLC

CONSTANTS a, b

\* Two pages in ascending order, one in descending order.
AllPages == {[view |-> "asc", offset |-> 0], [view |-> "asc", offset |-> Limit],
             [view |-> "desc", offset |-> 0]}
\* Where a refresh loads a page no longer shown the exploration ends.
ShownPages == ~ astray
\* Nothing reads how many rows a window counts and whether its load failed.
Distinct ==
    <<db, others, want, loadedView,
      [win EXCEPT !.loadedMax = 0, !.pending = 0, !.failed = FALSE], cache, load,
      refreshing, astray, patch, meant, reloads, dialog, saving, sent>>
Symmetry == Permutations({a, b})
=============================================================================
