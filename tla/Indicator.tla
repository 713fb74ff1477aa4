------------------------------ MODULE Indicator ------------------------------
(***************************************************************************)
(* The layout of the progress line of the console (cli_indicator.h), in    *)
(* lengths: which items a container shows, and how it shares what is left. *)
(* An item is [min, priority, expandable, weight]; the weights are         *)
(* integers, in any unit.                                                  *)
(***************************************************************************)
EXTENDS Integers, Sequences, Functions

\* qRound (a / b), for a >= 0.
Round(a, b) == (2 * a + b) \div (2 * b)

Lesser(a, b) == IF a < b THEN a ELSE b

\* Mutant: the separators are not counted.
MinSizeOfItems(items, sep) == SumFunction([k \in DOMAIN items |-> items[k].min])

MinSize(items, sep) ==
  SumFunction([k \in DOMAIN items |-> items[k].min])
    + (IF items = << >> THEN 0 ELSE (Len(items) - 1) * sep)

\* One turn of the loop that hides items: the search starts with the first
\* item, even when it has been hidden.
HideOne(items, sep, st) ==
  LET candidates == {1} \cup st.shown
      k == CHOOSE k \in candidates : \A j \in candidates :
             \/ items[k].priority < items[j].priority
             \/ items[k].priority = items[j].priority /\ k <= j
  IN  [shown |-> st.shown \ {k},
       required |-> st.required - items[k].min - (IF st.nb > 1 THEN sep ELSE 0),
       nb |-> st.nb - 1]

Hidden(items, sep, len) ==
  LET all == [shown |-> DOMAIN items, required |-> MinSize(items, sep), nb |-> Len(items)]
      after[n \in 0 .. Len(items)] ==
        IF n = 0 THEN all
        ELSE LET st == after[n - 1]
             IN  IF st.required > len THEN HideOne(items, sep, st) ELSE st
  IN  after[Len(items)]

\* What each expandable item adds to its minimum: a share of the unused space,
\* by weight, or equal when no weight is set.
Added(items, shown, unused) ==
  LET Grows(k) == k \in shown /\ items[k].expandable
      Weighs(k) == IF Grows(k) THEN items[k].weight ELSE 0
      total == SumFunction([k \in DOMAIN items |-> Weighs(k)])
      nb == SumFunction([k \in DOMAIN items |-> IF Grows(k) THEN 1 ELSE 0])
      Share(k) == IF total > 0 THEN Round(unused * items[k].weight, total) ELSE Round(unused, nb)
      left[k \in 0 .. Len(items)] ==
        IF k = 0 THEN unused
        ELSE LET before == left[k - 1]
             IN  before - (IF Grows(k) THEN Lesser(before, Share(k)) ELSE 0)
  IN  [k \in DOMAIN items |-> left[k - 1] - left[k]]

\* The lengths of the items shown by draw (len).
Lengths(items, sep, len) ==
  LET st == Hidden(items, sep, len)
      added == Added(items, st.shown, len - st.required)
  IN  [k \in st.shown |-> items[k].min + added[k]]

\* All that is drawn with these lengths, before the line is filled with blanks.
DrawnLength(lengths, sep) ==
  SumFunction([k \in DOMAIN lengths |-> lengths[k] + (IF k > 1 THEN sep ELSE 0)])

----------------------------------------------------------------------------
(* The items of the progress indicator. *)

Fixed(min, priority) ==
  [min |-> min, priority |-> priority, expandable |-> FALSE, weight |-> 0]
Expands(min, priority, weight) ==
  [min |-> min, priority |-> priority, expandable |-> TRUE, weight |-> weight]

\* ProgressBar, after set_ratio (done / size).
ProgressBar(done, size) ==
  << Fixed(1, 0), Expands(0, 0, done), Expands(0, 0, size - done), Fixed(1, 0) >>

\* ProgressIndicator: the number of files is only there with several.
ProgressIndicator(files, rate, percent) ==
  (IF files > 0 THEN << Fixed(files, 1) >> ELSE << >>)
    \o << Fixed(rate, 2), Expands(2, 0, 0), Fixed(percent, 3) >>
=============================================================================
