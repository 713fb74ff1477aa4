------------------------------ MODULE ItemModel ------------------------------
(***************************************************************************)
(* The operations of StructItemModel (gui_struct_item_model.h) on its      *)
(* item_list, and what becomes of the rows a view remembers.  Rows start   *)
(* at 1.  Qt moves the persistent indexes between beginInsertRows and      *)
(* endInsertRows, and beginRemoveRows and endRemoveRows; sort has to move  *)
(* them itself.                                                            *)
(***************************************************************************)
EXTENDS Integers, Sequences

\* insert (i, item); append is InsertedAt (l, Len (l) + 1, item).
InsertedAt(l, i, item) ==
  [k \in 1 .. Len(l) + 1 |->
     IF k < i THEN l[k] ELSE IF k = i THEN item ELSE l[k - 1]]

RowsAfterInsert(rows, i) == {IF r < i THEN r ELSE r + 1 : r \in rows}

\* remove_at (i).
RemovedAt(l, i) == [k \in 1 .. Len(l) - 1 |-> IF k < i THEN l[k] ELSE l[k + 1]]

RowsAfterRemove(rows, i) == {IF r < i THEN r ELSE r - 1 : r \in rows \ {i}}

\* index_of: the first row of the item.
IndexOf(l, item) ==
  CHOOSE k \in DOMAIN l : l[k] = item /\ \A j \in 1 .. k - 1 : l[j] # item

\* Mutant: the persistent indexes are not changed.
RowsLeftAlone(before, after, rows) == rows

\* sort saves the item of each persistent index, and looks for its new row.
RowsAfterSort(before, after, rows) == {IndexOf(after, before[r]) : r \in rows}
=============================================================================
