------------------------------- MODULE Lists --------------------------------
(***************************************************************************)
(* The loop over a std::list that takes some of its entries and leaves out *)
(* the others, or erases them as it goes.                                  *)
(***************************************************************************)
EXTENDS Integers, Sequences

\* The entries of a list at some positions, in its order.
Only(list, positions) ==
  LET Picked[n \in 0 .. Len(list)] ==
        IF n = 0 THEN <<>>
        ELSE IF n \in positions THEN Append(Picked[n - 1], list[n])
        ELSE Picked[n - 1]
  IN  Picked[Len(list)]

\* Its entries that are in a set.
Among(list, entries) == Only(list, {i \in DOMAIN list : list[i] \in entries})
=============================================================================
