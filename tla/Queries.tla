------------------------------- MODULE Queries -------------------------------
(***************************************************************************)
(* What the modules that keep their records in a Vec do with it when they  *)
(* list them: iter().filter(..) by the values of some fields, with skip    *)
(* and take (local/iot.rs, local/blog.rs).                                 *)
(***************************************************************************)
EXTENDS Integers, Sequences

\* A query gives some of the fields; a field it leaves out matches all.
Satisfies(record, query) == \A f \in DOMAIN query : record[f] = query[f]

\* The records that satisfy it, in the order of the list.
Selected(list, query) ==
  LET kept[n \in 0..Len(list)] ==
        IF n = 0 THEN <<>>
        ELSE IF Satisfies(list[n], query) THEN Append(kept[n - 1], list[n])
                                          ELSE kept[n - 1]
  IN kept[Len(list)]

Page(list, offset, limit) ==
  SubSeq(list, offset + 1,
         IF Len(list) < offset + limit THEN Len(list) ELSE offset + limit)
=============================================================================
