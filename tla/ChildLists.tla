------------------------------ MODULE ChildLists -------------------------------
(***************************************************************************)
(* Sequences of children: what the supervisors do to `children`, a Vec in  *)
(* the order of starting.                                                  *)
(***************************************************************************)
EXTENDS Integers, Sequences

RemoveAt_Truncates(s, i) == SubSeq(s, 1, i - 1)
RemoveAt(s, i) == SubSeq(s, 1, i - 1) \o SubSeq(s, i + 1, Len(s))

SetOf(s) == {s[i] : i \in DOMAIN s}

DistinctIds(s) == \A i, j \in DOMAIN s : s[i].id = s[j].id => i = j

================================================================================
