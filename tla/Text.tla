---------------------------------- MODULE Text ----------------------------------
(***************************************************************************)
(* Operations of std::string on sequences of characters or words.          *)
(* Positions count from 1, and 0 stands for npos.                          *)
(***************************************************************************)
EXTENDS Naturals, Sequences, FiniteSetsExt

Npos == 0

\* find(needle, from): the first occurrence at or behind from.
Find(s, needle, from) ==
  LET at == {i \in from .. Len(s) + 1 - Len(needle) :
               SubSeq(s, i, i + Len(needle) - 1) = needle}
  IN  IF at = {} THEN Npos ELSE Min(at)

\* rfind(ch).
FindLast(s, ch) ==
  LET at == {i \in DOMAIN s : s[i] = ch} IN IF at = {} THEN Npos ELSE Max(at)

\* substr(i, count), substr(i), and substr(0, i) with i not included.
Substr(s, i, count) == SubSeq(s, i, Min({Len(s), i + count - 1}))
From(s, i) == SubSeq(s, i, Len(s))
Before(s, i) == SubSeq(s, 1, i - 1)
================================================================================
