------------------------------ MODULE LikeMatch ------------------------------
(***************************************************************************)
(* likeMatch, simpleLikeMatch and indexLike of internal/proxy/probe.go,     *)
(* which answer SHOW VARIABLES LIKE for the names the proxy makes up.       *)
(* Names and patterns are sequences of bytes.                               *)
(***************************************************************************)
EXTENDS Naturals, Sequences, SequencesExt, FiniteSetsExt

\* strings.Split(pattern, "%")
NextByte(parts, b) ==
  IF b = "%" THEN Append(parts, <<>>) ELSE [parts EXCEPT ![Len(parts)] = Append(@, b)]

SplitAtPercent(pattern) == FoldLeft(NextByte, << <<>> >>, pattern)

\* sub at offset i of s, a "_" of it standing for any byte.
FitsAt(s, sub, i) == \A j \in DOMAIN sub : sub[j] = "_" \/ s[i + j] = sub[j]

SimpleLikeMatch(s, pattern) == Len(s) = Len(pattern) /\ FitsAt(s, pattern, 0)

NotFound == 0 - 1

IndexLike(s, sub) ==
  LET found == {i \in 0..(Len(s) - Len(sub)) : FitsAt(s, sub, i)}
  IN  IF found = {} THEN NotFound ELSE Min(found)

\* One round of the loop over the middle parts: what is left of the name.
Failed == <<"failed">>

\* Mutant: the search goes on at the start of what was found.
MutAfter(rest, part) ==
  IF rest = Failed \/ IndexLike(rest, part) = NotFound THEN Failed
  ELSE SubSeq(rest, IndexLike(rest, part) + 1, Len(rest))

After(rest, part) ==
  IF rest = Failed \/ IndexLike(rest, part) = NotFound THEN Failed
  ELSE SubSeq(rest, IndexLike(rest, part) + Len(part) + 1, Len(rest))

\* The first and the last part are compared as they are, "_" included.
Likes(s, pattern) ==
  LET parts == SplitAtPercent(pattern)
      last  == parts[Len(parts)]
      rest  == FoldLeft(After, SubSeq(s, Len(parts[1]) + 1, Len(s)),
                        SubSeq(parts, 2, Len(parts) - 1))
  IN  IF Len(parts) = 1 THEN SimpleLikeMatch(s, pattern)
      ELSE IsPrefix(parts[1], s) /\ rest # Failed /\ IsSuffix(last, rest)

-----------------------------------------------------------------------------
(* The reference: LIKE by its definition.                                   *)

\* How many bytes of the name the first j of the pattern can stand for.
SqlLike(s, pattern) ==
  LET Taken[j \in 0..Len(pattern)] ==
        IF j = 0 THEN {0}
        ELSE IF pattern[j] = "%" THEN {k \in 0..Len(s) : \E l \in Taken[j - 1] : l <= k}
        ELSE {k \in 1..Len(s) : k - 1 \in Taken[j - 1] /\ pattern[j] \in {"_", s[k]}}
  IN  Len(s) \in Taken[Len(pattern)]

\* A pattern with a "%" has a "_" before its first or after its last one.
EdgeWildcard(pattern) ==
  LET parts == SplitAtPercent(pattern)
  IN  Len(parts) > 1 /\ \E k \in {1, Len(parts)} : \E j \in DOMAIN parts[k] : parts[k][j] = "_"

\* A client that asks for some variables gets no others, and gets all of them,
\* although the loop takes the first place each part fits and never comes back
\* to it; unless a "_" before the first or after the last "%" has to stand for
\* another byte.
LikeAgrees(s, pattern) ==
  /\ Likes(s, pattern) => SqlLike(s, pattern)
  /\ SqlLike(s, pattern) /\ ~EdgeWildcard(pattern) => Likes(s, pattern)
=============================================================================
