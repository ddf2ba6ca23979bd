-------------------------------- MODULE Tags --------------------------------
(***************************************************************************)
(* Lists of tags (bridge/util.go): a list is a sequence of symbols, cut at *)
(* the commas that have no backslash before them.                          *)
(***************************************************************************)
EXTENDS Integers, Sequences, FiniteSetsExt

CONSTANT Symbols   \* what values are made of

Values == Seq(Symbols)

\* Variant: an escaped comma ends a tag as any other does.
NeverEscaped(str, i) == FALSE

Escaped(str, i) == str[i - 1] = "\\"

\* The first comma after the offset, 0 if there is none.
NextComma(str, offset) ==
  LET commas == {i \in offset + 1 .. Len(str) : str[i] = ","}
  IN IF commas = {} THEN 0 ELSE Min(commas)

Without(str, i) == SubSeq(str, 1, i - 1) \o SubSeq(str, i + 1, Len(str))

\* The search for the end of a tag that starts where str does.  It goes on
\* after an escaped comma, whose backslash is taken out; rec is the function
\* itself, for shorter lists.
ParseFrom(rec, str, offset) ==
  LET i == NextComma(str, offset)
  IN IF str = <<>> THEN <<>>
     ELSE IF i = 0 THEN <<str>>
     ELSE IF i = 1 THEN rec[Tail(str)][0]
     ELSE IF Escaped(str, i) THEN rec[Without(str, i - 1)][i - 1]
     ELSE Append(rec[SubSeq(str, i + 1, Len(str))][0], SubSeq(str, 1, i - 1))

\* The tags of a list, the last one first; the offset is 0 at first.
recParseEscapedComma[str \in Values] ==
  [offset \in Nat |-> ParseFrom(recParseEscapedComma, str, offset)]

combineTags(tags, ForceTags, transport) ==
  recParseEscapedComma[tags][0] \o recParseEscapedComma[ForceTags][0] \o
  recParseEscapedComma[transport][0]

-----------------------------------------------------------------------------
(* What a list means                                                       *)

Cut(str, i) == str[i] = "," /\ (i = 1 \/ str[i - 1] # "\\")

\* The symbols of a tag are those of a part of the list, in their order,
\* without the backslashes before commas.
IsUnescaped(tag, part) ==
  \E at \in [DOMAIN tag -> DOMAIN part] :
    /\ \A i, j \in DOMAIN tag : i < j => at[i] < at[j]
    /\ \A k \in DOMAIN part :
         (\E i \in DOMAIN tag : at[i] = k) <=>
           ~(part[k] = "\\" /\ k < Len(part) /\ part[k + 1] = ",")
    /\ \A i \in DOMAIN tag : tag[i] = part[at[i]]

\* The tags are the longest parts of a list without a cut, in any order:
\* between two of them there is a cut, and all that is in none is a cut.
IsSplit(tags, str) ==
  \E first, last \in [DOMAIN tags -> DOMAIN str] :
    /\ \A n \in DOMAIN tags :
         /\ first[n] <= last[n]
         /\ IsUnescaped(tags[n], SubSeq(str, first[n], last[n]))
    /\ \A m, n \in DOMAIN tags :
         m # n => \E i \in DOMAIN str :
                    Cut(str, i) /\ (i < first[m] <=> ~(i < first[n]))
    /\ \A i \in DOMAIN str :
         Cut(str, i) <=> \A n \in DOMAIN tags : i \notin first[n] .. last[n]

=============================================================================
