----------------------------- MODULE Numbering -----------------------------
(***************************************************************************)
(* The yearly sequence behind case and invoice numbers                     *)
(* (packages/shared/src/utils/case-number.ts and the two queries that feed *)
(* it).  A number PREFIX-YYYY-NNNN is its sequence value: the prefix and   *)
(* the year are fixed within one sequence.  What matters is that the code  *)
(* finds "the last number" by sorting TEXT: up to Limit - 1 the padding    *)
(* keeps text order and numeric order equal; from Limit on a number has    *)
(* one digit more than the padding and sorts by its leading digits.        *)
(* In the code Base = 10 and Limit = 10000 (padStart(4)).                  *)
(***************************************************************************)
EXTENDS Integers

CONSTANTS
  Base,   \* radix of the printed number
  Limit   \* first number that is longer than the padding

ASSUME NumberingAssumption ==
  /\ Base \in Nat /\ Base >= 3
  /\ Limit \in Nat /\ Limit >= Base
  /\ Limit % Base = 0   \* it is a power of Base

(***************************************************************************)
(* Rank of a number under text order, for numbers of at most one digit     *)
(* more than the padding: compare the padded digits first, and a number    *)
(* that is a prefix of another comes before it.                            *)
(***************************************************************************)
SortKey(n) ==
  IF n < Limit
  THEN n * (Base + 1)
  ELSE (n \div Base) * (Base + 1) + 1 + (n % Base)

\* findFirst(... orderBy: { number: 'desc' }): the last of S in text order.
Highest(S) == CHOOSE n \in S : \A m \in S : SortKey(m) <= SortKey(n)

\* nextSequenceNumber: one more than the number the query found, 1 if none.
NextNumber(S) == IF S = {} THEN 1 ELSE Highest(S) + 1
=============================================================================
