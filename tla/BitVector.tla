------------------------------ MODULE BitVector ------------------------------
(***************************************************************************)
(* BitVector and BitVector64 (src/src/BitVector): for each of the first    *)
(* two fields a matcher finds the range a packet is in, and every range    *)
(* has a bit set of the rules it is inside of; the first rule in all of    *)
(* them that matches is the answer.  The indices of the code begin at 0,   *)
(* and so do the results of matchers and bit scans.                        *)
(***************************************************************************)
EXTENDS Boxes

CONSTANTS
  BitsPerWord,    \* BITS_PER_WORD; a BitSet64 has twice as many
  PointBits       \* the bits of a Point1d

PowerOfTwo[n \in Nat] == IF n = 0 THEN 1 ELSE 2 * PowerOfTwo[n - 1]

(* The two fields that matchers are built for, the addresses, have the     *)
(* values with a common prefix.                                            *)
MatchedFields == {Order[1], Order[2]}

PrefixRange(low, high) ==
  \E k \in 0..PointBits : high - low + 1 = PowerOfTwo[k] /\ low % PowerOfTwo[k] = 0

ASSUME BitVectorAssumption ==
  /\ BitsPerWord \in Nat \ {0} /\ PointBits \in Nat /\ Len(Order) >= 2
  /\ \A r \in Rules, f \in MatchedFields : PrefixRange(Low[r][f], High[r][f])

VARIABLE built      \* what _ConstructClassifier has made: rules, matchers and fields

-----------------------------------------------------------------------------
(* The ranges of a field *)

ContainsRange(outer, inner) == outer.low <= inner.low /\ outer.high >= inner.high

(* InsideOutCompare: what lies inside comes first, the rest by CompareRanges *)
InsideOut(a, b) ==
  /\ ~ContainsRange(a, b)
  /\ \/ ContainsRange(b, a)
     \/ a.low < b.low
     \/ a.low = b.low /\ a.high < b.high

RangeOf(r, f) == Interval(Low[r][f], High[r][f])

RangesOf(S, f) == Ranked({RangeOf(r, f) : r \in S}, InsideOut)

(* PrefixLength of BitVector.cpp: how often the length is halved until     *)
(* nothing is left, which is the number of bits the prefix leaves open.    *)
OpenBits(s) == Min({k \in 0..PointBits : s.high - s.low < PowerOfTwo[k]})

-----------------------------------------------------------------------------
(* Matchers: the index of the range x is in *)

(* The sum of the boosts of the terms of T among the first n *)
SumAmong(boost, T, n) == PartSums([k \in 1..n |-> IF k \in T THEN boost[k] ELSE 0])[n]

Containing(terms, i) == {k \in DOMAIN terms : ContainsRange(terms[k], terms[i])}

(* EqnMatcher.  The terms are the ranges from the outermost on; what the   *)
(* terms add that x satisfies is the position of the innermost.            *)
(* Mutant: the boosts of the terms around a term are not taken off.        *)
Boosts_All(terms) == [i \in DOMAIN terms |-> i - 1]

Boosts(terms) ==
  LET boost[i \in DOMAIN terms] == i - 1 - SumAmong(boost, Containing(terms, i), i - 1)
  IN  boost

(* (x ^ xored) <= mask *)
Agrees(x, s) == x \div PowerOfTwo[OpenBits(s)] = s.low \div PowerOfTwo[OpenBits(s)]

SumOfTerms(terms, boost, x) == SumAmong(boost, {k \in DOMAIN terms : Agrees(x, terms[k])}, Len(terms))

Reversed(s) == [i \in DOMAIN s |-> s[Len(s) + 1 - i]]

EqnMatch(ranges, x) ==
  Len(ranges) - 1 - SumOfTerms(Reversed(ranges), Boosts(Reversed(ranges)), x)

(* BinaryRangeSearch: the segments between two dividers have the first of  *)
(* the ranges that contains them.                                          *)
Dividers(ranges, f) ==
  Ranked(({s.low : s \in Elems(ranges)} \cup {(s.high + 1) % (Top[f] + 1) : s \in Elems(ranges)}) \ {0}, <)

FirstContaining(ranges, x) ==
  Min({Len(ranges)} \cup {j - 1 : j \in {k \in DOMAIN ranges : ranges[k].low <= x /\ x <= ranges[k].high}})

Seek(dividers, x) ==
  LET seek[s \in (0..Len(dividers)) \X (0..Len(dividers))] ==
        LET l == s[1]  r == s[2]  m == (l + r) \div 2
        IN  IF l = r THEN l ELSE IF x < dividers[m + 1] THEN seek[<<l, m>>] ELSE seek[<<m + 1, r>>]
  IN  seek[<<0, Len(dividers)>>]

SearchIn(ranges, dividers, x) ==
  FirstContaining(ranges, IF Seek(dividers, x) = 0 THEN 0 ELSE dividers[Seek(dividers, x)])

RangeSearch(ranges, f, x) == SearchIn(ranges, Dividers(ranges, f), x)

(* LongestPrefixMatch.  The table has the open bits of a range where its   *)
(* index belongs, and masks as many bits as are open.  There is no index   *)
(* -1: it is taken for one beyond the ranges.                              *)
LongestPrefix(ranges, x) ==
  LET lens == {OpenBits(s) : s \in {t \in Elems(ranges) : Masked(x, OpenBits(t)) = t.low}}
  IN  IF lens = {} THEN Len(ranges) ELSE Max(lens)

-----------------------------------------------------------------------------
(* BitSet: words of bits *)

Words(len) == 1..((len + BitsPerWord - 1) \div BitsPerWord)

BitSet(S, len) ==
  [w \in Words(len) |-> {b \in 0..(BitsPerWord - 1) : (w - 1) * BitsPerWord + b \in S}]

And(a, b) == [w \in DOMAIN a |-> a[w] \cap b[w]]

(* The first bit from word w on *)
FindFrom(a, w) ==
  LET set == {v \in DOMAIN a : v >= w /\ a[v] # {}}
  IN  IF set = {} THEN Len(a) * BitsPerWord ELSE (Min(set) - 1) * BitsPerWord + Min(a[Min(set)])

FindFirst(a) == FindFrom(a, 1)

FindNext(a, index) ==
  LET w     == index \div BitsPerWord + 1
      later == {b \in a[w] : b > index % BitsPerWord}
  IN  IF later # {} THEN (w - 1) * BitsPerWord + Min(later) ELSE FindFrom(a, w + 1)

(* BitSet64: the set with every bit has those of the first word only, and  *)
(* only these are scanned for.  No bit is (size_t) -1, beyond all rules.   *)
All64 == 0..(BitsPerWord - 1)

FindJ(data) == IF data = {} THEN Cardinality(Rules) ELSE Min(data)

FindNext64(data, index) == FindJ({b \in data : index < b /\ b < BitsPerWord})

-----------------------------------------------------------------------------
(* _ConstructClassifier and ClassifyAPacket *)

(* The rules a range lies in *)
Inside(rl, s, f) == {i \in 0..(Len(rl) - 1) : ContainsRange(RangeOf(rl[i + 1], f), s)}

BitVectorOf(S) ==
  LET rl == ByPriority(S)
  IN  [rules  |-> rl,
       ranges |-> [f \in MatchedFields |-> RangesOf(S, f)],
       sets   |-> [f \in MatchedFields |->
                     [j \in DOMAIN RangesOf(S, f) |-> Inside(rl, RangesOf(S, f)[j], f)]]]

(* The scan for a rule that matches, from each bit on; next is the one     *)
(* after a bit                                                             *)
Scan(next, p) ==
  LET scan[i \in Nat] ==
        IF i >= Len(built.rules) THEN -1
        ELSE IF <<built.rules[i + 1], p>> \in Match THEN Priority[built.rules[i + 1]]
        ELSE scan[next[i]]
  IN  scan

(* found[f]: what the matcher of f returned *)
NoRange(found) == \E f \in MatchedFields : found[f] + 1 \notin DOMAIN built.sets[f]

BitsOf(found, f) == built.sets[f][found[f] + 1]

Solution(found) ==
  LET len == Len(built.rules)
  IN  And(And(BitSet(0..(len + BitsPerWord), len), BitSet(BitsOf(found, Order[1]), len)),
          BitSet(BitsOf(found, Order[2]), len))

BitVectorClassify(found, p) ==
  IF NoRange(found) THEN -1
  ELSE Scan([i \in Nat |-> FindNext(Solution(found), i)], p)[FindFirst(Solution(found))]

(* BitVector64.  To set a bit that the set does not have is undefined: it  *)
(* may set any, the stray ones.                                            *)
Strays == IF Len(built.rules) > 2 * BitsPerWord THEN SUBSET All64 ELSE {{}}

Solution64(found, stray) == stray \cup {b \in All64 : \A f \in MatchedFields : b \in BitsOf(found, f)}

BitVector64Classify(found, stray, p) ==
  IF NoRange(found) THEN -1
  ELSE Scan([i \in Nat |-> FindNext64(Solution64(found, stray), i)], p)[FindJ(Solution64(found, stray))]

BitVectorInit == \E S \in SUBSET Rules : built = BitVectorOf(S)

(* InsertRule and DeleteRule print that they are not supported. *)
UpdateIgnored == UNCHANGED built

BitVectorSpec == BitVectorInit /\ [][UpdateIgnored]_built

-----------------------------------------------------------------------------

EqnFound(p) == [f \in MatchedFields |-> EqnMatch(built.ranges[f], Value[p][f])]

SearchFound(p) == [f \in MatchedFields |-> RangeSearch(built.ranges[f], f, Value[p][f])]

PrefixFound(p) == [f \in MatchedFields |-> LongestPrefix(built.ranges[f], Value[p][f])]

(* The rules a BitVector64 has bits of that are scanned for *)
FirstWord == {built.rules[i] : i \in {j \in DOMAIN built.rules : j <= BitsPerWord}}

ExactBy(found, p) ==
  /\ BitVectorClassify(found, p) = Best(Matching(Elems(built.rules), p))
  /\ \A stray \in Strays : BitVector64Classify(found, stray, p) = Best(Matching(FirstWord, p))

(* EqnMatcher and BinaryRangeSearch find the innermost range of a value,   *)
(* and the intersection of its rules, scanned word by word, answers as the *)
(* rule list does; a BitVector64 answers from the rules of the first word. *)
(* Over LongestPrefixMatch, which BitVector is built with, rules are       *)
(* missed, but the answer is still a rule that matches.                    *)
BitVectorAnswers ==
  \A p \in Packets :
    /\ ExactBy(EqnFound(p), p)
    /\ ExactBy(SearchFound(p), p)
    /\ BitVectorClassify(PrefixFound(p), p) \in Matching(Elems(built.rules), p) \cup {-1}
=============================================================================
