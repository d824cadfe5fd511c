--------------------------- MODULE CveMatchProofs ---------------------------
(***************************************************************************)
(* Proofs about VersionCompare and CveMatch, for every index, every alias  *)
(* table and every inventory: version_compare orders the versions          *)
(* whose words agree as a dictionary does, and a scan reports the findings *)
(* it owes, resolves names by the longest prefix and counts what it saw.   *)
(*                                                                         *)
(* What a loop computes is shown by taking the first turn that goes wrong: *)
(* FirstOfLeast gives it, and the turn before was right.                   *)
(***************************************************************************)
EXTENDS CveMatch, FiniteSetTheorems, TLAPS

\* How long, in seconds, the provers may take for a leaf.
USE SMTT(20), ZenonT(20)

\* A set of numbers that is not empty has a least one, the one FirstOf chooses.
LEMMA FirstOfLeast ==
    ASSUME NEW T, T \subseteq Nat, T # {}
    PROVE  FirstOf(T) \in T /\ \A y \in T : FirstOf(T) <= y
<1>1. PICK x \in T : \A y \in T : ~(<<y, x>> \in OpToRel(<, Nat))
  BY WFMin, NatLessThanWellFounded, Zenon
<1>2. \A y \in T : ~(y < x)
  BY <1>1, Zenon DEF OpToRel
<1>3. \A y \in T : x <= y
  BY <1>2
<1> QED
  BY <1>3, Zenon DEF FirstOf

\* What LastOf chooses, in a set of numbers with a bound.
LEMMA LastOfGreatest ==
    ASSUME NEW n \in Nat, NEW T, T \subseteq 0..n, T # {}
    PROVE  LastOf(T) \in T /\ \A y \in T : y <= LastOf(T)
<1> DEFINE U == {n - i : i \in T}
<1>1. U \subseteq Nat /\ U # {}
  <2>1. PICK x \in T : TRUE
    BY Zenon
  <2>2. n - x \in U
    OBVIOUS
  <2>3. \A i \in T : n - i \in Nat
    OBVIOUS
  <2> QED
    BY <2>2, <2>3
<1>2. PICK u \in U : \A w \in U : u <= w
  BY <1>1, FirstOfLeast, Zenon
<1>3. PICK x \in T : u = n - x
  BY <1>2
<1>4. ASSUME NEW y \in T PROVE y <= x
  <2>1. n - y \in U
    OBVIOUS
  <2>2. u <= n - y
    BY <1>2, <2>1
  <2> QED
    BY <1>3, <2>2
<1> QED
  BY <1>3, <1>4, Zenon DEF LastOf

\* A loop of N turns that takes a value of D to another in each turn.
Loops(N, D) == [1..N -> [D -> D]]

\* The values before the first and after each of the first m turns.
IsHistory(h, m, D, start, loop) ==
    h \in [0..m -> D] /\ h[0] = start /\ \A k \in 1..m : h[k] = loop[k][h[k - 1]]

\* Every loop has a history.
LEMMA Iteration ==
    ASSUME NEW N \in Nat, NEW D, NEW base \in D, NEW step \in Loops(N, D)
    PROVE  \E g : IsHistory(g, N, D, base, step)
<1> DEFINE History(g, m) == IsHistory(g, m, D, base, step)
           T == {m \in 0..N : ~\E g : History(g, m)}
<1> USE DEF IsHistory, Loops
<1>1. ASSUME T # {} PROVE FALSE
  <2>1. PICK m \in T : \A k \in T : m <= k
    <3>1. T \subseteq Nat
      OBVIOUS
    <3> HIDE DEF T
    <3> QED
      BY <1>1, <3>1, FirstOfLeast, Zenon
  <2>2. m # 0
    <3>1. History([i \in 0..0 |-> base], 0)
      OBVIOUS
    <3> QED
      BY <2>1, <3>1, ZenonT(30)
  <2>3. PICK g : History(g, m - 1)
    <3>1. m \in 0..N
      BY <2>1
    <3>2. m - 1 \in 0..N /\ ~(m <= m - 1)
      BY <2>2, <3>1
    <3>3. m - 1 \notin T
      BY <2>1, <3>2, Zenon
    <3> QED
      BY <3>2, <3>3
  <2> DEFINE h == [i \in 0..m |-> IF i = m THEN step[m][g[m - 1]] ELSE g[i]]
  <2>4. h \in [0..m -> D]
    <3>1. step[m] \in [D -> D] /\ g[m - 1] \in D
      BY <2>1, <2>2, <2>3
    <3> QED
      BY <2>1, <2>2, <2>3, <3>1
  <2>5. History(h, m)
    BY <2>1, <2>2, <2>3, <2>4
  <2> QED
    BY <2>1, <2>5, Zenon
<1>2. T = {}
  BY <1>1
<1>3. N \in 0..N
  OBVIOUS
<1> QED
  BY <1>2, <1>3, Zenon

\* Two histories start alike and go on alike.
Alike(f, g, N) == f[0] = g[0] /\ \A k \in 1..N : f[k - 1] = g[k - 1] => f[k] = g[k]

\* Then they are the same.
LEMMA SameHistory ==
    ASSUME NEW N \in Nat, NEW f, NEW g, Alike(f, g, N)
    PROVE  \A k \in 0..N : f[k] = g[k]
<1> DEFINE T == {k \in 0..N : f[k] # g[k]}
<1>1. ASSUME T # {} PROVE FALSE
  <2>1. PICK m \in T : \A k \in T : m <= k
    <3>1. T \subseteq Nat
      OBVIOUS
    <3> HIDE DEF T
    <3> QED
      BY <1>1, <3>1, FirstOfLeast, Zenon
  <2>2. m \in 0..N /\ m # 0
    BY <2>1 DEF Alike
  <2>3. m \in 1..N /\ m - 1 \in 0..N /\ ~(m <= m - 1)
    BY <2>2
  <2>4. m - 1 \notin T
    BY <2>1, <2>3
  <2> QED
    BY <2>1, <2>3, <2>4 DEF Alike
<1> QED
  BY <1>1

-----------------------------------------------------------------------------
(* Tokens *)

\* The tokens a version may give.
TokensOf(v) == {Value(v[i]) : i \in {j \in DOMAIN v : v[j].kind \in {"tilde", "alpha", "numeric"}}}

\* tokenize gives a sequence of tokens, each from a run of the version.
LEMMA TokenizeType ==
    ASSUME NEW v \in Seq(Lexeme)
    PROVE  Tokenize(v) \in Seq(TokensOf(v))
<1> DEFINE N == Len(v)
           D == Seq(TokensOf(v))
           step == [k \in 1..N |-> [x \in D |-> PushToken(x, v[k])]]
           Turn(f, n) == IF n = 0 THEN <<>> ELSE PushToken(f[n - 1], v[n])
           out == CHOOSE f : f = [n \in 0..N |-> Turn(f, n)]
<1>1. N \in Nat /\ <<>> \in D
  OBVIOUS
<1>2. ASSUME NEW k \in 1..N, NEW x \in D PROVE PushToken(x, v[k]) \in D
  BY DEF PushToken, TokensOf
<1>3. step \in Loops(N, D)
  BY <1>2 DEF Loops
<1> HIDE DEF D
<1>4. PICK g : IsHistory(g, N, D, <<>>, step)
  <2> HIDE DEF step, N
  <2> QED
    BY <1>1, <1>3, Iteration
<1>5. ASSUME NEW k \in 1..N PROVE g[k] = PushToken(g[k - 1], v[k])
  <2>1. g[k - 1] \in D /\ g[k] = step[k][g[k - 1]]
    <3>1. k - 1 \in 0..N
      BY <1>1
    <3> HIDE DEF step, N
    <3> QED
      BY <1>4, <3>1 DEF IsHistory
  <2> QED
    BY <2>1
<1>6. g = [n \in 0..N |-> Turn(g, n)]
  BY <1>1, <1>4, <1>5 DEF IsHistory
<1>7. out = [n \in 0..N |-> Turn(out, n)]
  BY <1>6
<1>8. \A k \in 0..N : out[k] = g[k]
  <2> HIDE DEF out
  <2>1. out[0] = g[0]
    BY <1>1, <1>4, <1>7 DEF IsHistory
  <2>2. \A k \in 1..N : out[k] = PushToken(out[k - 1], v[k])
    BY <1>1, <1>7
  <2>3. Alike(out, g, N)
    BY <1>5, <2>1, <2>2 DEF Alike
  <2> HIDE DEF N
  <2> QED
    BY <1>1, <2>3, SameHistory
<1>9. Tokenize(v) = out[N]
  BY DEF Tokenize, Loop
<1>10. out[N] \in D
  BY <1>1, <1>4, <1>8 DEF IsHistory
<1> QED
  BY <1>9, <1>10 DEF D

-----------------------------------------------------------------------------
(* The order of versions *)

\* A token of a version: a tilde, a word or a number.
Token == [kind : {"tilde", "alpha", "numeric"}, n : Nat]

\* The words of two sequences of tokens keep to one order.
TokensAgree(s, t) ==
    \A x, y \in Range(s) \cup Range(t) :
        x.kind = "alpha" /\ y.kind = "alpha" /\ x.n \in Prerelease /\ y.n \notin Prerelease
            => x.n < y.n

\* A place in the dictionary is a pair of numbers.
LEMMA LetterType ==
    ASSUME NEW t \in Seq(Token), NEW i \in Nat \ {0}
    PROVE  /\ ClassOf(t, i) \in 0..4 /\ ValueOf(t, i) \in Nat
           /\ i > Len(t) => ClassOf(t, i) = 2 /\ ValueOf(t, i) = 0
           /\ i <= Len(t) => ClassOf(t, i) # 2 /\ ValueOf(t, i) = t[i].n
<1>1. CASE i > Len(t)
  BY <1>1 DEF ClassOf, ValueOf
<1>2. CASE i <= Len(t)
  <2>1. i \in DOMAIN t /\ t[i] \in Token
    BY <1>2
  <2> QED
    BY <1>2, <2>1 DEF ClassOf, ValueOf, Token
<1> QED
  BY <1>1, <1>2

\* No letter is below itself, and of two letters one at most is below.
LEMMA LetterAsymmetric ==
    ASSUME NEW s \in Seq(Token), NEW t \in Seq(Token), NEW i \in Nat \ {0}, LetterBelow(s, t, i)
    PROVE  ~LetterBelow(t, s, i)
BY LetterType DEF LetterBelow

\* cmp_token agrees with the letters, where the words do.
LEMMA CmpTokenLetter ==
    ASSUME NEW s \in Seq(Token), NEW t \in Seq(Token), TokensAgree(s, t),
           NEW i \in DOMAIN s \cap DOMAIN t
    PROVE  /\ CmpToken(s[i], t[i]) \in {-1, 0, 1}
           /\ CmpToken(s[i], t[i]) = -1 <=> LetterBelow(s, t, i)
           /\ CmpToken(s[i], t[i]) = 1 <=> LetterBelow(t, s, i)
<1>1. /\ s[i] \in Token /\ t[i] \in Token
      /\ s[i] \in Range(s) \cup Range(t) /\ t[i] \in Range(s) \cup Range(t)
      /\ ~(i > Len(s)) /\ ~(i > Len(t))
  BY DEF Range
<1>2. /\ s[i].kind \in {"tilde", "alpha", "numeric"} /\ t[i].kind \in {"tilde", "alpha", "numeric"}
      /\ s[i].n \in Nat /\ t[i].n \in Nat
  BY <1>1 DEF Token
<1>3. CASE s[i].kind # t[i].kind
  BY <1>1, <1>2, <1>3 DEF CmpToken, Sign, Rank, LetterBelow, ClassOf, ValueOf
<1>4. CASE s[i].kind = t[i].kind /\ s[i].kind # "alpha"
  BY <1>1, <1>2, <1>4 DEF CmpToken, Sign, LetterBelow, ClassOf, ValueOf
<1>5. CASE s[i].kind = t[i].kind /\ s[i].kind = "alpha"
  <2>1. /\ s[i].n \in Prerelease /\ t[i].n \notin Prerelease => s[i].n < t[i].n
        /\ t[i].n \in Prerelease /\ s[i].n \notin Prerelease => t[i].n < s[i].n
    BY <1>1, <1>5, Zenon DEF TokensAgree
  <2> QED
    BY <1>1, <1>2, <1>5, <2>1 DEF CmpToken, Sign, LetterBelow, ClassOf, ValueOf
<1> QED
  BY <1>3, <1>4, <1>5

\* The first letter that differs decides.
LEMMA FirstDifference ==
    ASSUME NEW s \in Seq(Token), NEW t \in Seq(Token), NEW f \in 1..(Len(s) + Len(t)),
           \A j \in 1..(f - 1) : ~LetterBelow(s, t, j) /\ ~LetterBelow(t, s, j),
           LetterBelow(s, t, f)
    PROVE  TokensBelow(s, t) /\ ~TokensBelow(t, s)
<1>1. TokensBelow(s, t)
  BY DEF TokensBelow
<1>2. ASSUME NEW i \in 1..(Len(t) + Len(s)), LetterBelow(t, s, i),
             \A j \in 1..(i - 1) : ~LetterBelow(t, s, j) /\ ~LetterBelow(s, t, j)
      PROVE  FALSE
  <2>1. i \in Nat \ {0} /\ f \in Nat \ {0}
    OBVIOUS
  <2>2. ~(i < f)
    <3>1. i < f => i \in 1..(f - 1)
      BY <2>1
    <3> QED
      BY <1>2, <3>1
  <2>3. ~(f < i)
    <3>1. f < i => f \in 1..(i - 1)
      BY <2>1
    <3> QED
      BY <1>2, <3>1
  <2>4. i = f
    BY <2>1, <2>2, <2>3
  <2> QED
    BY <1>2, <2>1, <2>4, LetterAsymmetric
<1> QED
  BY <1>1, <1>2 DEF TokensBelow

\* A version that ends where the other goes on: cmp_remainder agrees with the
\* letter that stands for the end.
LEMMA RemainderLetter ==
    ASSUME NEW s \in Seq(Token), NEW t \in Seq(Token), Len(t) < Len(s)
    PROVE  LET i == Len(t) + 1 IN
           /\ CmpRemainder(s[i]) \in {-1, 1}
           /\ CmpRemainder(s[i]) = -1 <=> LetterBelow(s, t, i)
           /\ CmpRemainder(s[i]) = 1 <=> LetterBelow(t, s, i)
<1> DEFINE i == Len(t) + 1
<1>1. /\ i \in Nat \ {0} /\ i > Len(t) /\ ~(i > Len(s)) /\ s[i] \in Token
  OBVIOUS
<1>2. s[i].kind \in {"tilde", "alpha", "numeric"} /\ s[i].n \in Nat
  BY <1>1 DEF Token
<1> HIDE DEF i
<1>3. /\ ClassOf(t, i) = 2 /\ ClassOf(s, i) \in {0, 1, 3, 4}
      /\ ClassOf(s, i) < 2 <=> s[i].kind = "tilde" \/ (s[i].kind = "alpha" /\ s[i].n \in Prerelease)
  BY <1>1, <1>2 DEF ClassOf
<1>4. LetterBelow(s, t, i) <=> ClassOf(s, i) < 2
  BY <1>3 DEF LetterBelow
<1>5. LetterBelow(t, s, i) <=> ~(ClassOf(s, i) < 2)
  BY <1>3 DEF LetterBelow
<1> QED
  BY <1>3, <1>4, <1>5 DEF CmpRemainder, i

\* The tokens: version_compare decides like the dictionary.
LEMMA CompareTokensBelow ==
    ASSUME NEW s \in Seq(Token), NEW t \in Seq(Token), TokensAgree(s, t)
    PROVE  /\ CompareTokens(s, t) \in {-1, 0, 1}
           /\ CompareTokens(s, t) = -1 <=> TokensBelow(s, t)
           /\ CompareTokens(s, t) = 1 <=> TokensBelow(t, s)
<1> DEFINE n == IF Len(s) < Len(t) THEN Len(s) ELSE Len(t)
           differ == {i \in 1..n : CmpToken(s[i], t[i]) # 0}
<1>1. /\ Len(s) \in Nat /\ Len(t) \in Nat /\ n \in Nat /\ n <= Len(s) /\ n <= Len(t)
      /\ n = Len(s) \/ n = Len(t)
  OBVIOUS
<1>2. \A i \in 1..n : i \in DOMAIN s \cap DOMAIN t
  BY <1>1
<1>3. CompareTokens(s, t) =
          IF differ # {} THEN CmpToken(s[FirstOf(differ)], t[FirstOf(differ)])
          ELSE IF Len(s) > n THEN CmpRemainder(s[n + 1])
          ELSE IF Len(t) > n THEN -CmpRemainder(t[n + 1]) ELSE 0
  BY DEF CompareTokens
<1>4. \A i \in 1..n : i \notin differ => ~LetterBelow(s, t, i) /\ ~LetterBelow(t, s, i)
  BY <1>2, CmpTokenLetter
<1>0. \A x \in {-1, 1} : (x = -1 <=> -x = 1) /\ (x = 1 <=> -x = -1)
  OBVIOUS
<1>5. differ \subseteq 1..n /\ \A i \in differ : CmpToken(s[i], t[i]) # 0
  OBVIOUS
<1> HIDE DEF n, differ
<1>6. CASE differ # {}
  <2> DEFINE f == FirstOf(differ)
  <2>1. f \in differ /\ \A j \in differ : f <= j
    <3>1. differ \subseteq Nat
      BY <1>1, <1>5
    <3> QED
      BY <1>6, <3>1, FirstOfLeast, Zenon
  <2> HIDE DEF f
  <2>2. f \in 1..n /\ f \in 1..(Len(s) + Len(t)) /\ f \in 1..(Len(t) + Len(s))
    BY <1>1, <1>5, <2>1
  <2>3. ASSUME NEW j \in 1..(f - 1) PROVE ~LetterBelow(s, t, j) /\ ~LetterBelow(t, s, j)
    <3>1. j \in 1..n /\ ~(f <= j)
      BY <1>1, <2>2
    <3> QED
      BY <1>4, <2>1, <3>1
  <2>4. /\ CmpToken(s[f], t[f]) \in {-1, 1}
        /\ CmpToken(s[f], t[f]) = -1 <=> LetterBelow(s, t, f)
        /\ CmpToken(s[f], t[f]) = 1 <=> LetterBelow(t, s, f)
    BY <1>2, <1>5, <2>1, <2>2, CmpTokenLetter
  <2>5. CASE CmpToken(s[f], t[f]) = -1
    <3>1. TokensBelow(s, t) /\ ~TokensBelow(t, s)
      BY <2>2, <2>3, <2>4, <2>5, FirstDifference
    <3> QED
      BY <1>3, <1>6, <2>5, <3>1 DEF f
  <2>6. CASE CmpToken(s[f], t[f]) = 1
    <3>1. TokensBelow(t, s) /\ ~TokensBelow(s, t)
      BY <2>2, <2>3, <2>4, <2>6, FirstDifference
    <3> QED
      BY <1>3, <1>6, <2>6, <3>1 DEF f
  <2> QED
    BY <2>4, <2>5, <2>6
<1>7. CASE differ = {} /\ Len(s) > n
  <2>1. /\ n = Len(t) /\ n + 1 \in 1..(Len(s) + Len(t)) /\ n + 1 \in 1..(Len(t) + Len(s))
        /\ CompareTokens(s, t) = CmpRemainder(s[n + 1])
    BY <1>1, <1>3, <1>7
  <2>2. \A j \in 1..(n + 1 - 1) : ~LetterBelow(s, t, j) /\ ~LetterBelow(t, s, j)
    BY <1>1, <1>4, <1>7
  <2>3. /\ CmpRemainder(s[n + 1]) \in {-1, 1}
        /\ CmpRemainder(s[n + 1]) = -1 <=> LetterBelow(s, t, n + 1)
        /\ CmpRemainder(s[n + 1]) = 1 <=> LetterBelow(t, s, n + 1)
    BY <1>7, <2>1, RemainderLetter
  <2>4. CASE CmpRemainder(s[n + 1]) = -1
    <3>1. TokensBelow(s, t) /\ ~TokensBelow(t, s)
      BY <2>1, <2>2, <2>3, <2>4, FirstDifference
    <3> QED
      BY <2>1, <2>4, <3>1
  <2>5. CASE CmpRemainder(s[n + 1]) = 1
    <3>1. TokensBelow(t, s) /\ ~TokensBelow(s, t)
      BY <2>1, <2>2, <2>3, <2>5, FirstDifference
    <3> QED
      BY <2>1, <2>5, <3>1
  <2> QED
    BY <2>3, <2>4, <2>5
<1>8. CASE differ = {} /\ ~(Len(s) > n) /\ Len(t) > n
  <2>1. /\ n = Len(s) /\ n + 1 \in 1..(Len(s) + Len(t)) /\ n + 1 \in 1..(Len(t) + Len(s))
        /\ CompareTokens(s, t) = -CmpRemainder(t[n + 1])
    BY <1>1, <1>3, <1>8
  <2>2. \A j \in 1..(n + 1 - 1) : ~LetterBelow(s, t, j) /\ ~LetterBelow(t, s, j)
    BY <1>1, <1>4, <1>8
  <2>3. /\ CmpRemainder(t[n + 1]) \in {-1, 1}
        /\ CmpRemainder(t[n + 1]) = -1 <=> LetterBelow(t, s, n + 1)
        /\ CmpRemainder(t[n + 1]) = 1 <=> LetterBelow(s, t, n + 1)
    BY <1>8, <2>1, RemainderLetter
  <2>4. CASE CmpRemainder(t[n + 1]) = -1
    <3>1. TokensBelow(t, s) /\ ~TokensBelow(s, t)
      BY <2>1, <2>2, <2>3, <2>4, FirstDifference
    <3>2. CompareTokens(s, t) = 1
      BY <1>0, <2>1, <2>3, <2>4
    <3> QED
      BY <3>1, <3>2
  <2>5. CASE CmpRemainder(t[n + 1]) = 1
    <3>1. TokensBelow(s, t) /\ ~TokensBelow(t, s)
      BY <2>1, <2>2, <2>3, <2>5, FirstDifference
    <3>2. CompareTokens(s, t) = -1
      BY <1>0, <2>1, <2>3, <2>5
    <3> QED
      BY <3>1, <3>2
  <2> QED
    BY <2>3, <2>4, <2>5
<1>9. CASE differ = {} /\ ~(Len(s) > n) /\ ~(Len(t) > n)
  <2>1. Len(s) = n /\ Len(t) = n /\ CompareTokens(s, t) = 0
    BY <1>1, <1>3, <1>9
  <2>2. ASSUME NEW i \in Nat \ {0} PROVE ~LetterBelow(s, t, i) /\ ~LetterBelow(t, s, i)
    <3>1. CASE i > n
      BY <2>1, <3>1, LetterType DEF LetterBelow
    <3>2. CASE i \in 1..n
      BY <1>4, <1>9, <3>2
    <3> QED
      BY <1>1, <3>1, <3>2
  <2>3. ~TokensBelow(s, t) /\ ~TokensBelow(t, s)
    BY <1>1, <2>2 DEF TokensBelow
  <2> QED
    BY <2>1, <2>3
<1> QED
  BY <1>6, <1>7, <1>8, <1>9

\* A lexeme gives a token.
LEMMA ValueType ==
    ASSUME NEW l \in Lexeme
    PROVE  /\ Value(l) \in Lexeme /\ Value(l).kind = l.kind
           /\ l.kind # "numeric" => Value(l) = l
BY VersionAssumption DEF Value, Lexeme

\* The epoch is a number, and what is left without it is part of the version.
LEMMA EpochType ==
    ASSUME NEW v \in Seq(Lexeme)
    PROVE  /\ Epoch(v) \in Nat
           /\ StripEpoch(v) \in Seq(Lexeme)
           /\ Range(StripEpoch(v)) \subseteq Range(v)
<1>1. Epoch(v) \in Nat
  <2>1. CASE HasEpoch(v) /\ v[1].kind = "numeric"
    <3>1. v # <<>>
      BY <2>1 DEF HasEpoch, Positions
    <3>2. v[1] \in Lexeme
      BY <3>1
    <3>3. v[1].n \in Nat /\ Wrap \in Nat /\ Wrap > 0
      BY <3>2, VersionAssumption DEF Lexeme
    <3> QED
      BY <2>1, <3>3 DEF Epoch
  <2>2. CASE ~(HasEpoch(v) /\ v[1].kind = "numeric")
    BY <2>2 DEF Epoch
  <2> QED
    BY <2>1, <2>2
<1>2. CASE HasEpoch(v)
  <2> DEFINE colons == Positions(v, "colon")
             m == FirstOf(colons) + 1
  <2>1. colons \subseteq Nat /\ colons \subseteq 1..Len(v) /\ colons # {}
    BY <1>2 DEF HasEpoch, Positions
  <2> HIDE DEF colons
  <2>2. FirstOf(colons) \in colons
    BY <2>1, FirstOfLeast, Zenon
  <2>3. m \in Nat /\ m >= 2 /\ m <= Len(v) + 1
    <3>1. FirstOf(colons) \in 1..Len(v)
      BY <2>1, <2>2, Zenon
    <3> QED
      BY <3>1
  <2>4. StripEpoch(v) = SubSeq(v, m, Len(v))
    BY <1>2, Zenon DEF StripEpoch, colons
  <2> HIDE DEF m
  <2>5. SubSeq(v, m, Len(v)) \in Seq(Lexeme) /\ Len(SubSeq(v, m, Len(v))) = Len(v) - m + 1
    BY <2>3
  <2>6. ASSUME NEW i \in DOMAIN SubSeq(v, m, Len(v))
        PROVE  SubSeq(v, m, Len(v))[i] \in Range(v)
    <3>1. i \in 1..(Len(v) - m + 1)
      BY <2>5
    <3>2. SubSeq(v, m, Len(v))[i] = v[m + i - 1] /\ m + i - 1 \in 1..Len(v)
      BY <2>3, <3>1
    <3> QED
      BY <3>2 DEF Range
  <2> QED
    BY <1>1, <2>4, <2>5, <2>6 DEF Range
<1>3. CASE ~HasEpoch(v)
  BY <1>1, <1>3 DEF StripEpoch
<1> QED
  BY <1>2, <1>3

\* The tokens of a version, and where its words come from.
LEMMA VersionTokens ==
    ASSUME NEW v \in Seq(Lexeme)
    PROVE  LET t == Tokenize(StripEpoch(v)) IN
           /\ t \in Seq(Token)
           /\ \A x \in Range(t) : x.kind = "alpha" => x \in Range(v)
<1> DEFINE u == StripEpoch(v)
           t == Tokenize(u)
<1>1. u \in Seq(Lexeme) /\ Range(u) \subseteq Range(v)
  BY EpochType
<1> HIDE DEF u
<1>2. t \in Seq(TokensOf(u))
  BY <1>1, TokenizeType
<1> HIDE DEF t
<1>3. ASSUME NEW x \in TokensOf(u)
      PROVE  x \in Token /\ (x.kind = "alpha" => x \in Range(v))
  <2>1. PICK i \in DOMAIN u : x = Value(u[i]) /\ u[i].kind \in {"tilde", "alpha", "numeric"}
    BY DEF TokensOf
  <2>2. u[i] \in Lexeme /\ u[i] \in Range(u)
    BY <1>1, <2>1 DEF Range
  <2>3. x \in Lexeme /\ x.kind = u[i].kind /\ (x.kind # "numeric" => x = u[i])
    BY <2>1, <2>2, ValueType
  <2>4. x \in Token
    BY <2>1, <2>3 DEF Lexeme, Token
  <2> QED
    BY <1>1, <2>2, <2>3, <2>4
<1>4. t \in Seq(Token)
  <2>1. TokensOf(u) \subseteq Token
    BY <1>3
  <2> QED
    BY <1>2, <2>1
<1>5. Range(t) \subseteq TokensOf(u)
  BY <1>2 DEF Range
<1> QED
  BY <1>3, <1>4, <1>5 DEF t, u

\* Versions whose words agree have tokens that do.
LEMMA AgreeingTokens ==
    ASSUME NEW vs, NEW a \in vs, NEW b \in vs, a \in Seq(Lexeme), b \in Seq(Lexeme), WordsAgree(vs)
    PROVE  TokensAgree(Tokenize(StripEpoch(a)), Tokenize(StripEpoch(b)))
<1> DEFINE s == Tokenize(StripEpoch(a))
           t == Tokenize(StripEpoch(b))
           lexemes == UNION {{v[i] : i \in DOMAIN v} : v \in vs}
           words == {l.n : l \in {m \in lexemes : m.kind = "alpha"}}
<1>1. /\ \A x \in Range(s) : x.kind = "alpha" => x \in Range(a)
      /\ \A x \in Range(t) : x.kind = "alpha" => x \in Range(b)
  BY VersionTokens
<1>2. Range(a) \subseteq lexemes /\ Range(b) \subseteq lexemes
  BY DEF Range
<1>3. \A p \in words \cap Prerelease, q \in words \ Prerelease : p < q
  BY DEF WordsAgree
<1> HIDE DEF s, t, lexemes
<1>4. \A x \in Range(s) \cup Range(t) : x.kind = "alpha" => x.n \in words
  BY <1>1, <1>2
<1> HIDE DEF words
<1>5. TokensAgree(s, t)
  BY <1>3, <1>4 DEF TokensAgree
<1> QED
  BY <1>5 DEF s, t

\* version_compare puts versions whose words agree in the dictionary's order.
THEOREM CompareBelow ==
    ASSUME NEW a \in Seq(Lexeme), NEW b \in Seq(Lexeme), WordsAgree({a, b})
    PROVE  /\ Compare(a, b) \in {-1, 0, 1}
           /\ Compare(a, b) = -1 <=> Below(a, b)
           /\ Compare(a, b) = 1 <=> Below(b, a)
<1> DEFINE s == Tokenize(StripEpoch(a))
           t == Tokenize(StripEpoch(b))
<1>1. s \in Seq(Token) /\ t \in Seq(Token) /\ Epoch(a) \in Nat /\ Epoch(b) \in Nat
  BY VersionTokens, EpochType
<1>2. TokensAgree(s, t)
  <2>1. a \in {a, b} /\ b \in {a, b}
    OBVIOUS
  <2> QED
    BY <2>1, AgreeingTokens, Zenon
<1>3. /\ Compare(a, b) = IF Epoch(a) # Epoch(b) THEN Sign(Epoch(a), Epoch(b)) ELSE CompareTokens(s, t)
      /\ Below(a, b) <=> Epoch(a) < Epoch(b) \/ (Epoch(a) = Epoch(b) /\ TokensBelow(s, t))
      /\ Below(b, a) <=> Epoch(b) < Epoch(a) \/ (Epoch(b) = Epoch(a) /\ TokensBelow(t, s))
  BY DEF Compare, Below
<1> HIDE DEF s, t
<1>4. CASE Epoch(a) = Epoch(b)
  BY <1>1, <1>2, <1>3, <1>4, CompareTokensBelow
<1>5. CASE Epoch(a) # Epoch(b)
  BY <1>1, <1>3, <1>5 DEF Sign
<1> QED
  BY <1>4, <1>5

\* Both halves of a letter are numbers, so letters can be compared.
LEMMA LetterInNat ==
    ASSUME NEW t \in Seq(Token), NEW i \in Nat \ {0}
    PROVE  ClassOf(t, i) \in Nat /\ ValueOf(t, i) \in Nat
<1>1. ClassOf(t, i) \in 0..4 /\ ValueOf(t, i) \in Nat
  BY LetterType
<1> QED
  BY <1>1

\* Two versions have the same letter at a place.
SameLetter(s, t, i) == ClassOf(s, i) = ClassOf(t, i) /\ ValueOf(s, i) = ValueOf(t, i)

\* Neither of two letters is below the other exactly if they are the same, and
\* past the end of both they are.
LEMMA LetterTrichotomy ==
    ASSUME NEW s \in Seq(Token), NEW t \in Seq(Token), NEW i \in Nat \ {0}
    PROVE  /\ SameLetter(s, t, i) <=> ~LetterBelow(s, t, i) /\ ~LetterBelow(t, s, i)
           /\ LetterBelow(s, t, i) => i \in 1..(Len(s) + Len(t)) /\ i \in 1..(Len(t) + Len(s))
<1>1. /\ ClassOf(s, i) \in Nat /\ ValueOf(s, i) \in Nat
      /\ ClassOf(t, i) \in Nat /\ ValueOf(t, i) \in Nat
  BY LetterInNat
<1>2. SameLetter(s, t, i) <=> ~LetterBelow(s, t, i) /\ ~LetterBelow(t, s, i)
  BY <1>1 DEF SameLetter, LetterBelow
<1>3. ASSUME i > Len(s), i > Len(t) PROVE SameLetter(s, t, i)
  BY <1>3, LetterType DEF SameLetter
<1>4. ASSUME LetterBelow(s, t, i) PROVE i <= Len(s) + Len(t) /\ i <= Len(t) + Len(s)
  <2>1. Len(s) \in Nat /\ Len(t) \in Nat
    OBVIOUS
  <2>2. ~(i > Len(s)) \/ ~(i > Len(t))
    BY <1>2, <1>3, <1>4
  <2> QED
    BY <2>1, <2>2
<1> QED
  BY <1>2, <1>4

\* A version between the two does not hide which is below.
LEMMA TokensBetween ==
    ASSUME NEW s \in Seq(Token), NEW t \in Seq(Token), NEW u \in Seq(Token), TokensBelow(u, s)
    PROVE  TokensBelow(t, s) \/ TokensBelow(u, t)
<1>1. PICK i \in 1..(Len(u) + Len(s)) :
          /\ LetterBelow(u, s, i)
          /\ \A j \in 1..(i - 1) : ~LetterBelow(u, s, j) /\ ~LetterBelow(s, u, j)
  BY DEF TokensBelow
<1>2. i \in Nat \ {0} /\ \A j \in 1..(i - 1) : j \in Nat \ {0}
  OBVIOUS
<1>3. \A j \in 1..(i - 1) : SameLetter(u, s, j)
  BY <1>1, <1>2, LetterTrichotomy
<1> DEFINE apart == {j \in 1..i : ~SameLetter(t, s, j) \/ ~SameLetter(u, t, j)}
<1>4. i \in apart
  <2>1. ~SameLetter(u, s, i)
    BY <1>1, <1>2, LetterTrichotomy
  <2> QED
    BY <1>2, <2>1 DEF SameLetter
<1>5. PICK f \in apart : \A j \in apart : f <= j
  <2>1. apart \subseteq Nat
    OBVIOUS
  <2> HIDE DEF apart
  <2> QED
    BY <1>4, <2>1, FirstOfLeast, Zenon
<1>6. f \in 1..i /\ f \in Nat \ {0} /\ (~SameLetter(t, s, f) \/ ~SameLetter(u, t, f))
  BY <1>5
<1>7. ASSUME NEW j \in 1..(f - 1) PROVE SameLetter(t, s, j) /\ SameLetter(u, t, j)
  <2>1. j \in 1..i /\ ~(f <= j)
    BY <1>2, <1>6
  <2> QED
    BY <1>5, <2>1
<1>8. \A j \in 1..(f - 1) : /\ ~LetterBelow(t, s, j) /\ ~LetterBelow(s, t, j)
                            /\ ~LetterBelow(u, t, j) /\ ~LetterBelow(t, u, j)
  <2>1. \A j \in 1..(f - 1) : j \in Nat \ {0}
    BY <1>6
  <2> QED
    BY <1>7, <2>1, LetterTrichotomy
<1> HIDE DEF apart
<1>9. LetterBelow(t, s, f) \/ LetterBelow(u, t, f)
  <2>1. /\ ClassOf(s, f) \in Nat /\ ValueOf(s, f) \in Nat
        /\ ClassOf(t, f) \in Nat /\ ValueOf(t, f) \in Nat
        /\ ClassOf(u, f) \in Nat /\ ValueOf(u, f) \in Nat
    BY <1>6, LetterInNat
  <2>2. CASE f = i
    BY <1>1, <2>1, <2>2 DEF LetterBelow
  <2>3. CASE f # i
    <3>1. SameLetter(u, s, f)
      BY <1>2, <1>3, <1>6, <2>3
    <3> QED
      BY <1>6, <2>1, <3>1 DEF LetterBelow, SameLetter
  <2> QED
    BY <2>2, <2>3
<1>10. CASE LetterBelow(t, s, f)
  <2>1. f \in 1..(Len(t) + Len(s))
    BY <1>6, <1>10, LetterTrichotomy
  <2> QED
    BY <1>8, <1>10, <2>1 DEF TokensBelow
<1>11. CASE LetterBelow(u, t, f)
  <2>1. f \in 1..(Len(u) + Len(t))
    BY <1>6, <1>11, LetterTrichotomy
  <2> QED
    BY <1>8, <1>11, <2>1, Zenon DEF TokensBelow
<1> QED
  BY <1>9, <1>10, <1>11

\* On versions whose words agree, version_compare is an order: turning the
\* arguments round turns the sign, and it is transitive.
THEOREM CompareIsOrder ==
    ASSUME NEW a \in Seq(Lexeme), NEW b \in Seq(Lexeme), NEW c \in Seq(Lexeme),
           WordsAgree({a, b, c})
    PROVE  /\ Compare(a, b) = -Compare(b, a)
           /\ Compare(a, b) <= 0 /\ Compare(b, c) <= 0 => Compare(a, c) <= 0
<1>1. WordsAgree({a, b}) /\ WordsAgree({b, a}) /\ WordsAgree({b, c}) /\ WordsAgree({a, c})
  BY DEF WordsAgree
<1>2. /\ Compare(a, b) \in {-1, 0, 1} /\ Compare(b, a) \in {-1, 0, 1}
      /\ Compare(b, c) \in {-1, 0, 1} /\ Compare(a, c) \in {-1, 0, 1}
      /\ Compare(a, b) = -1 <=> Below(a, b)
      /\ Compare(a, b) = 1 <=> Below(b, a)
      /\ Compare(b, a) = -1 <=> Below(b, a)
      /\ Compare(b, a) = 1 <=> Below(a, b)
      /\ Compare(b, c) = 1 <=> Below(c, b)
      /\ Compare(a, c) = 1 <=> Below(c, a)
  BY <1>1, CompareBelow
<1>3. Compare(a, b) = -Compare(b, a)
  BY <1>2
<1>4. ASSUME Below(c, a) PROVE Below(b, a) \/ Below(c, b)
  <2> DEFINE T(v) == Tokenize(StripEpoch(v))
  <2>1. /\ T(a) \in Seq(Token) /\ T(b) \in Seq(Token) /\ T(c) \in Seq(Token)
        /\ Epoch(a) \in Nat /\ Epoch(b) \in Nat /\ Epoch(c) \in Nat
    BY VersionTokens, EpochType
  <2>2. /\ Below(c, a) <=> Epoch(c) < Epoch(a) \/ (Epoch(c) = Epoch(a) /\ TokensBelow(T(c), T(a)))
        /\ Below(b, a) <=> Epoch(b) < Epoch(a) \/ (Epoch(b) = Epoch(a) /\ TokensBelow(T(b), T(a)))
        /\ Below(c, b) <=> Epoch(c) < Epoch(b) \/ (Epoch(c) = Epoch(b) /\ TokensBelow(T(c), T(b)))
    BY DEF Below
  <2> HIDE DEF T
  <2>3. TokensBelow(T(c), T(a)) => TokensBelow(T(b), T(a)) \/ TokensBelow(T(c), T(b))
    BY <2>1, TokensBetween
  <2> QED
    BY <1>4, <2>1, <2>2, <2>3
<1> QED
  BY <1>2, <1>3, <1>4

-----------------------------------------------------------------------------
(* The rules that hit a version *)

\* The hits among the first n rules.
HitsIn(rs, n, v) == {k \in 1..n : Hits(rs[k], v)}

\* `best` is what match_package keeps of them: one rule for each CVE, a hit of
\* the highest score.
BestOf(best, rs, n, v) ==
    /\ best \in [{rs[k].cve : k \in HitsIn(rs, n, v)} -> Lines]
    /\ \A k \in HitsIn(rs, n, v) : best[rs[k].cve].score >= rs[k].score
    /\ \A c \in DOMAIN best : \E k \in HitsIn(rs, n, v) : rs[k].cve = c /\ best[c] = rs[k]

\* One turn of match's loop keeps the best rule of each CVE.
LEMMA KeepBestOf ==
    ASSUME NEW rs \in Seq(Lines), NEW v, NEW n \in 1..Len(rs), NEW best,
           BestOf(best, rs, n - 1, v)
    PROVE  BestOf(KeepBest(best, rs[n], v), rs, n, v)
<1> DEFINE H == HitsIn(rs, n - 1, v)
           G == HitsIn(rs, n, v)
           r == rs[n]
           new == KeepBest(best, r, v)
<1>1. r \in Lines /\ r.score \in Nat
  BY MatchAssumption
<1>2. /\ best \in [{rs[k].cve : k \in H} -> Lines]
      /\ \A k \in H : best[rs[k].cve].score >= rs[k].score
      /\ \A c \in DOMAIN best : \E k \in H : rs[k].cve = c /\ best[c] = rs[k]
  BY DEF BestOf
<1>3. G = IF Hits(r, v) THEN H \cup {n} ELSE H
  BY DEF HitsIn
<1>4. \A k \in G : rs[k] \in Lines /\ rs[k].score \in Nat
  <2>1. \A k \in G : k \in DOMAIN rs
    BY DEF HitsIn
  <2> QED
    BY <2>1, MatchAssumption
<1>5. \A c \in DOMAIN best : best[c] \in Lines /\ best[c].score \in Nat
  BY <1>2, MatchAssumption
<1> HIDE DEF H, G, r
<1>6. CASE ~Hits(r, v)
  <2>1. G = H /\ new = best
    BY <1>3, <1>6 DEF KeepBest
  <2> QED
    BY <1>2, <2>1 DEF BestOf, G, H, r
<1>7. CASE Hits(r, v)
  <2>1. G = H \cup {n} /\ rs[n] = r
    BY <1>3, <1>7 DEF r
  <2>2. DOMAIN best = {rs[k].cve : k \in H}
    BY <1>2
  <2>3. {rs[k].cve : k \in G} = DOMAIN best \cup {r.cve}
    BY <2>1, <2>2
  <2>4. CASE r.cve \in DOMAIN best => r.score > best[r.cve].score
    <3>1. new = [c \in DOMAIN best \cup {r.cve} |-> IF c = r.cve THEN r ELSE best[c]]
      BY <1>7, <2>4 DEF KeepBest
    <3> HIDE DEF new
    <3>2. new \in [{rs[k].cve : k \in G} -> Lines]
      BY <1>1, <1>5, <2>3, <3>1
    <3>3. ASSUME NEW k \in G PROVE new[rs[k].cve].score >= rs[k].score
      <4>1. CASE rs[k].cve = r.cve
        <5>1. new[rs[k].cve] = r
          BY <3>1, <4>1
        <5>2. CASE k = n
          BY <1>1, <2>1, <5>1, <5>2
        <5>3. CASE k # n
          <6>1. k \in H /\ rs[k].cve \in DOMAIN best /\ best[r.cve].score >= rs[k].score
            BY <1>2, <2>1, <2>2, <4>1, <5>3
          <6> QED
            BY <1>1, <1>4, <1>5, <2>4, <4>1, <5>1, <6>1
        <5> QED
          BY <5>2, <5>3
      <4>2. CASE rs[k].cve # r.cve
        <5>1. k \in H /\ rs[k].cve \in DOMAIN best
          BY <2>1, <2>2, <4>2
        <5>2. new[rs[k].cve] = best[rs[k].cve]
          BY <3>1, <4>2, <5>1
        <5> QED
          BY <1>2, <5>1, <5>2
      <4> QED
        BY <4>1, <4>2
    <3>4. ASSUME NEW c \in DOMAIN new PROVE \E k \in G : rs[k].cve = c /\ new[c] = rs[k]
      <4>1. CASE c = r.cve
        BY <2>1, <3>1, <4>1
      <4>2. CASE c # r.cve
        <5>1. c \in DOMAIN best /\ new[c] = best[c]
          BY <3>1, <4>2
        <5> QED
          BY <1>2, <2>1, <5>1
      <4> QED
        BY <4>1, <4>2
    <3> QED
      BY <3>2, <3>3, <3>4 DEF BestOf, G, new, r
  <2>5. CASE ~(r.cve \in DOMAIN best => r.score > best[r.cve].score)
    <3>1. new = best /\ r.cve \in DOMAIN best
      BY <1>7, <2>5 DEF KeepBest
    <3>2. best[r.cve].score >= r.score
      BY <1>1, <1>5, <2>5
    <3>3. {rs[k].cve : k \in G} = {rs[k].cve : k \in H}
      BY <2>2, <2>3, <3>1, Zenon
    <3>4. \A k \in G : best[rs[k].cve].score >= rs[k].score
      BY <1>2, <2>1, <3>2
    <3>5. \A c \in DOMAIN best : \E k \in G : rs[k].cve = c /\ best[c] = rs[k]
      BY <1>2, <2>1
    <3>6. best \in [{rs[k].cve : k \in G} -> Lines]
      BY <1>2, <3>3, Zenon
    <3>7. BestOf(best, rs, n, v)
      BY <3>4, <3>5, <3>6, Zenon DEF BestOf, G
    <3> QED
      BY <3>1, <3>7, Zenon DEF new, r
  <2> QED
    BY <2>4, <2>5
<1> QED
  BY <1>6, <1>7 DEF r

\* The loop over the rules keeps, for each CVE with a hit, a hit of the highest
\* score, whatever the order of the rules.
LEMMA BestRuleOf ==
    ASSUME NEW rs \in Seq(Lines), NEW v
    PROVE  BestOf(BestRule(rs, v), rs, Len(rs), v)
<1> DEFINE N == Len(rs)
           D == UNION {[C -> Lines] : C \in SUBSET Nat}
           step == [k \in 1..N |-> [x \in D |-> KeepBest(x, rs[k], v)]]
           Turn(f, n) == IF n = 0 THEN <<>> ELSE KeepBest(f[n - 1], rs[n], v)
           out == CHOOSE f : f = [n \in 0..N |-> Turn(f, n)]
<1>1. N \in Nat /\ <<>> \in D
  <2>1. <<>> \in [{} -> Lines] /\ {} \in SUBSET Nat
    OBVIOUS
  <2>2. <<>> \in D
    BY <2>1, Zenon
  <2> QED
    BY <2>2
<1>2. ASSUME NEW k \in 1..N, NEW x \in D PROVE KeepBest(x, rs[k], v) \in D
  <2>1. PICK C \in SUBSET Nat : x \in [C -> Lines]
    OBVIOUS
  <2>2. rs[k] \in Lines /\ rs[k].cve \in Nat
    BY MatchAssumption
  <2> DEFINE y == [c \in C \cup {rs[k].cve} |-> IF c = rs[k].cve THEN rs[k] ELSE x[c]]
  <2>3. y \in [C \cup {rs[k].cve} -> Lines] /\ C \cup {rs[k].cve} \in SUBSET Nat
    BY <2>1, <2>2
  <2>4. y \in D
    BY <2>3, Zenon
  <2>5. KeepBest(x, rs[k], v) \in {x, y}
    BY <2>1 DEF KeepBest
  <2> QED
    BY <2>4, <2>5
<1>3. step \in Loops(N, D)
  <2> HIDE DEF D
  <2> QED
    BY <1>2 DEF Loops
<1> HIDE DEF D
<1>4. PICK g : IsHistory(g, N, D, <<>>, step)
  <2> HIDE DEF step, N
  <2> QED
    BY <1>1, <1>3, Iteration
<1>5. ASSUME NEW k \in 1..N PROVE g[k] = KeepBest(g[k - 1], rs[k], v)
  <2>1. g[k - 1] \in D /\ g[k] = step[k][g[k - 1]]
    <3>1. k - 1 \in 0..N
      BY <1>1
    <3> HIDE DEF step, N
    <3> QED
      BY <1>4, <3>1 DEF IsHistory
  <2> QED
    BY <2>1
<1>6. g = [n \in 0..N |-> Turn(g, n)]
  BY <1>1, <1>4, <1>5 DEF IsHistory
<1>7. out = [n \in 0..N |-> Turn(out, n)]
  BY <1>6, Zenon
<1>8. BestRule(rs, v) = out[N]
  BY DEF BestRule, Loop
<1> HIDE DEF out, step
<1>9. out[0] = <<>> /\ \A k \in 1..N : out[k] = KeepBest(out[k - 1], rs[k], v)
  BY <1>1, <1>7
<1> DEFINE T == {n \in 0..N : ~BestOf(out[n], rs, n, v)}
<1>10. ASSUME T # {} PROVE FALSE
  <2>1. PICK m \in T : \A k \in T : m <= k
    <3>1. T \subseteq Nat
      OBVIOUS
    <3> HIDE DEF T
    <3> QED
      BY <1>10, <3>1, FirstOfLeast, Zenon
  <2>2. BestOf(<<>>, rs, 0, v)
    <3>1. HitsIn(rs, 0, v) = {}
      BY DEF HitsIn
    <3>2. {rs[k].cve : k \in {}} = {} /\ <<>> \in [{} -> Lines] /\ DOMAIN <<>> = {}
      OBVIOUS
    <3> QED
      BY <3>1, <3>2 DEF BestOf
  <2>3. m \in 1..N /\ m - 1 \in 0..N /\ ~(m <= m - 1)
    <3>1. m \in 0..N /\ m # 0
      BY <1>9, <2>1, <2>2
    <3> QED
      BY <1>1, <3>1
  <2>4. BestOf(out[m - 1], rs, m - 1, v)
    BY <2>1, <2>3
  <2>5. BestOf(KeepBest(out[m - 1], rs[m], v), rs, m, v)
    BY <2>3, <2>4, KeepBestOf
  <2> QED
    BY <1>9, <2>1, <2>3, <2>5
<1>11. BestOf(out[N], rs, N, v)
  BY <1>1, <1>10
<1> QED
  BY <1>8, <1>11

\* version_upstream_part leaves a version.
LEMMA UpstreamType ==
    ASSUME NEW v \in Seq(Lexeme)
    PROVE  UpstreamPart(v) \in Seq(Lexeme)
<1> DEFINE bare == StripEpoch(v)
           dashes == Positions(bare, "dash")
           noRev == IF dashes = {} THEN bare ELSE SubSeq(bare, 1, LastOf(dashes) - 1)
           pluses == Positions(noRev, "plus")
<1>1. bare \in Seq(Lexeme)
  BY EpochType
<1> HIDE DEF bare
<1>2. noRev \in Seq(Lexeme)
  <2>1. CASE dashes # {}
    <3>1. dashes \subseteq 0..Len(bare) /\ dashes \subseteq 1..Len(bare) /\ Len(bare) \in Nat
      BY <1>1 DEF Positions
    <3>2. LastOf(dashes) \in 1..Len(bare)
      <4> HIDE DEF dashes
      <4> QED
        BY <2>1, <3>1, LastOfGreatest, Zenon
    <3> HIDE DEF dashes
    <3> QED
      BY <1>1, <2>1, <3>2
  <2> QED
    BY <1>1, <2>1
<1> HIDE DEF noRev
<1>3. CASE pluses # {}
  <2>1. pluses \subseteq Nat /\ pluses \subseteq 1..Len(noRev)
    BY <1>2 DEF Positions
  <2>2. FirstOf(pluses) \in 1..Len(noRev)
    <3> HIDE DEF pluses
    <3> QED
      BY <1>3, <2>1, FirstOfLeast, Zenon
  <2>3. UpstreamPart(v) = SubSeq(noRev, 1, FirstOf(pluses) - 1)
    BY <1>3, Zenon DEF UpstreamPart, noRev, bare
  <2> HIDE DEF pluses
  <2> QED
    BY <1>2, <2>2, <2>3
<1>4. CASE pluses = {}
  <2>1. UpstreamPart(v) = noRev
    BY <1>4 DEF UpstreamPart, noRev, bare
  <2> QED
    BY <1>2, <2>1
<1> QED
  BY <1>3, <1>4

\* A comparison with a bound comes out as the dictionary has it.
LEMMA CompareBound ==
    ASSUME NEW vs, WordsAgree(vs), NEW v \in vs, NEW w \in vs,
           v \in Seq(Lexeme), w \in Seq(Lexeme)
    PROVE  /\ Compare(v, w) = 0 <=> ~Below(v, w) /\ ~Below(w, v)
           /\ Compare(v, w) >= 0 <=> ~Below(v, w)
           /\ Compare(v, w) > 0 <=> Below(w, v)
           /\ Compare(v, w) <= 0 <=> ~Below(w, v)
           /\ Compare(v, w) < 0 <=> Below(v, w)
<1>1. WordsAgree({v, w})
  BY DEF WordsAgree
<1>2. /\ Compare(v, w) \in {-1, 0, 1}
      /\ Compare(v, w) = -1 <=> Below(v, w)
      /\ Compare(v, w) = 1 <=> Below(w, v)
  BY <1>1, CompareBelow
<1> QED
  BY <1>2

\* A rule hits the versions it should.
LEMMA HitsRight ==
    ASSUME NEW vs, WordsAgree(vs), NEW v \in vs, v \in Seq(Lexeme),
           NEW r \in Lines, BoundsOf(r) \subseteq vs
    PROVE  Hits(r, v) <=> ShouldHit(r, v)
<1>1. /\ r.version \in Seq(Lexeme) /\ r.startIncl \in Seq(Lexeme) /\ r.startExcl \in Seq(Lexeme)
      /\ r.endIncl \in Seq(Lexeme) /\ r.endExcl \in Seq(Lexeme)
  BY MatchAssumption
<1>2. /\ r.version \in vs /\ r.startIncl \in vs /\ r.startExcl \in vs
      /\ r.endIncl \in vs /\ r.endExcl \in vs
  BY DEF BoundsOf
<1>3. Compare(v, r.version) = 0 <=> ~Below(v, r.version) /\ ~Below(r.version, v)
  BY <1>1, <1>2, CompareBound
<1>4. /\ Compare(v, r.startIncl) >= 0 <=> ~Below(v, r.startIncl)
      /\ Compare(v, r.startExcl) > 0 <=> Below(r.startExcl, v)
      /\ Compare(v, r.endIncl) <= 0 <=> ~Below(r.endIncl, v)
      /\ Compare(v, r.endExcl) < 0 <=> Below(v, r.endExcl)
  BY <1>1, <1>2, CompareBound
<1> QED
  BY <1>3, <1>4 DEF Hits, ShouldHit, HasRange, InRange


-----------------------------------------------------------------------------
(* Names *)

\* A turn of the loop over the characters keeps a depth and a text.
LEMMA SkipBracketsTurn ==
    ASSUME NEW P, NEW x \in [depth : Nat, text : Seq(P)], NEW piece \in P
    PROVE  SkipBrackets(x, piece) \in [depth : Nat, text : Seq(P)]
<1>1. x.depth \in Nat /\ x.text \in Seq(P) /\ Append(x.text, piece) \in Seq(P) /\ x.depth + 1 \in Nat
  OBVIOUS
<1>2. (IF x.depth > 0 THEN x.depth - 1 ELSE 0) \in Nat
  BY <1>1
<1>3. CASE piece = "open"
  <2>1. SkipBrackets(x, piece) = [x EXCEPT !.depth = @ + 1]
    BY <1>3, Zenon DEF SkipBrackets
  <2> QED
    BY <1>1, <2>1
<1>4. CASE piece = "close"
  <2>1. SkipBrackets(x, piece) = [x EXCEPT !.depth = IF @ > 0 THEN @ - 1 ELSE 0]
    BY <1>4 DEF SkipBrackets
  <2> QED
    BY <1>1, <1>2, <2>1
<1>5. CASE piece # "open" /\ piece # "close"
  <2>1. SkipBrackets(x, piece) = IF x.depth > 0 THEN x ELSE [x EXCEPT !.text = Append(@, piece)]
    BY <1>5 DEF SkipBrackets
  <2> QED
    BY <1>1, <2>1, Zenon
<1> QED
  BY <1>3, <1>4, <1>5

\* So does the loop.
LEMMA SkipBracketsType ==
    ASSUME NEW P, NEW s \in Seq(P)
    PROVE  Loop(SkipBrackets, [depth |-> 0, text |-> <<>>], s) \in [depth : Nat, text : Seq(P)]
<1> DEFINE N == Len(s)
           D == [depth : Nat, text : Seq(P)]
           step == [k \in 1..N |-> [x \in D |-> SkipBrackets(x, s[k])]]
           Turn(f, n) == IF n = 0 THEN [depth |-> 0, text |-> <<>>] ELSE SkipBrackets(f[n - 1], s[n])
           out == CHOOSE f : f = [n \in 0..N |-> Turn(f, n)]
<1>1. N \in Nat /\ [depth |-> 0, text |-> <<>>] \in D
  OBVIOUS
<1>2. ASSUME NEW k \in 1..N, NEW x \in D PROVE SkipBrackets(x, s[k]) \in D
  <2>1. s[k] \in P
    OBVIOUS
  <2> QED
    BY <2>1, SkipBracketsTurn, Zenon
<1>3. step \in Loops(N, D)
  BY <1>2 DEF Loops
<1> HIDE DEF D
<1>4. PICK g : IsHistory(g, N, D, [depth |-> 0, text |-> <<>>], step)
  <2> HIDE DEF step, N
  <2> QED
    BY <1>1, <1>3, Iteration
<1>5. ASSUME NEW k \in 1..N PROVE g[k] = SkipBrackets(g[k - 1], s[k])
  <2>1. g[k - 1] \in D /\ g[k] = step[k][g[k - 1]]
    <3>1. k - 1 \in 0..N
      BY <1>1
    <3> HIDE DEF step, N
    <3> QED
      BY <1>4, <3>1 DEF IsHistory
  <2> QED
    BY <2>1
<1>6. g = [n \in 0..N |-> Turn(g, n)]
  BY <1>1, <1>4, <1>5 DEF IsHistory
<1>7. out = [n \in 0..N |-> Turn(out, n)]
  BY <1>6, Zenon
<1>8. \A k \in 0..N : out[k] = g[k]
  <2> HIDE DEF out
  <2>1. out[0] = g[0]
    BY <1>1, <1>4, <1>7 DEF IsHistory
  <2>2. \A k \in 1..N : out[k] = SkipBrackets(out[k - 1], s[k])
    <3>1. \A k \in 1..N : k \in 0..N /\ k # 0
      BY <1>1
    <3> QED
      BY <1>7, <3>1
  <2>3. Alike(out, g, N)
    BY <1>5, <2>1, <2>2 DEF Alike
  <2> HIDE DEF N
  <2> QED
    BY <1>1, <2>3, SameHistory
<1>9. Loop(SkipBrackets, [depth |-> 0, text |-> <<>>], s) = out[N]
  BY DEF Loop
<1>10. out[N] \in D
  BY <1>1, <1>4, <1>8 DEF IsHistory
<1> QED
  BY <1>9, <1>10 DEF D

\* Splitting off a word, and going on with one.
LEMMA SplitWordTurn ==
    ASSUME NEW P, NEW x \in Seq(Seq(P)), NEW piece \in P
    PROVE  SplitWord(x, piece) \in Seq(Seq(P))
<1>1. CASE piece = "space"
  <2>1. SplitWord(x, piece) = Append(x, <<>>) /\ <<>> \in Seq(P)
    BY <1>1 DEF SplitWord
  <2> QED
    BY <2>1
<1>2. CASE piece # "space"
    <3>1. SplitWord(x, piece) = [x EXCEPT ![Len(x)] = Append(@, piece)]
      BY <1>2 DEF SplitWord
    <3>2. \A j \in DOMAIN x : Append(x[j], piece) \in Seq(P)
      OBVIOUS
    <3>3. DOMAIN [x EXCEPT ![Len(x)] = Append(@, piece)] = 1..Len(x) /\ Len(x) \in Nat
      OBVIOUS
    <3>4. \A j \in 1..Len(x) : [x EXCEPT ![Len(x)] = Append(@, piece)][j] \in Seq(P)
      BY <3>2
    <3>5. [x EXCEPT ![Len(x)] = Append(@, piece)] \in [1..Len(x) -> Seq(P)]
      BY <3>3, <3>4, Zenon
    <3> QED
      BY <3>1, <3>3, <3>5
<1> QED
  BY <1>1, <1>2

\* The text is split into words.
LEMMA SplitWordType ==
    ASSUME NEW P, NEW s \in Seq(P)
    PROVE  Loop(SplitWord, <<<<>>>>, s) \in Seq(Seq(P))
<1> DEFINE N == Len(s)
           D == Seq(Seq(P))
           step == [k \in 1..N |-> [x \in D |-> SplitWord(x, s[k])]]
           Turn(f, n) == IF n = 0 THEN <<<<>>>> ELSE SplitWord(f[n - 1], s[n])
           out == CHOOSE f : f = [n \in 0..N |-> Turn(f, n)]
<1>1. N \in Nat /\ <<<<>>>> \in D
  OBVIOUS
<1>2. ASSUME NEW k \in 1..N, NEW x \in D PROVE SplitWord(x, s[k]) \in D
  BY SplitWordTurn
<1>3. step \in Loops(N, D)
  BY <1>2 DEF Loops
<1> HIDE DEF D
<1>4. PICK g : IsHistory(g, N, D, <<<<>>>>, step)
  <2> HIDE DEF step, N
  <2> QED
    BY <1>1, <1>3, Iteration
<1>5. ASSUME NEW k \in 1..N PROVE g[k] = SplitWord(g[k - 1], s[k])
  <2>1. g[k - 1] \in D /\ g[k] = step[k][g[k - 1]]
    <3>1. k - 1 \in 0..N
      BY <1>1
    <3> HIDE DEF step, N
    <3> QED
      BY <1>4, <3>1 DEF IsHistory
  <2> QED
    BY <2>1
<1>6. g = [n \in 0..N |-> Turn(g, n)]
  BY <1>1, <1>4, <1>5 DEF IsHistory
<1>7. out = [n \in 0..N |-> Turn(out, n)]
  BY <1>6, Zenon
<1>8. \A k \in 0..N : out[k] = g[k]
  <2> HIDE DEF out
  <2>1. out[0] = g[0]
    BY <1>1, <1>4, <1>7 DEF IsHistory
  <2>2. \A k \in 1..N : out[k] = SplitWord(out[k - 1], s[k])
    <3>1. \A k \in 1..N : k \in 0..N /\ k # 0
      BY <1>1
    <3> QED
      BY <1>7, <3>1, Zenon
  <2>3. Alike(out, g, N)
    BY <1>5, <2>1, <2>2 DEF Alike
  <2> HIDE DEF N
  <2> QED
    BY <1>1, <2>3, SameHistory, Zenon
<1>9. Loop(SplitWord, <<<<>>>>, s) = out[N]
  BY DEF Loop
<1>10. out[N] \in D
  BY <1>1, <1>4, <1>8 DEF IsHistory
<1> QED
  BY <1>9, <1>10 DEF D

\* Keeping a word, or not.
LEMMA KeepWordTurn ==
    ASSUME NEW P, NEW x \in Seq(P), NEW word \in Seq(P), "space" \in P
    PROVE  KeepWord(x, word) \in Seq(P)
<1>1. <<"space">> \in Seq(P)
  OBVIOUS
<1>2. x \o <<"space">> \o word \in Seq(P)
  BY <1>1
<1> QED
  BY <1>2 DEF KeepWord

\* The words that are kept make a name.
LEMMA KeepWordType ==
    ASSUME NEW P, NEW s \in Seq(Seq(P)), "space" \in P
    PROVE  Loop(KeepWord, <<>>, s) \in Seq(P)
<1> DEFINE N == Len(s)
           D == Seq(P)
           step == [k \in 1..N |-> [x \in D |-> KeepWord(x, s[k])]]
           Turn(f, n) == IF n = 0 THEN <<>> ELSE KeepWord(f[n - 1], s[n])
           out == CHOOSE f : f = [n \in 0..N |-> Turn(f, n)]
<1>1. N \in Nat /\ <<>> \in D
  OBVIOUS
<1>2. ASSUME NEW k \in 1..N, NEW x \in D PROVE KeepWord(x, s[k]) \in D
  BY KeepWordTurn
<1>3. step \in Loops(N, D)
  BY <1>2, Zenon DEF Loops
<1> HIDE DEF D
<1>4. PICK g : IsHistory(g, N, D, <<>>, step)
  <2> HIDE DEF step, N
  <2> QED
    BY <1>1, <1>3, Iteration
<1>5. ASSUME NEW k \in 1..N PROVE g[k] = KeepWord(g[k - 1], s[k])
  <2>1. g[k - 1] \in D /\ g[k] = step[k][g[k - 1]]
    <3>1. k - 1 \in 0..N
      BY <1>1
    <3> HIDE DEF step, N
    <3> QED
      BY <1>4, <3>1 DEF IsHistory
  <2> QED
    BY <2>1
<1>6. g = [n \in 0..N |-> Turn(g, n)]
  BY <1>1, <1>4, <1>5 DEF IsHistory
<1>7. out = [n \in 0..N |-> Turn(out, n)]
  BY <1>6, Zenon
<1>8. \A k \in 0..N : out[k] = g[k]
  <2> HIDE DEF out
  <2>1. out[0] = g[0]
    BY <1>1, <1>4, <1>7 DEF IsHistory
  <2>2. \A k \in 1..N : out[k] = KeepWord(out[k - 1], s[k])
    <3>1. \A k \in 1..N : k \in 0..N /\ k # 0
      BY <1>1
    <3> QED
      BY <1>7, <3>1, Zenon
  <2>3. Alike(out, g, N)
    BY <1>5, <2>1, <2>2, Zenon DEF Alike
  <2> HIDE DEF N
  <2> QED
    BY <1>1, <2>3, SameHistory
<1>9. Loop(KeepWord, <<>>, s) = out[N]
  BY DEF Loop
<1>10. out[N] \in D
  BY <1>1, <1>4, <1>8 DEF IsHistory
<1> QED
  BY <1>9, <1>10 DEF D

\* normalize_name makes a sequence of pieces of any other.
LEMMA NormalType ==
    ASSUME NEW raw \in Seq(STRING)
    PROVE  NormalizeName(raw) \in Seq(STRING \cup {"space"})
<1> DEFINE P == STRING \cup {"space"}
<1>1. raw \in Seq(P) /\ "space" \in P
  OBVIOUS
<1> HIDE DEF P
<1>2. Visible(raw) \in Seq(P)
  BY <1>1, SkipBracketsType DEF Visible
<1>3. WordsOf(Visible(raw)) \in Seq(Seq(P))
  BY <1>2, SplitWordType DEF WordsOf
<1>4. NormalizeName(raw) \in Seq(P)
  BY <1>1, <1>3, KeepWordType DEF NormalizeName
<1> QED
  BY <1>4 DEF P

-----------------------------------------------------------------------------
(* The inductive invariant *)

\* What the scan owes the package that is number i of the inventory.
PackageFindings(pkg, i) ==
    IF Resolve(pkg.name) = Nothing \/ pkg.version = <<>> THEN {}
    ELSE MatchPackage(pkg, Resolve(pkg.name), i, Resolve(pkg.name) \in ExposedProducts)

\* The packages that an alias covers, and those of them without a version.
Mapped == {i \in DOMAIN inventory : Resolve(inventory[i].name) # Nothing}

Bare == {i \in Mapped : inventory[i].version = <<>>}

\* What the summary may hold.
Names == {p.name : p \in Packages}

SummaryType == [total : Nat, mapped : Nat, unmapped : Nat, noVersion : Nat,
                names : Seq(Names), exposed : Nat, bucket : [Buckets -> Nat]]

\* The types, as far as the proofs need them.
MatchTypes ==
    /\ pc \in {"rules", "aliases", "collect", "scan", "done", "failed"}
    /\ lines \in Seq(Lines)
    /\ rules \in [Products -> Seq(Lines)]
    /\ inventory \in Seq(Packages)
    /\ IsFiniteSet(all)
    /\ summary \in SummaryType

\* by_product_ files each complete line of the index under its product.
RulesFiled ==
    \A p \in Products :
        Range(rules[p]) = {lines[k] : k \in {j \in DOMAIN lines : /\ lines[j].cells >= 12
                                                                  /\ lines[j].product = p}}

\* After the load the aliases are those of the table that was read.
AliasesLoaded ==
    pc \in {"collect", "scan", "done"} =>
        table \in AliasFiles /\ exact = ExactIn(table) /\ prefixes \in LongestFirst(table)

\* Nothing is found before the scan, and in it just what is owed so far.
FindingsSoFar ==
    /\ pc \in {"rules", "aliases", "collect", "failed"} => inventory = <<>>
    /\ all = UNION {PackageFindings(inventory[i], i) : i \in DOMAIN inventory}

\* The summary counts the packages seen so far.
CountsSoFar ==
    /\ summary.total = Len(inventory)
    /\ summary.mapped = Cardinality(Mapped)
    /\ summary.unmapped = Len(inventory) - summary.mapped
    /\ summary.noVersion = Cardinality(Bare)
    /\ Len(summary.names) = IF summary.unmapped <= MaxNames THEN summary.unmapped ELSE MaxNames

\* The report is the sorted findings, and the buckets count them.
ReportMade ==
    pc = "done" =>
        /\ report \in Sorted(all)
        /\ summary.bucket = [b \in Buckets |-> Cardinality({f \in all : f.severity = b})]

\* The inductive invariant.
MInv == MatchTypes /\ RulesFiled /\ AliasesLoaded /\ FindingsSoFar /\ CountsSoFar /\ ReportMade

\* What resolve and the scan compute depends on the tables alone.
LEMMA ResolveSame ==
    ASSUME UNCHANGED <<exact, prefixes>>, NEW raw
    PROVE  Resolve(raw)' = Resolve(raw)
BY DEF Resolve

\* So are the findings of a package, given the rules and the sockets.
LEMMA FindingsSame ==
    ASSUME UNCHANGED <<exact, prefixes, rules, sockets>>, NEW pkg, NEW i
    PROVE  PackageFindings(pkg, i)' = PackageFindings(pkg, i)
<1>1. \A raw : Resolve(raw)' = Resolve(raw)
  BY ResolveSame
<1>2. ExposedProducts' = ExposedProducts
  BY <1>1 DEF ExposedProducts
<1>3. \A product, e : MatchPackage(pkg, product, i, e)' = MatchPackage(pkg, product, i, e)
  BY DEF MatchPackage
<1> QED
  BY <1>1, <1>2, <1>3 DEF PackageFindings

\* The prefixes of a loaded table are its prefix lines, longest first.
LEMMA PrefixesLoaded ==
    ASSUME NEW t \in AliasFiles, NEW ps \in LongestFirst(t)
    PROVE  \E q : /\ IsFiniteSet(PrefixLines(t)) /\ Cardinality(PrefixLines(t)) \in Nat
                  /\ q \in [1..Cardinality(PrefixLines(t)) -> PrefixLines(t)]
                  /\ Range(q) = PrefixLines(t)
                  /\ ps = [i \in DOMAIN q |-> <<t[q[i]].pattern, t[q[i]].target>>]
                  /\ \A i, j \in DOMAIN q :
                        i < j => Len(t[q[i]].pattern) >= Len(t[q[j]].pattern)
<1>1. t \in Seq([kind : STRING, pattern : Seq(STRING), target : STRING])
  BY MatchAssumption
<1>2. IsFiniteSet(PrefixLines(t)) /\ Cardinality(PrefixLines(t)) \in Nat
  <2>1. PrefixLines(t) \subseteq 1..Len(t) /\ Len(t) \in Nat
    BY <1>1 DEF PrefixLines
  <2>2. IsFiniteSet(1..Len(t))
    BY <2>1, FS_Interval
  <2> QED
    BY <2>1, <2>2, FS_Subset, FS_CardinalityType
<1>3. PICK q \in Orders(PrefixLines(t)) :
          /\ ps = [i \in DOMAIN q |-> <<t[q[i]].pattern, t[q[i]].target>>]
          /\ \A i, j \in DOMAIN q : i < j => Len(t[q[i]].pattern) >= Len(t[q[j]].pattern)
  BY Zenon DEF LongestFirst
<1> QED
  BY <1>2, <1>3, Zenon DEF Orders

\* What resolve finds is a product.
LEMMA ResolveType ==
    ASSUME AliasesLoaded, pc \in {"collect", "scan", "done"}, NEW raw \in Seq(STRING)
    PROVE  Resolve(raw) \in Products \cup {Nothing}
<1> DEFINE norm == NormalizeName(raw)
           hits == {i \in DOMAIN prefixes : StartsWith(norm, prefixes[i][1])}
           cuts == {n \in 1..Len(norm) : norm[n] = "space" /\ SubSeq(norm, 1, n - 1) \in DOMAIN exact}
<1>1. norm \in Seq(STRING \cup {"space"})
  BY NormalType
<1>2. table \in AliasFiles /\ exact = ExactIn(table) /\ prefixes \in LongestFirst(table)
  BY DEF AliasesLoaded
<1>3. table \in Seq([kind : STRING, pattern : Seq(STRING), target : STRING])
  BY <1>2, MatchAssumption
<1>4. \A i \in DOMAIN table : table[i].target \in Products
  BY <1>2 DEF Products
<1> HIDE DEF norm
<1>5. ASSUME NEW n \in DOMAIN exact PROVE exact[n] \in Products
  <2> DEFINE at == {i \in DOMAIN table : table[i].kind = "exact"}
             same == {i \in at : table[i].pattern = n}
  <2>1. DOMAIN exact = {table[i].pattern : i \in at} /\ exact[n] = table[LastOf(same)].target
    BY <1>2, <1>5 DEF ExactIn
  <2>2. same # {} /\ same \subseteq 0..Len(table) /\ Len(table) \in Nat
    BY <1>3, <1>5, <2>1
  <2>3. LastOf(same) \in same
    <3> HIDE DEF same
    <3> QED
      BY <2>2, LastOfGreatest, Zenon
  <2> QED
    BY <1>4, <2>1, <2>3
<1>6. ASSUME hits # {} PROVE prefixes[FirstOf(hits)][2] \in Products
  <2>1. PICK q : /\ Cardinality(PrefixLines(table)) \in Nat
                 /\ q \in [1..Cardinality(PrefixLines(table)) -> PrefixLines(table)]
                 /\ prefixes = [i \in DOMAIN q |-> <<table[q[i]].pattern, table[q[i]].target>>]
    BY <1>2, PrefixesLoaded
  <2>2. hits \subseteq DOMAIN q /\ hits \subseteq Nat
    BY <2>1
  <2>3. FirstOf(hits) \in DOMAIN q
    <3> HIDE DEF hits
    <3> QED
      BY <1>6, <2>2, FirstOfLeast
  <2>4. prefixes[FirstOf(hits)][2] = table[q[FirstOf(hits)]].target
    <3> HIDE DEF hits
    <3> QED
      BY <2>1, <2>3
  <2>5. q[FirstOf(hits)] \in DOMAIN table
    <3> HIDE DEF hits
    <3> QED
      BY <2>1, <2>3 DEF PrefixLines
  <2> HIDE DEF hits
  <2> QED
    BY <1>4, <2>4, <2>5
<1>7. ASSUME cuts # {} PROVE exact[SubSeq(norm, 1, LastOf(cuts) - 1)] \in Products
  <2>1. cuts \subseteq 0..Len(norm) /\ Len(norm) \in Nat
    BY <1>1
  <2>2. LastOf(cuts) \in cuts
    <3> HIDE DEF cuts
    <3> QED
      BY <1>7, <2>1, LastOfGreatest, Zenon
  <2> QED
    BY <1>5, <2>2
<1>8. Resolve(raw) = CASE norm = <<>> -> Nothing
                       [] norm # <<>> /\ norm \in DOMAIN exact -> exact[norm]
                       [] OTHER -> IF hits # {} THEN prefixes[FirstOf(hits)][2]
                                   ELSE IF cuts # {} THEN exact[SubSeq(norm, 1, LastOf(cuts) - 1)]
                                   ELSE Nothing
  BY DEF Resolve, norm
<1> HIDE DEF hits, cuts
<1>9. CASE norm = <<>>
  BY <1>8, <1>9
<1>10. CASE norm # <<>> /\ norm \in DOMAIN exact
  BY <1>5, <1>8, <1>10
<1>11. CASE norm # <<>> /\ norm \notin DOMAIN exact
  BY <1>6, <1>7, <1>8, <1>11
<1> QED
  BY <1>9, <1>10, <1>11

\* What a package owes once its rules are known: a finding for each CVE that a
\* rule of its product has for its version, with the highest score.
OwedFor(found, rs, v, i) ==
    LET hit == HitsIn(rs, Len(rs), v)
    IN  /\ \A f \in found : f.package = i /\ f.cve \in Nat /\ f.score \in Nat
        /\ {f.cve : f \in found} = {rs[k].cve : k \in hit}
        /\ \A f, g \in found : f.cve = g.cve => f = g
        /\ \A f \in found, k \in hit : f.cve = rs[k].cve => f.score >= rs[k].score
        /\ \A f \in found : \E k \in hit : f.cve = rs[k].cve /\ f.score = rs[k].score

\* The values of a function on a finite set are finitely many.
LEMMA FiniteImage ==
    ASSUME NEW f, IsFiniteSet(DOMAIN f), f = [x \in DOMAIN f |-> f[x]]
    PROVE  IsFiniteSet({f[x] : x \in DOMAIN f})
<1> DEFINE T == {f[x] : x \in DOMAIN f}
<1>1. f \in [DOMAIN f -> T]
  OBVIOUS
<1>2. f \in Surjection(DOMAIN f, T)
  BY <1>1 DEF Surjection
<1> HIDE DEF T
<1>3. IsFiniteSet(T)
  BY <1>2, FS_Surjection
<1> QED
  BY <1>3 DEF T

\* match returns what it owes the package.
LEMMA MatchPackageOwed ==
    ASSUME MatchTypes, NEW pkg \in Packages, NEW product \in Products, NEW i, NEW e,
           UpstreamPart(pkg.version) # <<>>
    PROVE  /\ IsFiniteSet(MatchPackage(pkg, product, i, e))
           /\ OwedFor(MatchPackage(pkg, product, i, e), rules[product], UpstreamPart(pkg.version), i)
<1> DEFINE v == UpstreamPart(pkg.version)
           rs == rules[product]
           best == BestRule(rs, v)
           hit == HitsIn(rs, Len(rs), v)
           finding(c) == [cve |-> c, package |-> i, score |-> best[c].score, exposed |-> e,
                          severity |-> SeverityBucket(best[c].severity, best[c].score)]
           found == MatchPackage(pkg, product, i, e)
<1>1. rs \in Seq(Lines)
  BY DEF MatchTypes
<1>2. found = {finding(c) : c \in DOMAIN best}
  BY DEF MatchPackage
<1> HIDE DEF rs, v
<1>3. BestOf(best, rs, Len(rs), v)
  BY <1>1, BestRuleOf
<1> HIDE DEF best, found
<1>4. /\ best \in [{rs[k].cve : k \in hit} -> Lines]
      /\ \A k \in hit : best[rs[k].cve].score >= rs[k].score
      /\ \A c \in DOMAIN best : \E k \in hit : rs[k].cve = c /\ best[c] = rs[k]
  BY <1>3 DEF BestOf
<1>5. hit \subseteq 1..Len(rs) /\ Len(rs) \in Nat
  BY <1>1 DEF HitsIn
<1> HIDE DEF hit
<1>6. \A k \in hit : rs[k].cve \in Nat /\ rs[k].score \in Nat
  <2>1. \A k \in hit : rs[k] \in Lines
    BY <1>1, <1>5
  <2> QED
    BY <2>1, MatchAssumption
<1>7. DOMAIN best = {rs[k].cve : k \in hit}
  BY <1>4
<1>8. IsFiniteSet(found)
  <2>1. IsFiniteSet(hit)
    <3>1. IsFiniteSet(1..Len(rs))
      BY <1>5, FS_Interval
    <3> QED
      BY <1>5, <3>1, FS_Subset, Zenon
  <2> DEFINE cveOf == [k \in hit |-> rs[k].cve]
             make == [c \in DOMAIN best |-> finding(c)]
  <2>2. IsFiniteSet(DOMAIN best)
    <3>1. DOMAIN cveOf = hit /\ cveOf = [k \in DOMAIN cveOf |-> cveOf[k]]
      OBVIOUS
    <3>2. {cveOf[k] : k \in DOMAIN cveOf} = DOMAIN best
      BY <1>7
    <3> HIDE DEF cveOf
    <3> QED
      BY <2>1, <3>1, <3>2, FiniteImage
  <2>3. DOMAIN make = DOMAIN best /\ make = [c \in DOMAIN make |-> make[c]]
    OBVIOUS
  <2>4. {make[c] : c \in DOMAIN make} = found
    BY <1>2
  <2> HIDE DEF make
  <2> QED
    BY <2>2, <2>3, <2>4, FiniteImage
<1>9. ASSUME NEW f \in found
      PROVE  /\ f.package = i /\ f.cve \in DOMAIN best /\ f = finding(f.cve)
             /\ f.score = best[f.cve].score
  BY <1>2
<1>10. \A f \in found : f.package = i /\ f.cve \in Nat /\ f.score \in Nat
  BY <1>4, <1>6, <1>9
<1>11. {f.cve : f \in found} = {rs[k].cve : k \in hit}
  <2>1. ASSUME NEW c \in DOMAIN best PROVE \E f \in found : f.cve = c
    <3>1. finding(c) \in found /\ finding(c).cve = c
      BY <1>2
    <3> QED
      BY <3>1, Zenon
  <2> QED
    BY <1>7, <1>9, <2>1, ZenonT(30)
<1>12. \A f, g \in found : f.cve = g.cve => f = g
  BY <1>9
<1>13. \A f \in found, k \in hit : f.cve = rs[k].cve => f.score >= rs[k].score
  BY <1>4, <1>9
<1>14. \A f \in found : \E k \in hit : f.cve = rs[k].cve /\ f.score = rs[k].score
  BY <1>4, <1>9
<1>15. OwedFor(found, rs, v, i)
  BY <1>10, <1>11, <1>12, <1>13, <1>14, ZenonT(30) DEF OwedFor, hit
<1> QED
  BY <1>8, <1>15 DEF found, rs, v

\* What the scan finds for one package.
LEMMA PackageFindingsOwed ==
    ASSUME MatchTypes, AliasesLoaded, pc \in {"collect", "scan", "done"}, NEW pkg \in Packages, NEW i
    PROVE  LET product == Resolve(pkg.name)
               v       == UpstreamPart(pkg.version)
               found   == PackageFindings(pkg, i)
           IN  /\ IsFiniteSet(found)
               /\ \A f \in found : f.package = i /\ f.cve \in Nat /\ f.score \in Nat
               /\ product = Nothing \/ pkg.version = <<>> \/ v = <<>> => found = {}
               /\ ~(product = Nothing \/ pkg.version = <<>> \/ v = <<>>) =>
                     product \in Products /\ OwedFor(found, rules[product], v, i)
<1> DEFINE product == Resolve(pkg.name)
           v       == UpstreamPart(pkg.version)
           found   == PackageFindings(pkg, i)
           e       == product \in ExposedProducts
<1>1. product \in Products \cup {Nothing}
  BY ResolveType, MatchAssumption
<1>2. found = IF product = Nothing \/ pkg.version = <<>> THEN {}
              ELSE MatchPackage(pkg, product, i, e)
  BY DEF PackageFindings
<1>3. v = <<>> => MatchPackage(pkg, product, i, e) = {}
  BY DEF MatchPackage
<1>4. IsFiniteSet({})
  BY FS_EmptySet
<1> HIDE DEF product, found, e
<1>5. CASE product = Nothing \/ pkg.version = <<>> \/ v = <<>>
  <2>1. found = {}
    BY <1>2, <1>3, <1>5, ZenonT(30)
  <2> QED
    BY <1>4, <1>5, <2>1 DEF product, found
<1>6. CASE ~(product = Nothing \/ pkg.version = <<>> \/ v = <<>>)
  <2>1. product \in Products /\ found = MatchPackage(pkg, product, i, e)
    BY <1>1, <1>2, <1>6
  <2>2. IsFiniteSet(found) /\ OwedFor(found, rules[product], v, i)
    BY <1>6, <2>1, MatchPackageOwed
  <2>3. \A f \in found : f.package = i /\ f.cve \in Nat /\ f.score \in Nat
    BY <2>2 DEF OwedFor
  <2> QED
    BY <1>6, <2>1, <2>2, <2>3 DEF product, found
<1> QED
  BY <1>5, <1>6

-----------------------------------------------------------------------------
(* Every step keeps it *)

\* Before the load nothing is filed, found or counted.
LEMMA MInvInit ==
    ASSUME MatchInit
    PROVE  MInv
<1>1. DOMAIN inventory = {} /\ inventory = <<>> /\ lines = <<>> /\ all = {} /\ pc = "rules"
  BY DEF MatchInit
<1>2. Mapped = {} /\ Bare = {}
  BY <1>1 DEF Mapped, Bare
<1>3. IsFiniteSet({}) /\ Cardinality({}) = 0
  BY FS_EmptySet
<1>4. MatchTypes
  BY <1>1, <1>3 DEF MatchInit, MatchTypes, SummaryType
<1>5. RulesFiled
  <2>1. \A x \in Products : Range(rules[x]) = {}
    BY DEF MatchInit, Range
  <2> QED
    BY <1>1, <2>1 DEF RulesFiled
<1>6. FindingsSoFar
  BY <1>1 DEF FindingsSoFar
<1>7. CountsSoFar
  BY <1>1, <1>2, <1>3, MatchAssumption DEF CountsSoFar, MatchInit
<1> QED
  BY <1>1, <1>4, <1>5, <1>6, <1>7 DEF MInv, AliasesLoaded, ReportMade

\* The steps before the scan keep the inventory empty.
LEMMA MInvBeforeScan ==
    ASSUME MInv, LoadFails \/ LoadRule \/ RulesLoaded \/ LoadAliases \/ CollectInventory
    PROVE  FindingsSoFar' /\ CountsSoFar' /\ ReportMade'
<1>1. pc \in {"rules", "aliases", "collect"} /\ pc' # "done"
      /\ inventory' = inventory /\ all' = all /\ summary' = summary
  BY DEF LoadFails, LoadRule, RulesLoaded, LoadAliases, CollectInventory
<1>2. inventory = <<>> /\ inventory' = <<>> /\ DOMAIN inventory = {} /\ DOMAIN inventory' = {}
  BY <1>1 DEF MInv, FindingsSoFar
<1>3. Mapped = {} /\ Bare = {} /\ Mapped' = {} /\ Bare' = {}
  BY <1>2 DEF Mapped, Bare
<1>4. all = {}
  BY <1>2 DEF MInv, FindingsSoFar
<1>5. FindingsSoFar'
  BY <1>1, <1>2, <1>4 DEF FindingsSoFar
<1>6. CountsSoFar'
  BY <1>1, <1>3 DEF MInv, CountsSoFar
<1> QED
  BY <1>1, <1>5, <1>6 DEF ReportMade

\* A line that is read is filed under its product, if it is complete.
LEMMA MInvLoadRule ==
    ASSUME MInv, LoadRule
    PROVE  MInv'
<1>1. PICK l \in Lines :
          /\ lines' = Append(lines, l)
          /\ rules' = IF l.cells < 12 THEN rules ELSE [rules EXCEPT ![l.product] = Append(@, l)]
  BY Zenon DEF LoadRule
<1>2. lines \in Seq(Lines) /\ rules \in [Products -> Seq(Lines)] /\ RulesFiled
  BY DEF MInv, MatchTypes
<1>3. l.product \in Products /\ l.cells \in Nat
  BY MatchAssumption DEF Products
<1>4. lines' \in Seq(Lines) /\ rules' \in [Products -> Seq(Lines)]
  BY <1>1, <1>2, <1>3
<1>5. MatchTypes'
  BY <1>4 DEF MInv, MatchTypes, LoadRule
<1>6. RulesFiled'
  <2> DEFINE Of(x) == {k \in DOMAIN lines : lines[k].cells >= 12 /\ lines[k].product = x}
             New(x) == {k \in DOMAIN lines' : lines'[k].cells >= 12 /\ lines'[k].product = x}
  <2>1. SUFFICES ASSUME NEW x \in Products
                 PROVE  Range(rules'[x]) = {lines'[k] : k \in New(x)}
    BY DEF RulesFiled
  <2>2. Range(rules[x]) = {lines[k] : k \in Of(x)}
    BY <1>2 DEF RulesFiled
  <2>3. /\ DOMAIN lines' = DOMAIN lines \cup {Len(lines) + 1} /\ Len(lines) + 1 \notin DOMAIN lines
        /\ lines'[Len(lines) + 1] = l
        /\ \A k \in DOMAIN lines : lines'[k] = lines[k]
    BY <1>1, <1>2
  <2>4. CASE l.cells >= 12 /\ l.product = x
    <3>1. New(x) = Of(x) \cup {Len(lines) + 1}
      BY <2>3, <2>4
    <3>2. {lines'[k] : k \in New(x)} = {lines[k] : k \in Of(x)} \cup {l}
      BY <2>3, <3>1
    <3>3. rules'[x] = Append(rules[x], l) /\ rules[x] \in Seq(Lines)
      BY <1>1, <1>2, <1>3, <2>4
    <3>4. Range(rules'[x]) = Range(rules[x]) \cup {l}
      BY <3>3 DEF Range
    <3> QED
      BY <2>2, <3>2, <3>4
  <2>5. CASE ~(l.cells >= 12 /\ l.product = x)
    <3>1. New(x) = Of(x)
      BY <2>3, <2>5
    <3>2. {lines'[k] : k \in New(x)} = {lines[k] : k \in Of(x)}
      BY <2>3, <3>1
    <3>3. rules'[x] = rules[x]
      BY <1>1, <1>2, <1>3, <2>5
    <3> QED
      BY <2>2, <3>2, <3>3
  <2> QED
    BY <2>4, <2>5
<1>7. AliasesLoaded'
  BY DEF LoadRule, AliasesLoaded
<1> QED
  BY <1>5, <1>6, <1>7, MInvBeforeScan DEF MInv

\* The other steps of the load and the collection of the inventory.
LEMMA MInvLoad ==
    ASSUME MInv, LoadFails \/ RulesLoaded \/ LoadAliases \/ CollectInventory
    PROVE  MInv'
<1>1. FindingsSoFar' /\ CountsSoFar' /\ ReportMade'
  BY MInvBeforeScan
<1>2. UNCHANGED <<lines, rules, inventory, all, summary>>
      /\ pc' \in {"failed", "aliases", "collect", "scan"}
  BY DEF LoadFails, RulesLoaded, LoadAliases, CollectInventory
<1>3. MatchTypes'
  BY <1>2 DEF MInv, MatchTypes
<1>4. RulesFiled'
  BY <1>2 DEF MInv, RulesFiled
<1>5. AliasesLoaded'
  <2>1. CASE LoadAliases
    BY <2>1 DEF LoadAliases, AliasesLoaded
  <2>2. CASE CollectInventory
    BY <2>2 DEF CollectInventory, AliasesLoaded, MInv
  <2>3. CASE LoadFails \/ RulesLoaded
    BY <2>3 DEF LoadFails, RulesLoaded, AliasesLoaded
  <2> QED
    BY <2>1, <2>2, <2>3
<1> QED
  BY <1>1, <1>3, <1>4, <1>5 DEF MInv

\* Counting a package keeps the type of the summary.
LEMMA SummaryCounts ==
    ASSUME NEW s \in SummaryType, NEW names \in Seq(Names)
    PROVE  /\ [s EXCEPT !.total = @ + 1, !.unmapped = @ + 1, !.names = names] \in SummaryType
           /\ [s EXCEPT !.total = @ + 1, !.mapped = @ + 1, !.noVersion = @ + 1] \in SummaryType
           /\ [s EXCEPT !.total = @ + 1, !.mapped = @ + 1] \in SummaryType
<1>1. s.total + 1 \in Nat /\ s.unmapped + 1 \in Nat /\ s.mapped + 1 \in Nat /\ s.noVersion + 1 \in Nat
  BY DEF SummaryType
<1>2. [s EXCEPT !.total = @ + 1, !.unmapped = @ + 1, !.names = names] \in SummaryType
  BY <1>1, Zenon DEF SummaryType
<1>3. [s EXCEPT !.total = @ + 1, !.mapped = @ + 1, !.noVersion = @ + 1] \in SummaryType
  BY <1>1, Zenon DEF SummaryType
<1>4. [s EXCEPT !.total = @ + 1, !.mapped = @ + 1] \in SummaryType
  BY <1>1, Zenon DEF SummaryType
<1> QED
  BY <1>2, <1>3, <1>4

\* One more package is matched and counted.
LEMMA MInvScanPackage ==
    ASSUME MInv, ScanPackage
    PROVE  MInv'
<1> DEFINE at == Len(inventory) + 1
<1>1. /\ pc = "scan" /\ pc' = pc
      /\ UNCHANGED <<lines, rules, table, exact, prefixes, sockets, report>>
  BY DEF ScanPackage
<1>2. PICK pkg \in Packages :
          /\ inventory' = Append(inventory, pkg)
          /\ \/ /\ Resolve(pkg.name) = Nothing
                /\ summary' = [summary EXCEPT !.total = @ + 1, !.unmapped = @ + 1,
                                              !.names = KeepName(@, pkg.name)]
                /\ all' = all
             \/ /\ Resolve(pkg.name) # Nothing /\ pkg.version = <<>>
                /\ summary' = [summary EXCEPT !.total = @ + 1, !.mapped = @ + 1,
                                              !.noVersion = @ + 1]
                /\ all' = all
             \/ /\ Resolve(pkg.name) # Nothing /\ pkg.version # <<>>
                /\ summary' = [summary EXCEPT !.total = @ + 1, !.mapped = @ + 1]
                /\ all' = all \cup MatchPackage(pkg, Resolve(pkg.name), at,
                                                Resolve(pkg.name) \in ExposedProducts)
  BY Zenon DEF ScanPackage
<1>3. /\ inventory \in Seq(Packages) /\ IsFiniteSet(all) /\ MatchTypes /\ AliasesLoaded
      /\ summary \in SummaryType
  BY DEF MInv, MatchTypes
<1>4. all' = all \cup PackageFindings(pkg, at)
  BY <1>2 DEF PackageFindings
<1>5. /\ DOMAIN inventory' = DOMAIN inventory \cup {at} /\ at \notin DOMAIN inventory
      /\ inventory'[at] = pkg /\ Len(inventory') = at /\ Len(inventory) \in Nat
      /\ \A i \in DOMAIN inventory : inventory'[i] = inventory[i]
      /\ inventory' \in Seq(Packages)
  BY <1>2, <1>3
<1> HIDE DEF at
<1>6. MatchTypes'
  <2>1. IsFiniteSet(PackageFindings(pkg, at))
    BY <1>1, <1>3, PackageFindingsOwed
  <2>2. IsFiniteSet(all')
    BY <1>3, <1>4, <2>1, FS_Union, Zenon
  <2>3. pkg.name \in Names
    BY DEF Names
  <2>4. KeepName(summary.names, pkg.name) \in Seq(Names)
    BY <1>3, <2>3 DEF KeepName, SummaryType
  <2>5. summary' \in SummaryType
    <3>1. CASE Resolve(pkg.name) = Nothing
      <4>1. summary' = [summary EXCEPT !.total = @ + 1, !.unmapped = @ + 1,
                                       !.names = KeepName(@, pkg.name)]
        BY <1>2, <3>1
      <4> QED
        BY <1>3, <2>4, <4>1, SummaryCounts, Zenon
    <3>2. CASE Resolve(pkg.name) # Nothing /\ pkg.version = <<>>
      <4>1. summary' = [summary EXCEPT !.total = @ + 1, !.mapped = @ + 1, !.noVersion = @ + 1]
        BY <1>2, <3>2
      <4> QED
        BY <1>3, <2>4, <4>1, SummaryCounts, Zenon
    <3>3. CASE Resolve(pkg.name) # Nothing /\ pkg.version # <<>>
      <4>1. summary' = [summary EXCEPT !.total = @ + 1, !.mapped = @ + 1]
        BY <1>2, <3>3
      <4> QED
        BY <1>3, <2>4, <4>1, SummaryCounts, Zenon
    <3> QED
      BY <3>1, <3>2, <3>3
  <2> QED
    BY <1>1, <1>3, <1>5, <2>2, <2>5 DEF MatchTypes
<1>7. FindingsSoFar'
  <2>1. \A p, i : PackageFindings(p, i)' = PackageFindings(p, i)
    BY <1>1, FindingsSame
  <2>2. \A i \in DOMAIN inventory' : PackageFindings(inventory[i], i)' = PackageFindings(inventory'[i], i)
    BY <2>1
  <2>3. all = UNION {PackageFindings(inventory[i], i) : i \in DOMAIN inventory}
    BY DEF MInv, FindingsSoFar
  <2>4. all' = UNION {PackageFindings(inventory'[i], i) : i \in DOMAIN inventory'}
    BY <1>4, <1>5, <2>3
  <2> QED
    BY <1>1, <2>2, <2>4 DEF FindingsSoFar
<1>8. CountsSoFar'
  <2>1. \A i \in DOMAIN inventory' : Resolve(inventory[i].name)' = Resolve(inventory'[i].name)
    <3>1. \A raw : Resolve(raw)' = Resolve(raw)
      BY <1>1, ResolveSame
    <3> QED
      BY <3>1
  <2>2. Mapped' = {i \in DOMAIN inventory' : Resolve(inventory'[i].name) # Nothing}
    BY <2>1 DEF Mapped
  <2>3. Mapped' = IF Resolve(pkg.name) = Nothing THEN Mapped ELSE Mapped \cup {at}
    BY <1>5, <2>2 DEF Mapped
  <2>4. Bare' = IF Resolve(pkg.name) # Nothing /\ pkg.version = <<>> THEN Bare \cup {at} ELSE Bare
    <3>1. Bare' = {i \in Mapped' : inventory'[i].version = <<>>}
      BY DEF Bare
    <3>2. Mapped \subseteq DOMAIN inventory
      BY DEF Mapped
    <3> QED
      BY <1>5, <2>3, <3>1, <3>2 DEF Bare
  <2>5. Mapped \subseteq DOMAIN inventory /\ Bare \subseteq DOMAIN inventory
    BY DEF Mapped, Bare
  <2>6. IsFiniteSet(Mapped) /\ IsFiniteSet(Bare)
    <3>1. DOMAIN inventory = 1..Len(inventory) /\ Len(inventory) \in Nat
      BY <1>3
    <3>2. IsFiniteSet(DOMAIN inventory)
      BY <3>1, FS_Interval
    <3> QED
      BY <2>5, <3>2, FS_Subset
  <2>7. /\ Cardinality(Mapped \cup {at}) = Cardinality(Mapped) + 1
        /\ Cardinality(Bare \cup {at}) = Cardinality(Bare) + 1
    BY <1>5, <2>5, <2>6, FS_AddElement, Zenon
  <2>8. /\ summary.total = Len(inventory)
        /\ summary.mapped = Cardinality(Mapped)
        /\ summary.unmapped = Len(inventory) - summary.mapped
        /\ summary.noVersion = Cardinality(Bare)
        /\ Len(summary.names) = IF summary.unmapped <= MaxNames THEN summary.unmapped ELSE MaxNames
    BY DEF MInv, CountsSoFar
  <2>9. MaxNames \in Nat /\ Len(inventory') = Len(inventory) + 1
    BY <1>5, MatchAssumption, ZenonT(30) DEF at
  <2>10. CASE Resolve(pkg.name) = Nothing
    <3>1. Mapped' = Mapped /\ Bare' = Bare
      BY <2>3, <2>4, <2>10
    <3>2. summary' = [summary EXCEPT !.total = @ + 1, !.unmapped = @ + 1,
                                     !.names = KeepName(@, pkg.name)]
      BY <1>2, <2>10
    <3>3. /\ summary'.total = summary.total + 1 /\ summary'.unmapped = summary.unmapped + 1
          /\ summary'.names = KeepName(summary.names, pkg.name)
          /\ summary'.mapped = summary.mapped /\ summary'.noVersion = summary.noVersion
      BY <1>3, <3>2 DEF SummaryType
    <3>4. Len(summary'.names) = IF Len(summary.names) < MaxNames THEN Len(summary.names) + 1
                                ELSE Len(summary.names)
      BY <1>3, <3>3 DEF KeepName, SummaryType
    <3>5. summary.unmapped \in Nat /\ summary.mapped \in Nat
      BY <1>3 DEF SummaryType
    <3>6. Len(summary'.names) = IF summary'.unmapped <= MaxNames THEN summary'.unmapped ELSE MaxNames
      BY <2>8, <2>9, <3>3, <3>4, <3>5
    <3> QED
      BY <1>5, <2>8, <2>9, <3>1, <3>3, <3>5, <3>6 DEF CountsSoFar
  <2>11. CASE Resolve(pkg.name) # Nothing
    <3>1. /\ summary'.total = summary.total + 1 /\ summary'.unmapped = summary.unmapped
          /\ summary'.names = summary.names /\ summary'.mapped = summary.mapped + 1
          /\ summary'.noVersion = IF pkg.version = <<>> THEN summary.noVersion + 1 ELSE summary.noVersion
      BY <1>2, <1>3, <2>11, Zenon DEF SummaryType
    <3>2. /\ Cardinality(Mapped') = Cardinality(Mapped) + 1
          /\ Cardinality(Bare') = IF pkg.version = <<>> THEN Cardinality(Bare) + 1 ELSE Cardinality(Bare)
      BY <2>3, <2>4, <2>7, <2>11, ZenonT(30)
    <3>3. summary.unmapped \in Nat /\ summary.mapped \in Nat
      BY <1>3 DEF SummaryType
    <3> QED
      BY <1>5, <2>8, <2>9, <3>1, <3>2, <3>3 DEF CountsSoFar
  <2> QED
    BY <2>10, <2>11
<1>9. RulesFiled' /\ AliasesLoaded' /\ ReportMade'
  BY <1>1 DEF MInv, RulesFiled, AliasesLoaded, ReportMade
<1> QED
  BY <1>6, <1>7, <1>8, <1>9 DEF MInv

\* The end of the scan sorts and counts what was found.
LEMMA MInvFinishScan ==
    ASSUME MInv, FinishScan
    PROVE  MInv'
<1>1. /\ pc = "scan" /\ pc' = "done" /\ report' \in Sorted(all)
      /\ summary' = [summary EXCEPT
           !.bucket = [b \in Buckets |-> Cardinality({f \in all : f.severity = b})],
           !.exposed = Cardinality({f \in all : f.exposed})]
      /\ UNCHANGED <<lines, rules, table, exact, prefixes, sockets, inventory, all>>
  BY DEF FinishScan
<1>2. /\ IsFiniteSet(all)
      /\ summary \in SummaryType
  BY DEF MInv, MatchTypes
<1>3. /\ \A b \in Buckets : Cardinality({f \in all : f.severity = b}) \in Nat
      /\ Cardinality({f \in all : f.exposed}) \in Nat
  <2>1. \A T \in SUBSET all : Cardinality(T) \in Nat
    BY <1>2, FS_Subset, FS_CardinalityType
  <2> QED
    BY <2>1
<1>4. summary' \in SummaryType
  BY <1>1, <1>2, <1>3, Zenon DEF SummaryType
<1>5. /\ summary'.bucket = [b \in Buckets |-> Cardinality({f \in all : f.severity = b})]
      /\ summary'.total = summary.total /\ summary'.mapped = summary.mapped
      /\ summary'.unmapped = summary.unmapped /\ summary'.noVersion = summary.noVersion
      /\ summary'.names = summary.names
  BY <1>1, <1>2 DEF SummaryType
<1>6. MatchTypes'
  BY <1>1, <1>4 DEF MInv, MatchTypes
<1>7. FindingsSoFar'
  <2>1. \A p, i : PackageFindings(p, i)' = PackageFindings(p, i)
    BY <1>1, FindingsSame
  <2>2. \A i \in DOMAIN inventory : PackageFindings(inventory[i], i)' = PackageFindings(inventory[i], i)
    BY <1>1, <2>1
  <2> QED
    BY <1>1, <2>2 DEF MInv, FindingsSoFar
<1>8. CountsSoFar'
  <2>1. \A i \in DOMAIN inventory : Resolve(inventory[i].name)' = Resolve(inventory[i].name)
    <3>1. \A raw : Resolve(raw)' = Resolve(raw)
      BY <1>1, ResolveSame
    <3> QED
      BY <1>1, <3>1
  <2>2. Mapped' = Mapped
    BY <1>1, <2>1 DEF Mapped
  <2>3. Bare' = Bare
    BY <1>1, <2>2 DEF Bare
  <2> QED
    BY <1>1, <1>5, <2>2, <2>3 DEF MInv, CountsSoFar
<1>9. RulesFiled' /\ AliasesLoaded'
  BY <1>1 DEF MInv, RulesFiled, AliasesLoaded
<1>10. ReportMade'
  BY <1>1, <1>5 DEF ReportMade
<1> QED
  BY <1>6, <1>7, <1>8, <1>9, <1>10 DEF MInv

\* The inductive invariant holds throughout.
THEOREM MatchInvariance == MatchSpec => []MInv
<1>1. MatchInit => MInv
  BY MInvInit
<1>2. MInv /\ [MatchNext]_matchVars => MInv'
  <2>1. ASSUME MInv, UNCHANGED matchVars PROVE MInv'
    <3>1. UNCHANGED <<pc, lines, rules, table, exact, prefixes, sockets, inventory, all, summary, report>>
      BY <2>1, ZenonT(30) DEF matchVars
    <3>2. MatchTypes' /\ RulesFiled' /\ AliasesLoaded' /\ ReportMade'
      BY <2>1, <3>1 DEF MInv, MatchTypes, RulesFiled, AliasesLoaded, ReportMade
    <3>3. FindingsSoFar'
      <4>1. \A p, i : PackageFindings(p, i)' = PackageFindings(p, i)
        BY <3>1, FindingsSame
      <4>2. \A i \in DOMAIN inventory : PackageFindings(inventory[i], i)' = PackageFindings(inventory[i], i)
        BY <3>1, <4>1
      <4> QED
        BY <2>1, <3>1, <4>2 DEF MInv, FindingsSoFar
    <3>4. CountsSoFar'
      <4>1. \A raw : Resolve(raw)' = Resolve(raw)
        BY <3>1, ResolveSame
      <4>2. \A i \in DOMAIN inventory : Resolve(inventory[i].name)' = Resolve(inventory[i].name)
        BY <3>1, <4>1
      <4>3. Mapped' = Mapped
        BY <3>1, <4>2 DEF Mapped
      <4>4. Bare' = Bare
        BY <3>1, <4>3 DEF Bare
      <4> QED
        BY <2>1, <3>1, <4>3, <4>4 DEF MInv, CountsSoFar
    <3> QED
      BY <3>2, <3>3, <3>4 DEF MInv
  <2>2. ASSUME MInv, MatchNext PROVE MInv'
    BY <2>2, MInvLoad, MInvLoadRule, MInvScanPackage, MInvFinishScan, Zenon DEF MatchNext
  <2> QED
    BY <2>1, <2>2
<1> QED
  BY <1>1, <1>2, PTL DEF MatchSpec

\* The findings that name a package are those the scan made for it.
LEMMA FoundFor ==
    ASSUME MInv, pc = "done", NEW i \in DOMAIN inventory
    PROVE  /\ {f \in all : f.package = i} = PackageFindings(inventory[i], i)
           /\ inventory[i] \in Packages
<1>1. inventory \in Seq(Packages) /\ MatchTypes /\ AliasesLoaded
  BY DEF MInv, MatchTypes
<1>2. \A j \in DOMAIN inventory : inventory[j] \in Packages
  BY <1>1
<1>3. \A j \in DOMAIN inventory : \A f \in PackageFindings(inventory[j], j) : f.package = j
  BY <1>1, <1>2, PackageFindingsOwed
<1>4. all = UNION {PackageFindings(inventory[j], j) : j \in DOMAIN inventory}
  BY DEF MInv, FindingsSoFar
<1>5. {f \in all : f.package = i} = PackageFindings(inventory[i], i)
  BY <1>3, <1>4
<1> QED
  BY <1>2, <1>5

\* An empty version has no upstream part.
LEMMA UpstreamOfNothing == UpstreamPart(<<>>) = <<>>
<1>1. \A kind : Positions(<<>>, kind) = {}
  BY DEF Positions
<1>2. StripEpoch(<<>>) = <<>>
  BY <1>1 DEF StripEpoch, HasEpoch
<1> QED
  BY <1>1, <1>2 DEF UpstreamPart

\* What is owed for the rules of a product is owed for the lines of the index.
LEMMA MInvFindings ==
    ASSUME MInv
    PROVE  FindingsExact
<1>1. SUFFICES ASSUME pc = "done", NEW i \in DOMAIN inventory
               PROVE
        LET product == Resolve(inventory[i].name)
            v       == UpstreamPart(inventory[i].version)
            found   == {f \in all : f.package = i}
            covers  == {k \in DOMAIN lines : /\ lines[k].cells >= 12
                                             /\ lines[k].product = product
                                             /\ v # <<>> /\ ShouldHit(lines[k], v)}
        IN  WordsAgree({v} \cup UNION {BoundsOf(lines[k]) : k \in DOMAIN lines}) =>
              /\ {f.cve : f \in found} = {lines[k].cve : k \in covers}
              /\ \A f, g \in found : f.cve = g.cve => f = g
              /\ \A f \in found, k \in covers : f.cve = lines[k].cve => f.score >= lines[k].score
              /\ \A f \in found : \E k \in covers : f.cve = lines[k].cve /\ f.score = lines[k].score
  BY Zenon DEF FindingsExact
<1> DEFINE pkg     == inventory[i]
           product == Resolve(pkg.name)
           v       == UpstreamPart(pkg.version)
           found   == {f \in all : f.package = i}
           covers  == {k \in DOMAIN lines : /\ lines[k].cells >= 12
                                            /\ lines[k].product = product
                                            /\ v # <<>> /\ ShouldHit(lines[k], v)}
           vs      == {v} \cup UNION {BoundsOf(lines[k]) : k \in DOMAIN lines}
           Exact   == /\ {f.cve : f \in found} = {lines[k].cve : k \in covers}
                      /\ \A f, g \in found : f.cve = g.cve => f = g
                      /\ \A f \in found, k \in covers :
                            f.cve = lines[k].cve => f.score >= lines[k].score
                      /\ \A f \in found : \E k \in covers :
                            f.cve = lines[k].cve /\ f.score = lines[k].score
<1>2. SUFFICES ASSUME WordsAgree(vs) PROVE Exact
  BY Zenon
<1>3. found = PackageFindings(pkg, i) /\ pkg \in Packages
  BY <1>1, FoundFor
<1>4. MatchTypes /\ AliasesLoaded /\ RulesFiled /\ lines \in Seq(Lines)
  BY DEF MInv, MatchTypes
<1>5. /\ product = Nothing \/ pkg.version = <<>> \/ v = <<>> => found = {}
      /\ ~(product = Nothing \/ pkg.version = <<>> \/ v = <<>>) =>
            product \in Products /\ OwedFor(found, rules[product], v, i)
  <2> DEFINE owed == PackageFindings(pkg, i)
  <2>1. pc \in {"collect", "scan", "done"}
    BY <1>1
  <2>2. /\ product = Nothing \/ pkg.version = <<>> \/ v = <<>> => owed = {}
        /\ ~(product = Nothing \/ pkg.version = <<>> \/ v = <<>>) =>
              product \in Products /\ OwedFor(owed, rules[product], v, i)
    BY <1>3, <1>4, <2>1, PackageFindingsOwed, Zenon
  <2>3. found = owed
    BY <1>3, Zenon
  <2> HIDE DEF pkg, product, v, found, owed
  <2> QED
    BY <2>2, <2>3, Zenon
<1>6. \A k \in DOMAIN lines : lines[k] \in Lines /\ lines[k].product \in Products
  BY <1>4 DEF Products
<1>7. v \in Seq(Lexeme)
  BY <1>3, UpstreamType, MatchAssumption, Zenon
<1>8. pkg.version = <<>> => v = <<>>
  BY UpstreamOfNothing
<1> HIDE DEF pkg, product, v, found
<1>9. CASE product = Nothing \/ pkg.version = <<>> \/ v = <<>>
  <2>1. found = {}
    BY <1>5, <1>9, Zenon
  <2>2. covers = {}
    BY <1>6, <1>8, <1>9, MatchAssumption, Zenon
  <2> HIDE DEF covers
  <2> QED
    BY <2>1, <2>2, Zenon
<1>10. CASE ~(product = Nothing \/ pkg.version = <<>> \/ v = <<>>)
  <2> DEFINE rs == rules[product]
             hit == HitsIn(rs, Len(rs), v)
  <2>1. product \in Products /\ OwedFor(found, rs, v, i)
    BY <1>5, <1>10
  <2>2. rs \in Seq(Lines)
    BY <1>4, <2>1, Zenon DEF MatchTypes
  <2>3. Range(rs) = {lines[k] : k \in {j \in DOMAIN lines : /\ lines[j].cells >= 12
                                                            /\ lines[j].product = product}}
    BY <1>4, <2>1 DEF RulesFiled
  <2>4. ASSUME NEW k \in DOMAIN lines PROVE Hits(lines[k], v) <=> ShouldHit(lines[k], v)
    <3>1. BoundsOf(lines[k]) \subseteq vs /\ v \in vs
      OBVIOUS
    <3> HIDE DEF vs
    <3> QED
      BY <1>2, <1>6, <1>7, <3>1, HitsRight
  <2> HIDE DEF rs, vs
  <2>5. ASSUME NEW k \in hit PROVE \E m \in covers : lines[m] = rs[k]
    <3>1. k \in DOMAIN rs /\ Hits(rs[k], v)
      BY <2>2 DEF HitsIn
    <3>2. PICK m \in DOMAIN lines : /\ lines[m].cells >= 12 /\ lines[m].product = product
                                    /\ lines[m] = rs[k]
      BY <2>3, <3>1 DEF Range
    <3>3. ShouldHit(lines[m], v)
      BY <2>4, <3>1, <3>2
    <3> QED
      BY <1>10, <3>2, <3>3
  <2>6. ASSUME NEW m \in covers PROVE \E k \in hit : rs[k] = lines[m]
    <3>1. /\ m \in DOMAIN lines /\ lines[m].cells >= 12 /\ lines[m].product = product
          /\ ShouldHit(lines[m], v)
      OBVIOUS
    <3>2. PICK k \in DOMAIN rs : rs[k] = lines[m]
      BY <2>3, <3>1, ZenonT(30) DEF Range
    <3>3. Hits(rs[k], v) /\ k \in 1..Len(rs)
      BY <2>2, <2>4, <3>1, <3>2
    <3> QED
      BY <3>2, <3>3 DEF HitsIn
  <2> HIDE DEF hit, covers
  <2>7. /\ {f.cve : f \in found} = {rs[k].cve : k \in hit}
        /\ \A f, g \in found : f.cve = g.cve => f = g
        /\ \A f \in found, k \in hit : f.cve = rs[k].cve => f.score >= rs[k].score
        /\ \A f \in found : \E k \in hit : f.cve = rs[k].cve /\ f.score = rs[k].score
    BY <2>1, Zenon DEF OwedFor, hit
  <2>8. {f.cve : f \in found} = {lines[k].cve : k \in covers}
    <3>1. ASSUME NEW m \in covers PROVE lines[m].cve \in {f.cve : f \in found}
      <4>1. PICK k \in hit : rs[k] = lines[m]
        BY <2>6
      <4>2. rs[k].cve \in {rs[n].cve : n \in hit}
        OBVIOUS
      <4> QED
        BY <2>7, <4>1, <4>2, Zenon
    <3>2. ASSUME NEW f \in found PROVE f.cve \in {lines[m].cve : m \in covers}
      <4>1. PICK k \in hit : f.cve = rs[k].cve
        BY <2>7
      <4>2. PICK m \in covers : lines[m] = rs[k]
        BY <2>5
      <4> QED
        BY <4>1, <4>2
    <3> QED
      BY <3>1, <3>2
  <2>9. \A f \in found, k \in covers : f.cve = lines[k].cve => f.score >= lines[k].score
    BY <2>6, <2>7
  <2>10. \A f \in found : \E k \in covers : f.cve = lines[k].cve /\ f.score = lines[k].score
    BY <2>5, <2>7
  <2> QED
    BY <2>7, <2>8, <2>9, <2>10, ZenonT(30)
<1> QED
  BY <1>9, <1>10, Zenon

\* The first prefix that fits, in the sorted order, is a longest one.
LEMMA MInvResolves ==
    ASSUME MInv
    PROVE  ResolvesToLongest
<1>1. SUFFICES ASSUME pc = "done", NEW p \in Range(inventory)
               PROVE
        LET norm == NormalizeName(p.name)
            fit  == {a \in Range(table) : a.kind = "prefix" /\ StartsWith(norm, a.pattern)}
        IN  norm \notin DOMAIN exact /\ norm # <<>> /\ fit # {} =>
              \E a \in fit : /\ Resolve(p.name) = a.target
                             /\ \A b \in fit : Len(b.pattern) <= Len(a.pattern)
  BY ZenonT(30) DEF ResolvesToLongest
<1> DEFINE norm == NormalizeName(p.name)
           fit  == {a \in Range(table) : a.kind = "prefix" /\ StartsWith(norm, a.pattern)}
           hits == {i \in DOMAIN prefixes : StartsWith(norm, prefixes[i][1])}
           first == FirstOf(hits)
<1>2. SUFFICES ASSUME norm \notin DOMAIN exact, norm # <<>>, fit # {}
               PROVE  \E a \in fit : /\ Resolve(p.name) = a.target
                                     /\ \A b \in fit : Len(b.pattern) <= Len(a.pattern)
  OBVIOUS
<1>3. table \in AliasFiles /\ prefixes \in LongestFirst(table)
  BY <1>1 DEF MInv, AliasesLoaded
<1>4. PICK q : /\ Cardinality(PrefixLines(table)) \in Nat
               /\ q \in [1..Cardinality(PrefixLines(table)) -> PrefixLines(table)]
               /\ Range(q) = PrefixLines(table)
               /\ prefixes = [i \in DOMAIN q |-> <<table[q[i]].pattern, table[q[i]].target>>]
               /\ \A i, j \in DOMAIN q :
                     i < j => Len(table[q[i]].pattern) >= Len(table[q[j]].pattern)
  BY <1>3, PrefixesLoaded
<1> HIDE DEF norm
<1>5. /\ DOMAIN prefixes = DOMAIN q /\ DOMAIN q \subseteq Nat
      /\ \A i \in DOMAIN q : /\ prefixes[i][1] = table[q[i]].pattern
                             /\ prefixes[i][2] = table[q[i]].target
                             /\ q[i] \in PrefixLines(table)
  BY <1>4
<1>6. \A m \in PrefixLines(table) : m \in DOMAIN table /\ table[m].kind = "prefix" /\ table[m] \in Range(table)
  BY DEF PrefixLines, Range
<1>7. ASSUME NEW b \in fit PROVE \E j \in hits : b = table[q[j]]
  <2>1. PICK m \in DOMAIN table : b = table[m]
    BY DEF Range
  <2>2. m \in PrefixLines(table)
    BY <2>1 DEF PrefixLines
  <2>3. PICK j \in DOMAIN q : q[j] = m
    BY <1>4, <2>2 DEF Range
  <2>4. StartsWith(norm, prefixes[j][1])
    BY <1>5, <2>1, <2>3, ZenonT(30)
  <2> QED
    BY <1>5, <2>1, <2>3, <2>4
<1>8. hits # {} /\ hits \subseteq Nat
  BY <1>2, <1>5, <1>7
<1>9. first \in hits /\ \A j \in hits : first <= j
  <2> HIDE DEF hits
  <2> QED
    BY <1>8, FirstOfLeast, Zenon
<1>10. Resolve(p.name) = prefixes[first][2]
  BY <1>2, <1>8 DEF Resolve, norm
<1>11. table[q[first]] \in fit
  <2> HIDE DEF first
  <2> QED
    BY <1>5, <1>6, <1>9, ZenonT(30)
<1>12. Resolve(p.name) = table[q[first]].target
  <2> HIDE DEF first
  <2> QED
    BY <1>5, <1>9, <1>10
<1>13. ASSUME NEW b \in fit PROVE Len(b.pattern) <= Len(table[q[first]].pattern)
  <2>1. PICK j \in hits : b = table[q[j]]
    BY <1>7
  <2>2. first \in DOMAIN q /\ j \in DOMAIN q /\ first <= j /\ first \in Nat /\ j \in Nat
    <3> HIDE DEF first
    <3> QED
      BY <1>5, <1>9
  <2>3. \A m \in PrefixLines(table) : Len(table[m].pattern) \in Nat
    <3>1. table \in Seq([kind : STRING, pattern : Seq(STRING), target : STRING])
      BY <1>3, MatchAssumption
    <3>2. \A m \in DOMAIN table :
             table[m] \in [kind : STRING, pattern : Seq(STRING), target : STRING]
      <4>1. \A R : table \in Seq(R) => \A m \in DOMAIN table : table[m] \in R
        OBVIOUS
      <4> QED
        BY <3>1, <4>1, ZenonT(30)
    <3>3. \A m \in DOMAIN table : table[m].pattern \in Seq(STRING)
      BY <3>2, ZenonT(30)
    <3> QED
      BY <1>6, <3>3
  <2>4. Len(table[q[first]].pattern) \in Nat /\ Len(table[q[j]].pattern) \in Nat
    <3> HIDE DEF first, hits
    <3> QED
      BY <1>5, <2>2, <2>3
  <2> HIDE DEF first, hits, fit
  <2>5. CASE first = j
    BY <2>1, <2>4, <2>5
  <2>6. CASE first # j
    <3>1. first < j
      BY <2>2, <2>6
    <3> QED
      BY <1>4, <2>1, <2>2, <2>4, <3>1
  <2> QED
    BY <2>5, <2>6
<1> HIDE DEF fit, first
<1> QED
  BY <1>11, <1>12, <1>13, Zenon

\* The size of two sets that share nothing.
LEMMA TwoParts ==
    ASSUME NEW S, NEW T, IsFiniteSet(S), IsFiniteSet(T), S \cap T = {}
    PROVE  /\ IsFiniteSet(S \cup T)
           /\ Cardinality(S \cup T) = Cardinality(S) + Cardinality(T)
<1>1. /\ IsFiniteSet(S \cup T)
      /\ Cardinality(S \cup T) = Cardinality(S) + Cardinality(T) - Cardinality(S \cap T)
  BY FS_Union, Zenon
<1>2. Cardinality(S \cap T) = 0
  BY FS_EmptySet
<1>3. Cardinality(S) \in Nat /\ Cardinality(T) \in Nat
  BY FS_CardinalityType
<1> QED
  BY <1>1, <1>2, <1>3

\* The size of four sets that share nothing.
LEMMA FourParts ==
    ASSUME NEW A, NEW B, NEW C, NEW D,
           IsFiniteSet(A), IsFiniteSet(B), IsFiniteSet(C), IsFiniteSet(D),
           A \cap B = {}, (A \cup B) \cap C = {}, (A \cup B \cup C) \cap D = {}
    PROVE  Cardinality(A) + Cardinality(B) + Cardinality(C) + Cardinality(D)
             = Cardinality(A \cup B \cup C \cup D)
<1>1. IsFiniteSet(A \cup B) /\ Cardinality(A \cup B) = Cardinality(A) + Cardinality(B)
  BY TwoParts, Zenon
<1>2. /\ IsFiniteSet(A \cup B \cup C)
      /\ Cardinality(A \cup B \cup C) = Cardinality(A \cup B) + Cardinality(C)
  BY <1>1, TwoParts, Zenon
<1>3. Cardinality(A \cup B \cup C \cup D) = Cardinality(A \cup B \cup C) + Cardinality(D)
  BY <1>2, TwoParts, Zenon
<1>4. /\ Cardinality(A) \in Nat /\ Cardinality(B) \in Nat
      /\ Cardinality(C) \in Nat /\ Cardinality(D) \in Nat
  BY FS_CardinalityType
<1> QED
  BY <1>1, <1>2, <1>3, <1>4

\* The report holds each finding once, and begins with one that max_element
\* takes for the worst.
LEMMA ReportSorted ==
    ASSUME NEW fs, IsFiniteSet(fs), \A f \in fs : f.score \in Nat, NEW q \in Sorted(fs)
    PROVE  /\ Range(q) = fs /\ Len(q) = Cardinality(fs)
           /\ q # <<>> => WorstFinding(q) = q[1]
<1>1. Cardinality(fs) \in Nat
  BY FS_CardinalityType
<1>2. /\ q \in [1..Cardinality(fs) -> fs] /\ Range(q) = fs
      /\ \A i, j \in DOMAIN q : i < j => \/ q[i].score > q[j].score
                                         \/ q[i].score = q[j].score /\ q[i].cve >= q[j].cve
  BY DEF Sorted, Orders
<1>3. q \in Seq(fs) /\ Len(q) = Cardinality(fs) /\ DOMAIN q = 1..Len(q)
  BY <1>1, <1>2
<1>4. ASSUME q # <<>> PROVE WorstFinding(q) = q[1]
  <2> DEFINE top == {i \in DOMAIN q : \A j \in DOMAIN q : q[j].score <= q[i].score}
  <2>1. 1 \in DOMAIN q /\ \A j \in DOMAIN q : j = 1 \/ 1 < j
    BY <1>3, <1>4
  <2>2. \A j \in DOMAIN q : q[j].score \in Nat
    BY <1>2
  <2>3. 1 \in top
    <3>1. ASSUME NEW j \in DOMAIN q PROVE q[j].score <= q[1].score
      <4>1. CASE j = 1
        BY <2>1, <2>2, <4>1
      <4>2. CASE 1 < j
        <5>1. q[1].score > q[j].score \/ q[1].score = q[j].score
          BY <1>2, <2>1, <4>2
        <5> QED
          BY <2>1, <2>2, <5>1
      <4> QED
        BY <2>1, <4>1, <4>2
    <3> QED
      BY <2>1, <3>1
  <2>4. top \subseteq Nat /\ \A i \in top : i >= 1
    BY <1>3
  <2>5. WorstFinding(q) = q[FirstOf(top)]
    BY <1>4 DEF WorstFinding
  <2> HIDE DEF top
  <2>6. FirstOf(top) \in top /\ FirstOf(top) <= 1
    BY <2>3, <2>4, FirstOfLeast, Zenon
  <2>7. FirstOf(top) = 1
    <3>1. FirstOf(top) \in Nat /\ FirstOf(top) >= 1
      BY <2>4, <2>6, ZenonT(30)
    <3> QED
      BY <2>6, <3>1
  <2> QED
    BY <2>5, <2>7
<1> QED
  BY <1>2, <1>3, <1>4

\* The counts and the report of a finished scan.
LEMMA MInvReport ==
    ASSUME MInv
    PROVE  ReportAddsUp
<1> SUFFICES ASSUME pc = "done"
             PROVE  /\ summary.total = Len(inventory)
                    /\ summary.mapped = Cardinality(Mapped)
                    /\ summary.unmapped = Len(inventory) - summary.mapped
                    /\ summary.noVersion = Cardinality(Bare)
                    /\ {f.package : f \in all} \subseteq Mapped \ Bare
                    /\ Len(summary.names) =
                         IF summary.unmapped <= MaxNames THEN summary.unmapped ELSE MaxNames
                    /\ summary.bucket["critical"] + summary.bucket["high"]
                         + summary.bucket["medium"] + summary.bucket["low"]
                         = Cardinality({f \in all : f.severity \in Buckets})
                    /\ Range(report) = all /\ Len(report) = Cardinality(all)
                    /\ report # <<>> => WorstFinding(report) = report[1]
  BY Zenon DEF ReportAddsUp, Mapped, Bare
<1>1. /\ MatchTypes /\ AliasesLoaded /\ inventory \in Seq(Packages) /\ IsFiniteSet(all)
      /\ all = UNION {PackageFindings(inventory[i], i) : i \in DOMAIN inventory}
  BY DEF MInv, MatchTypes, FindingsSoFar
<1>2. /\ summary.total = Len(inventory)
      /\ summary.mapped = Cardinality(Mapped)
      /\ summary.unmapped = Len(inventory) - summary.mapped
      /\ summary.noVersion = Cardinality(Bare)
      /\ Len(summary.names) = IF summary.unmapped <= MaxNames THEN summary.unmapped ELSE MaxNames
  BY DEF MInv, CountsSoFar
<1>3. ASSUME NEW f \in all
      PROVE  f.score \in Nat /\ f.package \in Mapped \ Bare
  <2>1. PICK i \in DOMAIN inventory : f \in PackageFindings(inventory[i], i)
    BY <1>1
  <2>2. inventory[i] \in Packages
    BY <1>1
  <2>3. f.package = i /\ f.score \in Nat
    BY <1>1, <2>1, <2>2, PackageFindingsOwed
  <2>4. Resolve(inventory[i].name) # Nothing /\ inventory[i].version # <<>>
    BY <2>1 DEF PackageFindings
  <2> QED
    BY <2>3, <2>4 DEF Mapped, Bare
<1>4. /\ report \in Sorted(all)
      /\ summary.bucket = [b \in Buckets |-> Cardinality({f \in all : f.severity = b})]
  BY DEF MInv, ReportMade
<1>5. /\ Range(report) = all /\ Len(report) = Cardinality(all)
      /\ report # <<>> => WorstFinding(report) = report[1]
  BY <1>1, <1>3, <1>4, ReportSorted, ZenonT(30)
<1>6. summary.bucket["critical"] + summary.bucket["high"]
        + summary.bucket["medium"] + summary.bucket["low"]
        = Cardinality({f \in all : f.severity \in Buckets})
  <2> DEFINE part(b) == {f \in all : f.severity = b}
  <2>1. /\ summary.bucket["critical"] = Cardinality(part("critical"))
        /\ summary.bucket["high"] = Cardinality(part("high"))
        /\ summary.bucket["medium"] = Cardinality(part("medium"))
        /\ summary.bucket["low"] = Cardinality(part("low"))
    BY <1>4 DEF Buckets
  <2>2. \A b : IsFiniteSet(part(b))
    <3>1. \A b : part(b) \in SUBSET all
      OBVIOUS
    <3> HIDE DEF part
    <3> QED
      BY <1>1, <3>1, FS_Subset
  <2>3. /\ part("critical") \cap part("high") = {}
        /\ (part("critical") \cup part("high")) \cap part("medium") = {}
        /\ (part("critical") \cup part("high") \cup part("medium")) \cap part("low") = {}
    OBVIOUS
  <2>4. {f \in all : f.severity \in Buckets}
          = part("critical") \cup part("high") \cup part("medium") \cup part("low")
    BY DEF Buckets
  <2> HIDE DEF part
  <2>5. Cardinality(part("critical")) + Cardinality(part("high")) + Cardinality(part("medium"))
          + Cardinality(part("low"))
          = Cardinality(part("critical") \cup part("high") \cup part("medium") \cup part("low"))
    BY <2>2, <2>3, FourParts
  <2> QED
    BY <2>1, <2>4, <2>5
<1>7. {f.package : f \in all} \subseteq Mapped \ Bare
  BY <1>3
<1> QED
  BY <1>2, <1>5, <1>6, <1>7

\* scan reports exactly the CVEs of the complete rules that cover a package, each
\* once and with its highest score, wherever the words of the versions agree.
THEOREM FindingsExactHolds == MatchSpec => []FindingsExact
BY MatchInvariance, MInvFindings, PTL

\* Where no exact alias names the package, resolve takes a longest prefix that fits.
THEOREM ResolvesToLongestHolds == MatchSpec => []ResolvesToLongest
BY MatchInvariance, MInvResolves, PTL

\* The summary of a finished scan accounts for every package and every finding.
THEOREM ReportAddsUpHolds == MatchSpec => []ReportAddsUp
BY MatchInvariance, MInvReport, PTL

=============================================================================
