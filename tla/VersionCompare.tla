--------------------------- MODULE VersionCompare ---------------------------
(***************************************************************************)
(* vercmp.cpp: the order of version strings that decides whether a rule of *)
(* the CVE index hits a package.                                           *)
(*                                                                         *)
(* A version is the sequence of its lexemes, [kind, n].  A run of digits   *)
(* is "numeric" with its value, a run of letters is "alpha" with the place *)
(* of the lower-cased word in the lexicographic order, '~' is "tilde", and *)
(* "dash", "plus", "colon" and "dot" are the separators (n = 0).  Two runs *)
(* of one kind are never adjacent: they would be one run.                  *)
(***************************************************************************)
EXTENDS Integers, Sequences, FiniteSets

CONSTANTS
    Prerelease,   \* the words of kWords, as places in the order
    Huge,         \* the least value written with more than 18 digits
    Wrap          \* 2^64, the modulus of unsigned long long

ASSUME VersionAssumption ==
    /\ Prerelease \subseteq Nat
    /\ Huge \in Nat /\ Wrap \in Nat /\ Huge < Wrap

Kinds == {"numeric", "alpha", "tilde", "dash", "plus", "colon", "dot"}

Lexeme == [kind : Kinds, n : Nat]

Positions(v, kind) == {i \in DOMAIN v : v[i].kind = kind}

FirstOf(S) == CHOOSE i \in S : \A j \in S : i <= j

LastOf(S) == CHOOSE i \in S : \A j \in S : j <= i

\* A loop over a sequence: each turn takes the value so far and an element.
\* It is FoldLeft of SequencesExt as a recursive function.
Loop(turn(_, _), start, s) ==
    LET after[n \in 0..Len(s)] == IF n = 0 THEN start ELSE turn(after[n - 1], s[n])
    IN  after[Len(s)]

-----------------------------------------------------------------------------

\* A number too long for its type is taken for the largest one.
Value(l) == IF l.kind = "numeric" /\ l.n >= Huge THEN [l EXCEPT !.n = Wrap - 1] ELSE l

\* One turn of the loop: separators end a run and are not compared.
PushToken(out, l) ==
    IF l.kind \in {"tilde", "alpha", "numeric"} THEN Append(out, Value(l)) ELSE out

Tokenize(v) == Loop(PushToken, <<>>, v)

Rank(kind) == CASE kind = "tilde" -> 0 [] kind = "alpha" -> 1 [] kind = "numeric" -> 2

Sign(x, y) == IF x < y THEN -1 ELSE IF x > y THEN 1 ELSE 0

CmpToken(a, b) ==
    IF a.kind # b.kind THEN Sign(Rank(a.kind), Rank(b.kind)) ELSE Sign(a.n, b.n)

\* Mutant: only the words listed as pre-releases are looked at, the tilde is not.
TildeIgnored(next) == IF next.kind = "alpha" /\ next.n \in Prerelease THEN -1 ELSE 1

\* What the first token that only one version has says of that version.
CmpRemainder(next) ==
    IF next.kind = "tilde" \/ (next.kind = "alpha" /\ next.n \in Prerelease) THEN -1 ELSE 1

\* Only digits before the first colon make an epoch; its value is not
\* saturated, it wraps.
HasEpoch(v) ==
    LET colons == Positions(v, "colon")
    IN  colons # {} /\ \A i \in 1..(FirstOf(colons) - 1) : v[i].kind = "numeric"

Epoch(v) == IF HasEpoch(v) /\ v[1].kind = "numeric" THEN v[1].n % Wrap ELSE 0

StripEpoch(v) ==
    IF HasEpoch(v) THEN SubSeq(v, FirstOf(Positions(v, "colon")) + 1, Len(v)) ELSE v

CompareTokens(ta, tb) ==
    LET n      == IF Len(ta) < Len(tb) THEN Len(ta) ELSE Len(tb)
        differ == {i \in 1..n : CmpToken(ta[i], tb[i]) # 0}
    IN  IF differ # {} THEN CmpToken(ta[FirstOf(differ)], tb[FirstOf(differ)])
        ELSE IF Len(ta) > n THEN CmpRemainder(ta[n + 1])
        ELSE IF Len(tb) > n THEN -CmpRemainder(tb[n + 1]) ELSE 0

Compare(a, b) ==
    IF Epoch(a) # Epoch(b) THEN Sign(Epoch(a), Epoch(b))
    ELSE CompareTokens(Tokenize(StripEpoch(a)), Tokenize(StripEpoch(b)))

\* An empty bound is no bound.
InRange(v, startIncl, startExcl, endIncl, endExcl) ==
    /\ startIncl # <<>> => Compare(v, startIncl) >= 0
    /\ startExcl # <<>> => Compare(v, startExcl) > 0
    /\ endIncl # <<>> => Compare(v, endIncl) <= 0
    /\ endExcl # <<>> => Compare(v, endExcl) < 0

\* The packaging revision starts at the last dash, the packager's suffix at
\* the first plus of what is left.
UpstreamPart(v) ==
    LET bare    == StripEpoch(v)
        dashes  == Positions(bare, "dash")
        noRev   == IF dashes = {} THEN bare ELSE SubSeq(bare, 1, LastOf(dashes) - 1)
        pluses  == Positions(noRev, "plus")
    IN  IF pluses = {} THEN noRev ELSE SubSeq(noRev, 1, FirstOf(pluses) - 1)

-----------------------------------------------------------------------------
(***************************************************************************)
(* The order the rules of vercmp.hpp describe, stated on its own: versions *)
(* are compared like words of a dictionary in which the end of a version   *)
(* is a letter too, above the tilde and the pre-release words and below    *)
(* everything else.  It is an order by construction.                       *)
(***************************************************************************)
\* The place of the i-th letter: first the class, then the value in the class.
ClassOf(t, i) ==
    IF i > Len(t) THEN 2
    ELSE CASE t[i].kind = "tilde" -> 0
           [] t[i].kind = "alpha" -> IF t[i].n \in Prerelease THEN 1 ELSE 3
           [] t[i].kind = "numeric" -> 4

ValueOf(t, i) == IF i > Len(t) THEN 0 ELSE t[i].n

LetterBelow(s, t, i) ==
    \/ ClassOf(s, i) < ClassOf(t, i)
    \/ ClassOf(s, i) = ClassOf(t, i) /\ ValueOf(s, i) < ValueOf(t, i)

TokensBelow(s, t) ==
    \E i \in 1..(Len(s) + Len(t)) :
        /\ LetterBelow(s, t, i)
        /\ \A j \in 1..(i - 1) : ~LetterBelow(s, t, j) /\ ~LetterBelow(t, s, j)

Below(a, b) ==
    \/ Epoch(a) < Epoch(b)
    \/ /\ Epoch(a) = Epoch(b)
       /\ TokensBelow(Tokenize(StripEpoch(a)), Tokenize(StripEpoch(b)))

\* The words of these versions keep to one order: no word that comes after
\* the release sorts before one that comes before it.  "p" and "rc" do not.
WordsAgree(vs) ==
    LET words == {l.n : l \in {m \in UNION {{v[i] : i \in DOMAIN v} : v \in vs} : m.kind = "alpha"}}
    IN  \A before \in words \cap Prerelease, after \in words \ Prerelease : before < after
=============================================================================
