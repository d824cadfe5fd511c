------------------------------ MODULE CveMatch ------------------------------
(***************************************************************************)
(* cve.cpp: the CVE index and the alias table are loaded, then an          *)
(* inventory is matched package by package and the findings are reported.  *)
(*                                                                         *)
(* A name is a sequence of pieces: stems (runs of characters that the      *)
(* aliases tell apart), "space", "open" and "close" for the brackets.      *)
(* Stems carry no case, as every name is lower-cased first.  A line of the *)
(* index is a record; `cells` is how many cells split_tabs makes of it,    *)
(* fewer than 12 for a comment, a blank line, a short line, and a line     *)
(* whose last cell is empty.  A version cell of "*", "-" or "" is <<>>.    *)
(***************************************************************************)
EXTENDS VersionCompare, Functions

CONSTANTS
    Lines,          \* lines the index file may hold
    AliasFiles,     \* alias tables: sequences of [kind, pattern, target]
    Packages,       \* packages an inventory may hold: [name, version]
    SocketSets,     \* sets of listening sockets: [process, world]
    VersionStems,   \* stems made of digits, dots and commas
    NoiseStems,     \* the words of kNoise
    Nothing,        \* no product, no finding
    MaxLines,       \* bound: lines of the index
    MaxPackages,    \* bound: packages of the inventory
    MaxNames        \* unmapped names kept for the report (50)

Products == {l.product : l \in Lines}
            \cup UNION {{t[i].target : i \in DOMAIN t} : t \in AliasFiles}

ASSUME MatchAssumption ==
    /\ \A l \in Lines :
         /\ l.cells \in Nat /\ l.cve \in Nat /\ l.score \in Nat
         /\ l.version \in Seq(Lexeme)
         /\ l.startIncl \in Seq(Lexeme) /\ l.startExcl \in Seq(Lexeme)
         /\ l.endIncl \in Seq(Lexeme) /\ l.endExcl \in Seq(Lexeme)
    /\ \A t \in AliasFiles :
         t \in Seq([kind : STRING, pattern : Seq(STRING), target : STRING])
    /\ \A p \in Packages : p.name \in Seq(STRING) /\ p.version \in Seq(Lexeme)
    /\ Nothing \notin Products
    /\ MaxLines \in Nat /\ MaxPackages \in Nat /\ MaxNames \in Nat

VARIABLES
    pc,        \* "rules", "aliases", "collect", "scan", "done" or "failed"
    lines,     \* the lines of the index read so far
    rules,     \* by_product_: product -> its rules, in the order of the file
    table,     \* the alias table that was read
    exact,     \* exact_: normalised name -> product
    prefixes,  \* prefixes_: pairs <<pattern, product>>
    sockets,   \* inv.sockets
    inventory, \* inv.packages, as far as the scan has come
    all,       \* the findings so far
    summary,   \* ScanSummary
    report     \* the findings in the order they are reported

matchVars == <<pc, lines, rules, table, exact, prefixes, sockets, inventory, all, summary, report>>

Buckets == {"critical", "high", "medium", "low"}

MatchInit ==
    /\ pc = "rules"
    /\ lines = <<>>
    /\ rules = [p \in Products |-> <<>>]
    /\ table = <<>> /\ exact = <<>> /\ prefixes = <<>>
    /\ sockets = {} /\ inventory = <<>> /\ all = {}
    /\ summary = [total |-> 0, mapped |-> 0, unmapped |-> 0, noVersion |-> 0,
                  names |-> <<>>, exposed |-> 0, bucket |-> [b \in Buckets |-> 0]]
    /\ report = <<>>

-----------------------------------------------------------------------------
(* Loading *)

\* A missing file, an empty file and an unexpected header end the load, and
\* with it the start of the agent or the command.
LoadFails ==
    /\ (pc = "rules" /\ lines = <<>>) \/ pc = "aliases"
    /\ pc' = "failed"
    /\ UNCHANGED <<lines, rules, table, exact, prefixes, sockets, inventory, all, summary, report>>

LoadRule ==
    /\ pc = "rules" /\ Len(lines) < MaxLines
    /\ \E l \in Lines :
         /\ lines' = Append(lines, l)
         /\ rules' = IF l.cells < 12 THEN rules ELSE [rules EXCEPT ![l.product] = Append(@, l)]
    /\ UNCHANGED <<pc, table, exact, prefixes, sockets, inventory, all, summary, report>>

RulesLoaded ==
    /\ pc = "rules"
    /\ pc' = "aliases"
    /\ UNCHANGED <<lines, rules, table, exact, prefixes, sockets, inventory, all, summary, report>>

PrefixLines(t) == {i \in DOMAIN t : t[i].kind = "prefix"}

\* The sequences that hold each element of S once.
Orders(S) == {s \in [1..Cardinality(S) -> S] : Range(s) = S}

\* Mutant: the prefixes are tried in the order of the file.
InFileOrder(t) ==
    {[i \in DOMAIN q |-> <<t[q[i]].pattern, t[q[i]].target>>] :
        q \in {q \in Orders(PrefixLines(t)) :
                  \A i, j \in DOMAIN q : i < j => q[i] < q[j]}}

\* The prefix lines after std::sort by length, longest first; it may put
\* equals in any order.
LongestFirst(t) ==
    {[i \in DOMAIN q |-> <<t[q[i]].pattern, t[q[i]].target>>] :
        q \in {q \in Orders(PrefixLines(t)) :
                  \A i, j \in DOMAIN q :
                      i < j => Len(t[q[i]].pattern) >= Len(t[q[j]].pattern)}}

\* The last of two exact lines for one name counts.
ExactIn(t) ==
    LET at == {i \in DOMAIN t : t[i].kind = "exact"}
    IN  [n \in {t[i].pattern : i \in at} |->
            t[LastOf({i \in at : t[i].pattern = n})].target]

LoadAliases ==
    /\ pc = "aliases"
    /\ \E t \in AliasFiles :
         /\ table' = t
         /\ exact' = ExactIn(t)
         /\ prefixes' \in LongestFirst(t)
    /\ pc' = "collect"
    /\ UNCHANGED <<lines, rules, sockets, inventory, all, summary, report>>

-----------------------------------------------------------------------------
(* Names *)

\* One turn of the loop over the characters: what is inside brackets goes; a
\* bracket that is never closed takes the rest.
SkipBrackets(s, piece) ==
    CASE piece = "open"  -> [s EXCEPT !.depth = @ + 1]
      [] piece = "close" -> [s EXCEPT !.depth = IF @ > 0 THEN @ - 1 ELSE 0]
      [] OTHER -> IF s.depth > 0 THEN s ELSE [s EXCEPT !.text = Append(@, piece)]

Visible(raw) == Loop(SkipBrackets, [depth |-> 0, text |-> <<>>], raw).text

\* A space ends a word; two of them leave an empty one between.
SplitWord(words, piece) ==
    IF piece = "space" THEN Append(words, <<>>)
    ELSE [words EXCEPT ![Len(words)] = Append(@, piece)]

WordsOf(text) == Loop(SplitWord, <<<<>>>>, text)

TokenIsVersion(word) == Range(word) \subseteq VersionStems

TokenIsNoise(word) == Len(word) = 1 /\ word[1] \in NoiseStems

\* The words that are kept are joined by single spaces.
KeepWord(out, word) ==
    IF word = <<>> \/ TokenIsVersion(word) \/ TokenIsNoise(word) THEN out
    ELSE IF out = <<>> THEN word ELSE out \o <<"space">> \o word

NormalizeName(raw) == Loop(KeepWord, <<>>, WordsOf(Visible(raw)))

StartsWith(s, prefix) == Len(prefix) <= Len(s) /\ SubSeq(s, 1, Len(prefix)) = prefix

\* An exact alias, else the first prefix in the list, else the longest run of
\* leading words that is an exact alias.
Resolve(raw) ==
    LET norm == NormalizeName(raw)
        hits == {i \in DOMAIN prefixes : StartsWith(norm, prefixes[i][1])}
        cuts == {n \in 1..Len(norm) : norm[n] = "space" /\ SubSeq(norm, 1, n - 1) \in DOMAIN exact}
    IN  CASE norm = <<>> -> Nothing
          [] norm # <<>> /\ norm \in DOMAIN exact -> exact[norm]
          [] OTHER -> IF hits # {} THEN prefixes[FirstOf(hits)][2]
                      ELSE IF cuts # {} THEN exact[SubSeq(norm, 1, LastOf(cuts) - 1)]
                      ELSE Nothing

-----------------------------------------------------------------------------
(* Matching *)

HasRange(r) == r.startIncl # <<>> \/ r.startExcl # <<>> \/ r.endIncl # <<>> \/ r.endExcl # <<>>

Hits(r, v) ==
    IF r.version # <<>> THEN Compare(v, r.version) = 0
    ELSE HasRange(r) => InRange(v, r.startIncl, r.startExcl, r.endIncl, r.endExcl)

SeverityBucket(label, score) ==
    IF label # "" THEN label
    ELSE CASE score >= 9 -> "critical"
           [] score >= 7 /\ score < 9 -> "high"
           [] score >= 4 /\ score < 7 -> "medium"
           [] score > 0 /\ score < 4 -> "low"
           [] OTHER -> "none"

\* One turn of the loop over the rules: a hit is kept for its CVE, in the
\* place of another only with a higher score.
KeepBest(best, r, v) ==
    IF Hits(r, v) /\ (r.cve \in DOMAIN best => r.score > best[r.cve].score)
    THEN [c \in DOMAIN best \cup {r.cve} |-> IF c = r.cve THEN r ELSE best[c]]
    ELSE best

BestRule(rs, v) == Loop(LAMBDA best, r : KeepBest(best, r, v), <<>>, rs)

\* The findings for the package that becomes number `at` of the inventory.
MatchPackage(pkg, product, at, exposed) ==
    LET v    == UpstreamPart(pkg.version)
        best == BestRule(rules[product], v)
    IN  IF v = <<>> THEN {}
        ELSE {[cve |-> c, package |-> at, score |-> best[c].score, exposed |-> exposed,
               severity |-> SeverityBucket(best[c].severity, best[c].score)] : c \in DOMAIN best}

\* The sockets come with the inventory; the products behind those that the
\* world reaches are worked out before the first package.
CollectInventory ==
    /\ pc = "collect"
    /\ sockets' \in SocketSets
    /\ pc' = "scan"
    /\ UNCHANGED <<lines, rules, table, exact, prefixes, inventory, all, summary, report>>

ExposedProducts ==
    {Resolve(s.process) : s \in {t \in sockets : t.world /\ t.process # <<>>}} \ {Nothing}

\* Mutant: a package that no alias covers is skipped without being counted.
ScanPackageSkips ==
    /\ pc = "scan" /\ Len(inventory) < MaxPackages
    /\ \E pkg \in Packages :
         LET product == Resolve(pkg.name)
             at      == Len(inventory) + 1
         IN  /\ inventory' = Append(inventory, pkg)
             /\ summary' = [summary EXCEPT !.total = @ + 1,
                              !.mapped = @ + (IF product = Nothing THEN 0 ELSE 1)]
             /\ all' = IF product = Nothing \/ pkg.version = <<>> THEN all
                       ELSE all \cup MatchPackage(pkg, product, at, product \in ExposedProducts)
    /\ UNCHANGED <<pc, lines, rules, table, exact, prefixes, sockets, report>>

KeepName(names, name) == IF Len(names) < MaxNames THEN Append(names, name) ELSE names

\* One turn of the loop over the packages.
ScanPackage ==
    /\ pc = "scan" /\ Len(inventory) < MaxPackages
    /\ \E pkg \in Packages :
         LET product == Resolve(pkg.name)
             at      == Len(inventory) + 1
         IN  /\ inventory' = Append(inventory, pkg)
             /\ \/ /\ product = Nothing
                   /\ summary' = [summary EXCEPT !.total = @ + 1, !.unmapped = @ + 1,
                        !.names = KeepName(@, pkg.name)]
                   /\ UNCHANGED all
                \/ /\ product # Nothing /\ pkg.version = <<>>
                   /\ summary' = [summary EXCEPT !.total = @ + 1, !.mapped = @ + 1,
                                                 !.noVersion = @ + 1]
                   /\ UNCHANGED all
                \/ /\ product # Nothing /\ pkg.version # <<>>
                   /\ summary' = [summary EXCEPT !.total = @ + 1, !.mapped = @ + 1]
                   /\ all' = all \cup MatchPackage(pkg, product, at, product \in ExposedProducts)
    /\ UNCHANGED <<pc, lines, rules, table, exact, prefixes, sockets, report>>

\* Highest score first, then by CVE; std::sort may put equals in any order.
Sorted(fs) ==
    {q \in Orders(fs) : \A i, j \in DOMAIN q : i < j =>
        \/ q[i].score > q[j].score
        \/ q[i].score = q[j].score /\ q[i].cve >= q[j].cve}

\* The rest of scan: sort the findings and count them.
FinishScan ==
    /\ pc = "scan"
    /\ report' \in Sorted(all)
    /\ summary' = [summary EXCEPT
         !.bucket = [b \in Buckets |-> Cardinality({f \in all : f.severity = b})],
         !.exposed = Cardinality({f \in all : f.exposed})]
    /\ pc' = "done"
    /\ UNCHANGED <<lines, rules, table, exact, prefixes, sockets, inventory, all>>

\* What run_scan logs and keeps as r.worst: the first of the highest scores.
WorstFinding(fs) ==
    IF fs = <<>> THEN Nothing
    ELSE fs[FirstOf({i \in DOMAIN fs : \A j \in DOMAIN fs : fs[j].score <= fs[i].score})]

MatchNext ==
    \/ LoadFails \/ LoadRule \/ RulesLoaded \/ LoadAliases
    \/ CollectInventory \/ ScanPackage \/ FinishScan

MatchSpec == MatchInit /\ [][MatchNext]_matchVars

-----------------------------------------------------------------------------
(* Properties *)

\* Every field keeps its type; the report keeps no more than MaxNames names,
\* and holds each finding of the scan once.
MatchTypeOK ==
    /\ pc \in {"rules", "aliases", "collect", "scan", "done", "failed"}
    /\ \A p \in Products : Range(rules[p]) \subseteq Lines
    /\ Range(inventory) \subseteq Packages
    /\ Len(summary.names) <= MaxNames
    /\ \A f \in all : f.package \in DOMAIN inventory /\ f.severity \in Buckets \cup {"none"}
    /\ pc = "done" => Range(report) = all /\ Len(report) = Cardinality(all)

\* The hit of a rule by the order of VersionCompare's dictionary.
ShouldHit(r, v) ==
    IF r.version # <<>> THEN ~Below(v, r.version) /\ ~Below(r.version, v)
    ELSE /\ r.startIncl # <<>> => ~Below(v, r.startIncl)
         /\ r.startExcl # <<>> => Below(r.startExcl, v)
         /\ r.endIncl # <<>> => ~Below(r.endIncl, v)
         /\ r.endExcl # <<>> => Below(v, r.endExcl)

BoundsOf(r) == {r.version, r.startIncl, r.startExcl, r.endIncl, r.endExcl}

\* scan reports a CVE for a package exactly when a complete line of the index
\* for its product covers its upstream version, once, and with the highest
\* score among such lines, whatever the order of the lines.  Where the words
\* of a version and a bound disagree (vercmp.cpp compares "p" with "rc" as
\* text) the order is not one and nothing is promised.
FindingsExact ==
    pc = "done" => \A i \in DOMAIN inventory :
        LET product == Resolve(inventory[i].name)
            v       == UpstreamPart(inventory[i].version)
            found   == {f \in all : f.package = i}
            covers  == {k \in DOMAIN lines : /\ lines[k].cells >= 12
                                             /\ lines[k].product = product
                                             /\ v # <<>> /\ ShouldHit(lines[k], v)}
        IN  WordsAgree({v} \cup UNION {BoundsOf(lines[k]) : k \in DOMAIN lines}) =>
              /\ {f.cve : f \in found} = {lines[k].cve : k \in covers}
              /\ \A f, g \in found : f.cve = g.cve => f = g
              /\ \A f \in found, k \in covers : f.cve = lines[k].cve => f.score >= lines[k].score
              /\ \A f \in found : \E k \in covers : f.cve = lines[k].cve /\ f.score = lines[k].score

\* resolve takes the longest prefix of the table that fits, in whatever order
\* the lines were written.
ResolvesToLongest ==
    pc = "done" => \A p \in Range(inventory) :
        LET norm == NormalizeName(p.name)
            fit  == {a \in Range(table) : a.kind = "prefix" /\ StartsWith(norm, a.pattern)}
        IN  norm \notin DOMAIN exact /\ norm # <<>> /\ fit # {} =>
              \E a \in fit : /\ Resolve(p.name) = a.target
                             /\ \A b \in fit : Len(b.pattern) <= Len(a.pattern)

\* The report hides no package: each one is mapped or counted as a blind spot
\* (and named, up to MaxNames), and one that is mapped and has a version is
\* the only kind with findings.  It holds each finding once, the severity
\* counts add up to those that have a severity, and what run_scan logs as the
\* worst (max_element) is the finding at its head.
ReportAddsUp ==
    pc = "done" =>
        LET mapped   == {i \in DOMAIN inventory : Resolve(inventory[i].name) # Nothing}
            bare     == {i \in mapped : inventory[i].version = <<>>}
        IN  /\ summary.total = Len(inventory)
            /\ summary.mapped = Cardinality(mapped)
            /\ summary.unmapped = Len(inventory) - summary.mapped
            /\ summary.noVersion = Cardinality(bare)
            /\ {f.package : f \in all} \subseteq mapped \ bare
            /\ Len(summary.names) =
                 IF summary.unmapped <= MaxNames THEN summary.unmapped ELSE MaxNames
            /\ summary.bucket["critical"] + summary.bucket["high"] + summary.bucket["medium"]
                 + summary.bucket["low"] = Cardinality({f \in all : f.severity \in Buckets})
            /\ Range(report) = all /\ Len(report) = Cardinality(all)
            /\ report # <<>> => WorstFinding(report) = report[1]
=============================================================================
