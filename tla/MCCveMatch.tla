----------------------------- MODULE MCCveMatch -----------------------------
(* Two products, two CVEs, and versions at and around every bound. *)
EXTENDS CveMatch

num(n) == [kind |-> "numeric", n |-> n]
beta   == [kind |-> "alpha", n |-> 1]   \* "beta" < "p" < "rc"
p      == [kind |-> "alpha", n |-> 2]
rc     == [kind |-> "alpha", n |-> 3]
sep(k) == [kind |-> k, n |-> 0]

one      == <<num(1)>>
oneZero  == <<num(1), sep("dot"), num(0)>>
oneP     == <<num(1), p>>
oneBeta  == <<num(1), beta>>
oneRc    == <<num(1), rc, num(1)>>
oneTilde == <<num(1), sep("tilde"), rc>>
two      == <<num(2)>>
long     == <<num(20)>>
longer   == <<num(21)>>
\* 16:1 and 1:1+p-0, whose epochs upstream_part takes off
epoch    == <<num(16), sep("colon"), num(1)>>
packaged == <<num(1), sep("colon"), num(1), sep("plus"), p, sep("dash"), num(0)>>
onlyRev  == <<sep("dash"), num(1)>>

row(cve, product, score) ==
    [cells |-> 12, cve |-> cve, product |-> product, version |-> <<>>, startIncl |-> <<>>,
     startExcl |-> <<>>, endIncl |-> <<>>, endExcl |-> <<>>, score |-> score, severity |-> ""]

MCLines ==
    {[row(1, "ssl", 7) EXCEPT !.endExcl = one],
     [row(1, "ssl", 4) EXCEPT !.endIncl = oneP, !.severity = "high"],
     [row(2, "ssl", 7) EXCEPT !.startExcl = oneBeta, !.endExcl = long],
     [row(2, "ssl", 9) EXCEPT !.version = one],
     [row(2, "ssl", 0) EXCEPT !.startIncl = oneZero, !.cells = 11],
     [row(1, "web", 3) EXCEPT !.startIncl = oneZero],
     row(2, "web", 0)}

MCAliasFiles ==
    {<<[kind |-> "prefix", pattern |-> <<"lib">>, target |-> "web"],
       [kind |-> "prefix", pattern |-> <<"lib", "ssl">>, target |-> "ssl"],
       [kind |-> "exact", pattern |-> <<"nginx">>, target |-> "web"]>>,
     <<[kind |-> "exact", pattern |-> <<"lib", "ssl">>, target |-> "web"],
       [kind |-> "exact", pattern |-> <<"lib", "ssl">>, target |-> "ssl"],
       [kind |-> "exact", pattern |-> <<"nginx", "space", "esr">>, target |-> "web"]>>}

libssl == <<"lib", "ssl">>
\* "nginx 1.2 (x64) esr x64"
nginx == <<"nginx", "space", "9", "space", "open", "x64", "close", "esr", "space", "x64">>
\* "(lib", a bracket that is never closed
broken == <<"open", "lib">>

MCPackages ==
    [name : {libssl}, version : {one, oneZero, oneP, oneBeta, oneRc, oneTilde, two, longer,
                                 epoch, packaged, onlyRev, <<>>}]
    \cup [name : {nginx}, version : {oneZero, one}]
    \cup [name : {broken}, version : {one}]

MCSocketSets == {{}, {[process |-> libssl, world |-> TRUE], [process |-> nginx, world |-> FALSE]}}
=============================================================================
