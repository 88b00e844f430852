--------------------------- MODULE MCRegexSearch ----------------------------
EXTENDS RegexSearch

Lit(bytes) == [kind |-> "literal", bytes |-> bytes]
Class(class) == [kind |-> "bytes", class |-> class]
Rep(sub, min, max) == [kind |-> "repetition", sub |-> sub, min |-> min, max |-> max]
Concat(subs) == [kind |-> "concat", subs |-> subs]
Or(subs) == [kind |-> "alternation", subs |-> subs]
Capture(sub) == [kind |-> "capture", sub |-> sub]

a == Lit(<<"a">>)
b == Lit(<<"b">>)
c == Lit(<<"c">>)

\* aa*b, whose runs end alike; a*b, which comes back to its initial state;
\* a[ab]b, whose chains go through two states.
Searched == {Concat(<<a, Rep(a, 0, Unbounded), b>>), Concat(<<Rep(a, 0, Unbounded), b>>),
             Concat(<<a, Class({"a", "b"}), b>>)}

\* The patterns of tests/match.rs: ab?c and ab{1,3}c.  (a|b)*a(a|b), which needs
\* sets of states; (ab|a)(c|bc), with words read in two ways; (a?){0,2} and
\* (a|b{2,})*, with loops of nothing; classes of code points of one and two
\* bytes; a class of nothing.
Others ==
  {Concat(<<a, Rep(b, 0, 1), c>>),
   Concat(<<a, Rep(b, 1, 3), c>>),
   Concat(<<Rep(Capture(Or(<<a, b>>)), 0, Unbounded), a, Or(<<a, b>>)>>),
   Concat(<<Capture(Or(<<Lit(<<"a", "b">>), a>>)), Or(<<c, Lit(<<"b", "c">>)>>)>>),
   Rep(Rep(a, 0, 1), 0, 2),
   Rep(Or(<<a, Rep(b, 2, Unbounded), [kind |-> "empty"]>>), 0, Unbounded),
   Concat(<<[kind |-> "unicode", points |-> <<<<"a">>, <<"b", "a">>, <<"b", "c">>, <<"c", "a">>>>], c>>),
   Rep([kind |-> "unicode", points |-> <<<<"a", "a">>, <<"a", "b">>, <<"b", "a">>>>], 1, 2),
   Concat(<<a, Class({})>>)}

MCHirs == Searched \cup Others

\* Where the leaves of a zone are: first address, bytes, first and last time.
\* As DisjointPass leaves them: an address that is known stays known to the end.
\* In order: a fork at the last byte; a start that changes; two forks, of which
\* one goes on in the same leaf; a byte unknown at first; leaves that overlap in
\* time; bytes that all change, so that neighbours are not in memory together;
\* leaves of two and three bytes, in which several runs start.
Layouts ==
  {{<<0, 2, 0, 1>>, <<2, 1, 0, 0>>, <<2, 1, 1, 1>>},
   {<<0, 1, 0, 0>>, <<0, 1, 1, 1>>, <<1, 2, 0, 1>>},
   {<<0, 1, 0, 1>>, <<1, 1, 0, 0>>, <<1, 1, 1, 1>>, <<2, 1, 0, 1>>},
   {<<0, 1, 0, 1>>, <<1, 1, 1, 1>>, <<2, 1, 0, 1>>},
   {<<0, 1, 0, 1>>, <<0, 1, 2, 2>>, <<1, 1, 1, 2>>, <<2, 1, 0, 2>>},
   {<<0, 1, 0, 0>>, <<0, 1, 1, 1>>, <<1, 1, 0, 0>>, <<1, 2, 1, 1>>},
   {<<0, 3, 0, 0>>, <<0, 2, 1, 1>>, <<2, 1, 1, 1>>}}

Zones(layouts, bytes) == UNION {S!Filled(layout, bytes) : layout \in layouts}

\* One zone of every layout for the first patterns; two zones, the second of
\* them at addresses the first has no bytes at; and memories of three bytes for every pattern.
MCJobs ==
  [hir : Searched, db : {<<z>> : z \in Zones(Layouts, {"a", "b"})}]
    \cup [hir : Searched, db : {<<z, w>> : z \in Zones({{<<0, 1, 0, 1>>, <<1, 1, 1, 1>>}}, {"a", "b"}),
                                          w \in Zones({{<<5, 2, 0, 0>>}}, {"a", "b"})}]
    \cup [hir : Others, db : {<<z>> : z \in Zones({{<<0, 2, 0, 1>>, <<2, 1, 0, 0>>, <<2, 1, 1, 1>>}}, {"a", "b", "c"})}]
=============================================================================
