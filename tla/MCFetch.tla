------------------------------ MODULE MCFetch -------------------------------
EXTENDS Fetch

\* Zones 0..2 and 5..6, the second of which may be missing.  As DisjointPass
\* leaves them: an address that is known stays known to the end.  In the first, in
\* order: a byte that changes next to one that does not; a hole that is filled
\* later; leaves that overlap in time; a long leaf that is cut in two; nothing
\* before the second time.
Layouts ==
  {{<<0, 2, 0, 2>>, <<2, 1, 0, 0>>, <<2, 1, 1, 2>>},
   {<<0, 1, 0, 2>>, <<1, 1, 2, 2>>},
   {<<0, 1, 0, 1>>, <<0, 1, 2, 2>>, <<1, 1, 1, 2>>, <<2, 1, 0, 2>>},
   {<<0, 3, 0, 0>>, <<0, 1, 1, 2>>, <<1, 1, 1, 2>>, <<2, 1, 1, 2>>},
   {<<1, 2, 1, 2>>}}

MCDatabases ==
  {<<z>> : z \in UNION {Filled(layout, {"a", "b"}) : layout \in Layouts}}
    \cup {<<z, w>> : z \in UNION {Filled(layout, {"a", "b"}) : layout \in Layouts},
                     w \in Filled({<<5, 1, 1, 1>>, <<6, 1, 1, 2>>, <<5, 1, 2, 2>>}, {"a", "b"})}
=============================================================================
