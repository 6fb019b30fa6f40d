------------------------- MODULE MCDelegatedAccount -------------------------
\* A small instance of DelegatedAccount: the account that owns the XLM, two
\* contracts below it and two accounts.
EXTENDS DelegatedAccount

CONSTANTS l1, l2, asset, outer, inner

MCLeaves == {l1, l2}
MCNodes == {asset, outer, inner}

\* No delegate, one, two in both orders, the same one twice, a chain, a
\* fork, and through inner and outer every kind of cycle.
MCLists ==
  {<<>>, <<l1>>, <<l1, l2>>, <<l2, l1>>, <<l1, l1>>, <<inner>>, <<outer>>,
   <<inner, l1>>, <<outer, inner>>}
=============================================================================
