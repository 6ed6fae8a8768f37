------------------------------ MODULE MCServer ------------------------------
(* Model-checking instances of Server.                                       *)
EXTENDS Server

CONSTANTS t1, t2

TwoTokens == {t1, t2}

\* Plain decoding on both kinds of caches and with the store that copies,
\* lookup decoding on both kinds, and snapshots that raise.
Conf(trim, lookup, move, size, flaky, req) ==
  [trimmable |-> trim, lookup |-> lookup, move |-> move, size |-> size,
   flaky |-> flaky, req |-> req]
MixedConfs == {Conf(TRUE, FALSE, TRUE, 2, FALSE, 4), Conf(FALSE, FALSE, TRUE, 2, FALSE, 3),
               Conf(FALSE, FALSE, FALSE, 2, FALSE, 3), Conf(TRUE, TRUE, TRUE, 1, FALSE, 3),
               Conf(FALSE, TRUE, TRUE, 1, FALSE, 3), Conf(TRUE, FALSE, TRUE, 1, TRUE, 3),
               Conf(FALSE, FALSE, TRUE, 1, TRUE, 3)}
FlakyConfs == {Conf(TRUE, FALSE, TRUE, 1, TRUE, 3)}

Symmetry == Permutations(TwoTokens)

=============================================================================
