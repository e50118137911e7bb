------------------------------ MODULE MCHttpCache ------------------------------
\* The instance of HttpCache that TLC checks.
EXTENDS HttpCache, TLC

CONSTANTS t1, t2, a, b

MCThreads == {t1, t2}
MCUrls == {a, b}
MCBodyLen == (a :> <<2, 1>>) @@ (b :> <<0>>)
H(tagged, cc) == [tagged |-> tagged, cc |-> cc]
MCHeaders == (a :> {H(TRUE, "no-cache"), H(TRUE, "max-age"), H(TRUE, "no-store")})
             @@ (b :> {H(FALSE, "none")})
MCCut == (a :> {1}) @@ (b :> {})
Symmetry == Permutations(MCThreads)

=============================================================================
