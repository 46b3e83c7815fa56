--------------------------- MODULE MCPreimageGate ---------------------------
EXTENDS PreimageGate

CONSTANTS w1, w2, p1

Workers  == {w1, w2}
Payments == {p1}

\* Without and with a lifetime; a reload may change one, or set and unset it.
Lifetimes     == {0, 1, 2}
ChangeOnly    == {<<1, 2>>, <<2, 1>>}
ZeroOrOne     == {0, 1}
SetOrUnset    == {<<0, 1>>, <<1, 0>>}

============================================================================
