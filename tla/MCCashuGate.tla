---------------------------- MODULE MCCashuGate ----------------------------
EXTENDS CashuGate

CONSTANTS w1, w2, t1, t2, t3, a, b

Workers == {w1, w2}
Tokens  == {t1, t2, t3}
Proofs  == {a, b}

\* Sets that share a proof, which only the mint's swap tells apart, and two
\* encodings of one set, which only its proof key unites.  One proof is enough
\* for a marker to lapse on.
Overlapping == t1 :> {a} @@ t2 :> {a, b} @@ t3 :> {b}
Reencoded   == t1 :> {a, b} @@ t2 :> {a, b}
Single      == t1 :> {a} @@ t2 :> {a}

\* Proofs as a payment request asks for them, and what else a payer may send.
Asked  == [lock |-> "ours", dleq |-> "valid", signed |-> TRUE]
Plain  == [Asked EXCEPT !.lock = "none"]
Others == {k \in ProofKinds : k # Asked}

Standard    == [p2pk |-> FALSE, redis |-> TRUE, lasting |-> TRUE, dleq |-> TRUE,
                contents |-> Overlapping, proof |-> a :> Plain @@ b :> Plain]
P2pkRedis   == [Standard EXCEPT !.p2pk = TRUE, !.contents = Reencoded,
                                !.proof = a :> Asked @@ b :> Asked]
P2pkAlone   == [P2pkRedis EXCEPT !.redis = FALSE]
P2pkShort   == [P2pkRedis EXCEPT !.lasting = FALSE, !.contents = Single]
\* One of two proofs is not as asked for, in either mode.
Mixed       == {[d EXCEPT !.contents = t1 :> {a, b}, !.dleq = rule,
                          !.proof = a :> @[a] @@ b :> k] :
                   d \in {Standard, P2pkRedis}, rule \in BOOLEAN, k \in Others}
MCDeployments == {Standard, P2pkRedis, P2pkShort, P2pkAlone} \cup Mixed

============================================================================
