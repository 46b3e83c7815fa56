--------------------------- MODULE MCTenantFunds ---------------------------
EXTENDS TenantFunds

CONSTANTS w1, w2, t1, t2, alice, bob

Workers == {w1, w2}
Tokens  == {t1, t2}
Tenants == {alice, bob}

\* One worker, one token and one tenant's route beside the default one, and
\* melts of whole groups.
Standard == [p2pk |-> FALSE, redis |-> TRUE, workers |-> {w1}, tokens |-> {t1},
             addresses |-> {alice, Default}, faults |-> {}, restarts |-> 0,
             minimum |-> 1, reserve |-> 0, limit |-> 0, msat |-> {}]
Direct   == [Standard EXCEPT !.p2pk = TRUE, !.tokens = Tokens]

\* Requests that race for a token, tokens that share a cycle, one melt at a time,
\* and every fault, crash and restart that does not write a mapping over another.
Racing == {[Standard EXCEPT !.workers = Workers],
           [Direct EXCEPT !.workers = Workers, !.addresses = Address, !.restarts = 1]}
Faulty == {[Standard EXCEPT !.faults = {"map", "reply", "crash"}, !.restarts = 1],
           [Direct EXCEPT !.addresses = Address, !.faults = {"reply", "crash"}, !.restarts = 1,
                          !.limit = 1]}

\* What the wallet keeps: one route, operations whose sagas outlive them, and
\* starts that find what a crash or a lost answer left.
Alone == {alice}
Left  == {[Standard EXCEPT !.addresses = Alone, !.faults = {"reply", "crash", "saga"}, !.restarts = 1],
          [Standard EXCEPT !.addresses = Alone, !.workers = Workers, !.faults = {"saga"},
                           !.restarts = 1],
          [Direct EXCEPT !.addresses = Alone, !.faults = {"reply", "crash", "saga"}, !.restarts = 1,
                         !.limit = 1],
          [Direct EXCEPT !.addresses = Alone, !.faults = {"reply", "saga"}, !.restarts = 2,
                         !.msat = {t2}]}

Safe == Racing \cup Faulty \cup Left

\* For liveness: P2PK through outages of Redis, with two addresses, with sagas
\* that outlive their melts and a restart, and with groups that fall short of the
\* minimum or of the reserve, or are in msat.
Calm == {Direct,
         [Direct EXCEPT !.addresses = Alone, !.faults = {"saga"}, !.restarts = 1],
         [Direct EXCEPT !.minimum = 2, !.limit = 1],
         [Direct EXCEPT !.reserve = 1, !.msat = {t2}]}

============================================================================
