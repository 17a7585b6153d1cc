--------------------------- MODULE MCAccountBooks ---------------------------
(* A purchase of the whole position and its sale, for TLC.                  *)
EXTENDS AccountBooks

Order(strategy, side, quantity) == [strategy |-> strategy, side |-> side, quantity |-> quantity]
RoundTrip == [a |-> Order("s1", "BUY", 20), b |-> Order("s1", "SELL", 20)]

OneCourse == {[orders |-> {"a", "b"}, actions |-> 1, days |-> 0, trials |-> 0]}
=============================================================================
