---------------------------- MODULE MCStandalone ----------------------------
(* Small instances of the components of Standalone. *)
EXTENDS Standalone

\* Two symbols that differ in a character that file names do not keep.
ThreeStreams == {"L2 BTC-USD", "L2 BTC_USD", "OBS BTC-USD"}
OneObs == {"OBS BTC-USD"}
FileKey == [s \in ThreeStreams |-> IF s \in OneObs THEN s ELSE "L2 BTC_USD"]

\* 1 is dust where EPSILON is 2; 4 after -3 leaves dust, 5 turns around.
SomeQuantities == {-4, -3, -1, 3, 5}
TwoPrices == {1, 2}
AFeeAndARebate == {1, -1}
=============================================================================
