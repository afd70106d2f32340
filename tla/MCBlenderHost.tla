---------------------------- MODULE MCBlenderHost ----------------------------
EXTENDS BlenderHost, TLC

\* The paths of b1 and b2 end in the same name, which b1's object has.
MCBodiesOf == [f \in Fixtures |-> IF f = "f1" THEN {"b1", "b2"} ELSE {"b3"}]
MCAlike == {<<b, b>> : b \in Bodies} \cup {<<"b2", "b1">>}

\* Long and short; what is found at a sample, of all bodies or of some.
MCRequests == {[fixture |-> "f1", bodies |-> {"b1", "b2"}, samples |-> 2],
               [fixture |-> "f2", bodies |-> {"b3"}, samples |-> 1]}
MCReadings == {("b1" :> Parts @@ "b2" :> {"turn"}), "b1" :> {"place"}, "b3" :> Parts}
=============================================================================
