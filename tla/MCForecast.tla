--------------------------- MODULE MCForecast ---------------------------
(* Instance of Forecast: days of two hours, one with sun; weather that     *)
(* predicts much and weather that predicts little.                         *)
EXTENDS Forecast

MCClearSky == [h \in 0..1 |-> IF h = 0 THEN 1000 ELSE 0]
MCWeathers == {[cloud |-> 10, sun |-> 900], [cloud |-> 90, sun |-> 0]}
MCNoCloud == -1
MCPast == [t \in Times |-> IF t = 0 THEN [cloud |-> 10, sun |-> 900] ELSE [cloud |-> 90, sun |-> 0]]
=============================================================================
