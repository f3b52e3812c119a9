------------------------------- MODULE MCTool -------------------------------
(* Values of the constants of Tool for TLC.                                *)
EXTENDS Tool, TLC

\* Contents of the registers, by block: strings absent (all ones) or large,
\* power in both directions at the threshold of grid_in_out, battery errors in
\* one half or the other, meter registers within and beyond the short reads.
Mains ==
    {(5 :> a) @@ (6 :> b) @@ (13 :> 255) @@ (14 :> 255) @@ (17 :> 255) @@ (18 :> 254)
        @@ (20 :> 18) @@ (40 :> p) @@ (82 :> 255) @@ (83 :> 240) @@ (87 :> 1) @@ (90 :> 5) :
        a \in {0, 255}, b \in {255}, p \in {89, 90, 165, 166}}
Batteries ==
    {(3 :> 127) @@ (6 :> l) @@ (7 :> 55) @@ (12 :> h) @@ (23 :> 255) :
        l \in {1, 255}, h \in {0, 2}}
Meters == (44 :> 3) @@ (45 :> 255) @@ (46 :> 250) @@ (57 :> 9) @@ (95 :> 4) @@ (123 :> 6)
Mppts == (1 :> 77) @@ (26 :> 5)

Device(w, s) == [serial |-> "sn", model |-> s.mppt = 0, rated |-> 10000, served |-> s, words |-> w]
Full == [main |-> 125, battery |-> 24, meter |-> 125, mppt |-> 61]
SomeMain == CHOOSE w \in Mains : TRUE
SomeBattery == CHOOSE w \in Batteries : TRUE

MCDevices ==
    {Device([main |-> w, battery |-> SomeBattery, meter |-> Meters, mppt |-> Mppts], Full) : w \in Mains}
    \cup {Device([main |-> SomeMain, battery |-> w, meter |-> Meters, mppt |-> Mppts], Full) : w \in Batteries}
    \cup {Device([main |-> SomeMain, battery |-> SomeBattery, meter |-> Meters, mppt |-> Mppts], s) :
            s \in [main: {125}, battery: {0, 24}, meter: {0, 45, 58, 125}, mppt: {0, 61}]}
MCProbes ==
    {[busy |-> FALSE, dtls |-> d, serial |-> s] : d \in BOOLEAN, s \in {"", "Solar-sn", "other"}}
    \cup {[busy |-> TRUE, dtls |-> TRUE, serial |-> "Solar-sn"]}
MCETSerials == {"Solar-sn"}
MCRequested == {<<>>, <<"battery_soc">>, <<"meter_current3", "unknown">>, <<"ppv", "battery_soc">>}
=============================================================================
