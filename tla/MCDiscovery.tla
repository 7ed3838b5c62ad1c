---------------------------- MODULE MCDiscovery ----------------------------
EXTENDS Discovery
CONSTANTS e1, e2, i1, i2

\* One endpoint that changes its info, and one that never does.
MCAdvert == {[id |-> e1, info |-> i1], [id |-> e1, info |-> i2], [id |-> e2, info |-> i1]}

MCOptional == {[allowed |-> {"BLUETOOTH", "BLE", "WIFI_LAN"}, low |-> TRUE],
               [allowed |-> {"BLE", "BLUETOOTH", "WEB_RTC"}, low |-> FALSE]}
=============================================================================
