------------------------------ MODULE MCWsHub ------------------------------
(* An instance of WsHub for TLC: a cookie jar whose tabs share a pump, and   *)
(* one thing that ends under them, the session or the token.                 *)
EXTENDS WsHub

CONSTANTS c1, c2, u1, s1, t1

VARIABLE ending  \* what may end in this behaviour

TabUpgrades == {Credential(u1, s1, t1)}

TabsInit == Init /\ ending \in {{s1}, {t1}}
TabsNext == /\ UNCHANGED ending
            /\ Next
            /\ {s \in Session : row'[s] # "live"} \cup dead' \subseteq ending
TabsSpec == TabsInit /\ [][TabsNext]_<<vars, ending>> /\ Fairness
=============================================================================
