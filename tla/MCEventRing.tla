---------------------------- MODULE MCEventRing ----------------------------
(* Small instances of EventRing: a ring of three slots, windows of one to   *)
(* four ticks, request and token limits, alone and combined.               *)
EXTENDS EventRing

Lim(unit, window, max) == [unit |-> unit, window |-> window, max |-> max]

MCQuotas == { {},
              {Lim("requests", 2, 2)},
              {Lim("tokens", 2, 3), Lim("requests", 4, 0)},
              {Lim("requests", 1, 1), Lim("tokens", 4, 4)},
              {Lim("requests", 4, 3), Lim("tokens", 1, 2)} }

=============================================================================
