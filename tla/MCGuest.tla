------------------------------ MODULE MCGuest ------------------------------
(* Guest with short histories of one sender and those who follow his links. *)
EXTENDS Guest

CONSTANTS u1, u2

MCStart(kinds, limits, hints, orders, f) ==
    [kind : {kinds}, limit : {limits}, hint : {hints}, polling : orders, faults : f]

MCName == [m \in 1..Last |-> "username"]
MCId   == [m \in 1..Last |-> u1]
MCTwo  == [m \in 1..Last |-> IF m = 1 THEN "username" ELSE u1]

\* The race of two presses; a secret for a request; one for the second of two requests,
\* one for a request that is reused; /cancel.
MCStarts ==
    MCStart(<<"instant", "open", "open">>, <<1, 1, 1>>, MCName, {FALSE}, {{"crash"}})
    \union MCStart(<<"envelope", "secret", "open">>, <<1, 2, 2>>, MCId, {TRUE}, {{"crash"}, {"database"}})
    \union MCStart(<<"envelope", "envelope", "secret">>, <<1, 1, 2>>, MCTwo, {TRUE}, {{"crash"}})
    \union MCStart(<<"envelope", "envelope", "secret">>, <<1, 1, 1>>, MCId, {FALSE}, {{}})
    \union MCStart(<<"instant", "cancel", "open">>, <<2, 1, 1>>, MCId, {FALSE}, {{"crash"}})

MCReuse == MCStart(<<"envelope", "envelope", "open">>, <<1, 1, 1>>, MCId, {TRUE}, {{}})
=============================================================================
