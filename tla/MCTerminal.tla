------------------------------ MODULE MCTerminal ------------------------------
(* What an operator may press, one part of the terminal at a time. *)
EXTENDS Terminal

CONSTANTS p, q, u, v, h1, h2

MCTopics == <<"motion", "tamper">>
MCFirst ==
    [rows |-> [events |-> MCTopics, media |-> <<p, q>>, auth |-> <<u, v>>],
     on |-> {"motion"}, mode |-> "Discoverable"]

Alone(keys, n) ==
    [up |-> FALSE, keys |-> keys, presses |-> n, by |-> {}, requests |-> 0]
Beside(keys, n, clients, m) ==
    [up |-> TRUE, keys |-> keys, presses |-> n, by |-> clients, requests |-> m]

\* Users deleted while a client removes and adds some; the log filled by two clients and
\* cleared; start, stop and quit while they wait; then the prompts, forms, topics, searches,
\* controls of the device and the start and stop of the simulator without clients.
MCScenarios ==
    {Beside({"4", "d", "y", "down", "r"}, 5, {h1}, 1),
     Beside({"6", "c"}, 3, {h1, h2}, 3),
     Beside({"s", "q"}, 3, {h1, h2}, 2),
     Alone({"3", "d", "left", "enter", "n", "up", "down"}, 6),
     Alone({"3", "4", "a", "e", "t", "enter", "esc"}, 4),
     Alone({"2", "enter", "space", "y", "right", "left", "tab"}, 5),
     Alone({"2", "down", "space", "enter"}, 5),
     Alone({"6", "/", "c", "esc"}, 5),
     Alone({"5", "left", "right", "r", "tab", "shift+tab"}, 3),
     Alone({"s", "r", "q"}, 4)}
=============================================================================
