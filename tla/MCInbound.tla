------------------------------ MODULE MCInbound ------------------------------
(* Bounds for TLC: a user of the keyboard, one of the mouse and Ctrl at     *)
(* each gain, and one of two buttons and two keys.                          *)
EXTENDS Inbound

MCGains == {<<1, 1>>, <<3, 2>>}

MCUsers ==
  {[keys |-> Keys, buttons |-> {}, spots |-> {}, gain |-> <<1, 1>>],
   [keys |-> {"lctrl", "a"}, buttons |-> {"left", "x2"}, spots |-> {1},
    gain |-> <<1, 1>>]}
    \cup [keys : {{"lctrl"}}, buttons : {{}}, spots : {Positions}, gain : MCGains]
============================================================================
