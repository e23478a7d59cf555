-------------------------- MODULE MCScreenSelection --------------------------
(* ScreenSelection with two instances and a few layouts: the laptop's panel  *)
(* alone, an external monitor alone, and the two of them with the panel to   *)
(* the right of the external monitor, listed first or last.                  *)
EXTENDS ScreenSelection

Panel(at) == [name |-> "eDP-1", x |-> at, width |-> 4]
External(at) == [name |-> "DP-1", x |-> at, width |-> 3]

MCLayouts == {<<Panel(0)>>, <<External(0)>>, <<Panel(3), External(0)>>,
              <<External(-3), Panel(0)>>}
MCDefault == [name |-> "eDP-1", x |-> 0, width |-> 5]
=============================================================================
