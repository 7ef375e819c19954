----------------------------- MODULE MCCapacity -----------------------------
(* Three requests for the last units, in combinations of channels in which  *)
(* a web order meets every channel, another web order included.             *)
EXTENDS Capacity
CONSTANTS o1, o2, o3
MCOrders == {o1, o2, o3}
Mix(a, b, c) ==
  [o \in MCOrders |-> CASE o = o1 -> a [] o = o2 -> b [] o = o3 -> c]
MCMixes ==
  {Mix("WEB", "WEB", "POS")} \cup
  {Mix("WEB", "QR", c) : c \in {"POS", "COMP"}}
MCWeb == {Mix("WEB", "WEB", "WEB")}
=============================================================================
