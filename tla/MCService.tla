----------------------------- MODULE MCService -----------------------------
(* Instances of Service for TLC. *)
EXTENDS Service

CONSTANTS put, del, get, other, k1, k2

TwoKeys == {k1, k2}
Writes == {put, del}
JustPut == {put}
PutGet == {put, get}
Others == {other}
NoOthers == {}

Ops == [c \in Request \cup Foreign |->
          IF c = get THEN "get" ELSE IF c = del THEN "delete" ELSE "put"]
Keys == [c \in Request \cup Foreign |-> IF c = other THEN k2 ELSE k1]
=============================================================================
