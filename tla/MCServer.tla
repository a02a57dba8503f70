------------------------------ MODULE MCServer ------------------------------
(* Small instances of Server for TLC: which wires the connections speak.   *)
EXTENDS Server, TLC

CONSTANTS w1, l1, s1

OneWs  == w1 :> "ws"
WsSse  == w1 :> "ws" @@ s1 :> "sse"
WsLine == w1 :> "ws" @@ l1 :> "line"

SymIds == Permutations(Ids)
=============================================================================
