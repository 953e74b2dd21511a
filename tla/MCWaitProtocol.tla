--------------------------- MODULE MCWaitProtocol ---------------------------
(* Small instances of WaitProtocol for TLC.                                *)
EXTENDS WaitProtocol, TLC

CONSTANTS w1, w2, e1, e2, g1, g2, gate, ask, agent, done

\* A human task or an agent, then a signal, then the end; only g1 is awaited.
GateSteps == {ask, agent, gate, done}
GateKind == ask :> "humanTask" @@ agent :> "externalSession" @@ gate :> "signal" @@ done :> "end"
GateTransitions == ask :> {agent, gate} @@ agent :> {gate} @@ gate :> {done} @@ done :> {}
GateTimeouts == ask :> gate
GateKeys == ask :> ask @@ agent :> agent @@ gate :> gate @@ done :> done
GateAwaits == ask :> {} @@ agent :> {} @@ gate :> {g1} @@ done :> {}
Agents == {agent}

\* Sound for the runs that check no liveness: nothing tells the two workers apart, nor
\* the two passes of the expiry.
Symmetry == Permutations({w1, w2}) \cup Permutations({e1, e2})

\* An agent that is asked again and again.
LoopTransitions == ask :> {agent} @@ agent :> {agent, done} @@ gate :> {done} @@ done :> {}
=============================================================================
