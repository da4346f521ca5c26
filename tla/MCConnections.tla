--------------------------- MODULE MCConnections ----------------------------
(* The two ends of the wire on small instances: the requests the gate lets out   *)
(* to one host, and the panel with its stream, its requests and what it keeps of  *)
(* quotes, charts and samples.  They share no state here, so a behaviour runs one *)
(* part while the others rest.                                                    *)
EXTENDS HostGate, PanelCharts, PanelSamples, TLC

CONSTANTS Parts, j1, j2, j3

VARIABLE part

PartsInit == part \in Parts /\ GateInit /\ ChartsInit /\ SamplesInit

PartsNext ==
    /\ UNCHANGED part
    /\ IF part = "gate" THEN GateNext ELSE UNCHANGED vars
    /\ CASE part = "charts"  -> ChartsNext /\ UNCHANGED sampleVars
         [] part = "samples" -> SamplesNext /\ UNCHANGED chartVars
         [] part = "gate"    -> UNCHANGED <<panelVars, sampleVars>>

PartsSpec == PartsInit /\ [][PartsNext]_<<part, vars, panelVars, sampleVars>>

Symmetry == Permutations(Jobs \ Timed)

Rank(j) == Cardinality({k \in waiting : seqNo[k] < seqNo[j]})

\* As in MCTasks: only the age of waiting jobs matters.
GateView == <<[j \in waiting |-> <<prio[j], Rank(j)>>], running, stage, outcome,
              burst, closed, wake, draining, overdue, ready, bypassed, gateVars>>

View == CASE part = "gate"    -> GateView
          [] part = "charts"  -> panelVars
          [] part = "samples" -> samplesVars
=============================================================================
