----------------------------- MODULE Consumers ------------------------------
(***************************************************************************)
(* The readers of the output directory beside the pipeline that rewrites   *)
(* it: compliance exports, runs of phase publish and runs of the ontology  *)
(* gate.  They share the directory and nothing else.                       *)
(***************************************************************************)
EXTENDS Compliance, GraphPublisher, OntologyGate

consumerVars == <<dirVars, complyVars, publishVars, gateVars>>

Init == DirInit(Files) /\ ComplyInit /\ PublishInit /\ GateInit

Write(f) == OpenFile(f) /\ UNCHANGED <<complyVars, publishVars, gateVars>>

EndWrite ==
    /\ CloseFile \/ PipelineDies
    /\ UNCHANGED <<complyVars, publishVars, gateVars>>

Comply(e) == Export(e) /\ UNCHANGED <<dirVars, publishVars, gateVars>>

Upload == (Publish \/ StoreLate) /\ UNCHANGED <<dirVars, complyVars, gateVars>>

Ratchet == Gate /\ UNCHANGED <<dirVars, complyVars, publishVars>>

Next ==
    \/ \E f \in Files : Write(f)
    \/ EndWrite
    \/ \E e \in Exports : Comply(e)
    \/ Upload
    \/ Ratchet

Spec == Init /\ [][Next]_consumerVars
=============================================================================
