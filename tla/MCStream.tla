------------------------------- MODULE MCStream -------------------------------
(***************************************************************************)
(* A stream's way through the server, part by part: bytes into frames      *)
(* (Framing), frames into windows (Cadence), windows into events under the *)
(* backpressure controller (Analysis), messages out to the observers and   *)
(* the KCP peer (Fanout).  The parts share no state here, so a behaviour   *)
(* runs one of them and the others stay in their initial states.           *)
(***************************************************************************)
EXTENDS Framing, Cadence, Analysis, Fanout, TLC

CONSTANTS e1, e2, o1, o2, c1, c2

MCPackets == {<<"hello">>, <<"badhello">>, <<"close", "frame">>}

MCMessages ==
  {[type |-> t, form |-> "B", size |-> 0] : t \in {"other", "noise", "empty", "frame"}}
  \cup {[type |-> "frame", form |-> "A", size |-> 1], [type |-> "frame", form |-> "B", size |-> 2],
        [type |-> "frame", form |-> "B", size |-> 3]}

MCStride == 0 :> 4 @@ 1 :> 7

MCMaxFrames == 0 :> 3 @@ 1 :> 2

MCSpans == {<<0, 1>>}

VARIABLE part

MCInit ==
  /\ part \in {"framing", "cadence", "analysis", "fanout"}
  /\ IF part = "framing" THEN FramingInit ELSE stream = <<>> /\ arrived = 0 /\ framer = NewFramer
  /\ CadenceInit /\ Init /\ AnalysisInit /\ FanoutInit

MCNext ==
  \/ /\ part = "framing" /\ FramingNext
     /\ UNCHANGED <<cadenceVars, vars, analysisVars, deliveryVars>>
  \/ /\ part = "cadence" /\ CadenceNext
     /\ UNCHANGED <<framingVars, vars, analysisVars, deliveryVars>>
  \/ /\ part = "analysis" /\ AnalysisNext
     /\ UNCHANGED <<framingVars, cadenceVars, deliveryVars>>
  \/ /\ part = "fanout" /\ FanoutNext
     /\ UNCHANGED <<framingVars, cadenceVars, vars, analysisVars>>

MCSpec == MCInit /\ [][MCNext /\ UNCHANGED part]_<<part, framingVars, cadenceVars, vars,
                                                   analysisVars, deliveryVars>>

MCSym ==
  {f @@ g @@ h : f \in Permutations({e1, e2}), g \in Permutations({o1, o2}),
                 h \in Permutations({c1, c2})}
===============================================================================
