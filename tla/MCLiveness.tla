------------------------------ MODULE MCLiveness -----------------------------
(* The two places where a caller may wait, under fair scheduling, in scenes of      *)
(* their own: the writer lock (two tool calls of a server on one connection and a   *)
(* command on its own), and start_next_work and claim_next calls whose candidates   *)
(* others keep claiming.                                                            *)
EXTENDS MCStartWork, WriterLock

CONSTANTS toolA, toolB, command, server, shell

MCConnOf == [t \in {toolA, toolB, command} |-> IF t = command THEN shell ELSE server]

MCTask == {toolA, toolB, command}
MCConn == {server, shell}

(* The first tool call goes on after a call that raised; the others make one call.  *)
MCCalls == [t \in {toolA, toolB, command} |->
    IF t = toolA THEN [count |-> 2, kinds |-> {"decorated", "hand", "plain", "bare"}]
    ELSE [count |-> 1, kinds |-> {"decorated", IF t = command THEN "plain" ELSE "hand"}]]

waitingVars == <<writerVars, sceneVars>>

WaitingInit == WriterInit /\ CallInit /\ scene \in {"writing", "picking"}
WaitingNext ==
    /\ UNCHANGED scene
    /\ \/ scene = "writing" /\ WriterNext /\ UNCHANGED callVars
       \/ scene = "picking" /\ SnatchNext /\ UNCHANGED writerVars

(* Each scene schedules its own callers only: the other scene's never move.         *)
WaitingSpec ==
    /\ WaitingInit /\ [][WaitingNext]_waitingVars
    /\ Fairness
    /\ \A t \in Task : WF_writerVars(scene = "writing" /\ Step(t))
=============================================================================
