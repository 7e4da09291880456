------------------------------- MODULE MCSession -------------------------------
(***************************************************************************)
(* The session under TLC.  A behaviour looks at one side of it, chosen at  *)
(* the start:                                                              *)
(*   threads     the program and the poll thread with their locks          *)
(*   setup       sessions created, left and created again, with failures   *)
(*   collisions  the addresses that use our SSRC                           *)
(***************************************************************************)
EXTENDS RtpSession, SessionSetup, RtpCollisionList

VARIABLE focus

\* Two delays, as for two report intervals; the session starts no sooner than both.
MCTimeoutDelay == {[sec |-> 0, microsec |-> 2], [sec |-> 1, microsec |-> 1]}
MCStartTime == [sec |-> 1, microsec |-> 1]

-----------------------------------------------------------------------------
MCInit ==
    /\ focus \in {"threads", "setup", "collisions"}
    /\ Init /\ SetupInit /\ CollisionInit
    /\ focus # "setup" => size["session"] = MinSize

MCNext ==
    /\ UNCHANGED focus
    /\ \/ focus = "threads" /\ Next /\ UNCHANGED <<setupvars, collisionvars>>
       \/ focus = "setup" /\ SetupNext /\ UNCHANGED <<vars, collisionvars>>
       \/ focus = "collisions" /\ CollisionNext /\ UNCHANGED <<vars, setupvars>>

\* Fairness of the two threads alone.
MCSpec ==
    /\ MCInit
    /\ [][MCNext]_<<focus, vars, setupvars, collisionvars>>
    /\ WF_vars(focus = "threads" /\ Main)
    /\ WF_vars(focus = "threads" /\ PollThread)
    /\ WF_vars(focus = "threads" /\ ByeDone)
=============================================================================
