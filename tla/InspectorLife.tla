---------------------------- MODULE InspectorLife ----------------------------
(***************************************************************************)
(* What an Inspector promises: its sessions follow one another, each one   *)
(* is attached, may become active, and ends; when a session is over, the   *)
(* thread of its debug worker has been joined.                             *)
(***************************************************************************)
EXTENDS Naturals

VARIABLES
    life,     \* "idle", "attaching", "active" or "stopping"
    session,  \* number of the last session that was started
    reaped    \* sessions that left no thread behind

lifeVars == <<life, session, reaped>>

LifeInit == life = "idle" /\ session = 0 /\ reaped = {}

\* attach: a session starts, or fails before it has a worker.
Start ==
    /\ life = "idle" /\ session' = session + 1
    /\ \/ life' = "attaching" /\ reaped' = reaped
       \/ life' = "idle" /\ reaped' = reaped \cup {session'}

Activate == life = "attaching" /\ life' = "active" /\ UNCHANGED <<session, reaped>>

\* Anything that ends a session: a detach, a failed attach, a failed worker.
Stop ==
    /\ life \in {"attaching", "active"} /\ life' = "stopping"
    /\ UNCHANGED <<session, reaped>>

\* The session is over, at once or after it was stopping.
End ==
    /\ life # "idle" /\ life' = "idle"
    /\ reaped' = reaped \cup {session}
    /\ UNCHANGED session

LifeNext == Start \/ Activate \/ Stop \/ End

LifeSpec == LifeInit /\ [][LifeNext]_lifeVars
=============================================================================
