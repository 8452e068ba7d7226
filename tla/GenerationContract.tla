------------------------ MODULE GenerationContract -------------------------
(***************************************************************************)
(* What the route publication object promises to the code that uses it:    *)
(* a generation takes users only while it is live, is retired once, and is *)
(* stopped once, after it was retired and after its last user has left.    *)
(***************************************************************************)
CONSTANTS Users, Gens

VARIABLES phase, users

cvars == <<phase, users>>

Init ==
    /\ phase = [g \in Gens |-> "live"]
    /\ users = [g \in Gens |-> {}]

Enter(u, g) ==
    /\ phase[g] = "live"
    /\ \A h \in Gens : u \notin users[h]
    /\ users' = [users EXCEPT ![g] = @ \cup {u}]
    /\ UNCHANGED phase

Leave(u, g) ==
    /\ u \in users[g]
    /\ users' = [users EXCEPT ![g] = @ \ {u}]
    /\ UNCHANGED phase

Retire(g) ==
    /\ phase[g] = "live"
    /\ phase' = [phase EXCEPT ![g] = "retired"]
    /\ UNCHANGED users

Stop(g) ==
    /\ phase[g] = "retired" /\ users[g] = {}
    /\ phase' = [phase EXCEPT ![g] = "stopped"]
    /\ UNCHANGED users

Next ==
    \E g \in Gens :
        \/ \E u \in Users : Enter(u, g) \/ Leave(u, g)
        \/ Retire(g) \/ Stop(g)

Spec == Init /\ [][Next]_cvars
=============================================================================
