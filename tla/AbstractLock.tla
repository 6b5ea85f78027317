----------------------------- MODULE AbstractLock -----------------------------
(***************************************************************************)
(* What a lock with leases promises its users: at most one task is inside, *)
(* the owner; ownership that outlives its task (a crash, a lost reply) may *)
(* end at any time, ownership of a task that is inside may not.            *)
(***************************************************************************)
CONSTANTS Tasks, Claims, NoClaim

VARIABLES
    owner,   \* the claim that owns the lock
    inside   \* task -> the claim under which it is inside, or NoClaim

absVars == <<owner, inside>>

AbsInit ==
    /\ owner = NoClaim
    /\ inside = [t \in Tasks |-> NoClaim]

\* A claim becomes the owner; its task enters, or never hears of it.
Enter(t, k) ==
    /\ owner = NoClaim
    /\ inside[t] = NoClaim
    /\ owner' = k
    /\ inside' = [inside EXCEPT ![t] = k]

Claim(k) ==
    /\ owner = NoClaim
    /\ owner' = k
    /\ UNCHANGED inside

\* A task gives the lock back as it leaves, or leaves without giving it back.
Leave(t) ==
    /\ inside[t] # NoClaim
    /\ owner' = NoClaim \/ owner' = owner
    /\ inside' = [inside EXCEPT ![t] = NoClaim]

\* Some tasks die.
Abandon(dead) ==
    /\ inside' = [t \in Tasks |-> IF t \in dead THEN NoClaim ELSE inside[t]]
    /\ UNCHANGED owner

\* Ownership lapses, of a claim under which nobody is inside.
Lapse ==
    /\ \A t \in Tasks : inside[t] # owner
    /\ owner' = NoClaim
    /\ UNCHANGED inside

AbsNext ==
    \/ \E t \in Tasks, k \in Claims : Enter(t, k)
    \/ \E k \in Claims : Claim(k)
    \/ \E t \in Tasks : Leave(t)
    \/ \E dead \in SUBSET Tasks : Abandon(dead)
    \/ Lapse

AbsSpec == AbsInit /\ [][AbsNext]_absVars
=============================================================================
