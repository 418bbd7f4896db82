---------------------------- MODULE CachePromise ----------------------------
(***************************************************************************)
(* What kpmenu's cache promises its user when it is not a daemon.  Between *)
(* calls the database is kept.  A call finds it open exactly if the call   *)
(* allows the cache and comes within its own timeout of the start of the   *)
(* lease, and then renews the lease unless it asks for the cache one time  *)
(* only.  Any other call finds it locked.  The lease starts with the       *)
(* process, not with the password, and opening does not renew it.          *)
(*                                                                         *)
(* A locked database is unlocked by the password given to the call, or by a*)
(* key that takes none.  The process remembers a password that has opened  *)
(* it, though, and with that one the database is opened again for a user   *)
(* who gives none, within the lease or not.                                *)
(***************************************************************************)
EXTENDS Naturals

CONSTANT Calls      \* what calls ask for: nocache, cacheOneTime, cacheTimeout

VARIABLES
    phase,          \* "locked", "serving", "kept" between calls, or "gone"
    lease,          \* when the lease started
    password,       \* "given" to this call, "remembered" from another, or "none"
    call,           \* what the call in progress, or the last one, asks for
    now

promiseVars == <<phase, lease, password, call, now>>

Init ==
    /\ phase = "locked"
    /\ now \in Nat /\ lease \in Nat
    /\ call \in Calls
    /\ ~call.nocache => lease = now
    /\ password = "none"

Leased == ~call.nocache /\ now < lease + call.cacheTimeout

\* A password is typed, or comes with the call.
Give ==
    /\ phase = "locked"
    /\ password' = "given"
    /\ UNCHANGED <<phase, lease, call, now>>

\* A key takes the place of a password.
Forget ==
    /\ phase = "locked"
    /\ password = "remembered"
    /\ password' = "none"
    /\ UNCHANGED <<phase, lease, call, now>>

\* What this call was given is accepted, and remembered.
Unlock ==
    /\ phase = "locked"
    /\ password # "remembered"
    /\ phase' = "serving"
    /\ password' = IF password = "given" THEN "remembered" ELSE "none"
    /\ UNCHANGED <<lease, call, now>>

\* This call was given no password: that of an earlier one is taken.
Reopen ==
    /\ phase = "locked"
    /\ password = "remembered"
    /\ phase' = "serving"
    /\ UNCHANGED <<lease, password, call, now>>

\* The call ends and the process goes on.
Keep ==
    /\ phase = "serving"
    /\ phase' = "kept"
    /\ UNCHANGED <<lease, password, call, now>>

Call ==
    /\ phase = "kept"
    /\ call' \in Calls
    /\ UNCHANGED <<phase, lease, password, now>>

\* The database is used without a password.
Use ==
    /\ phase = "kept"
    /\ Leased
    /\ phase' = "serving"
    /\ lease' = IF call.cacheOneTime THEN lease ELSE now
    /\ UNCHANGED <<password, call, now>>

Lock ==
    /\ phase = "kept"
    /\ ~Leased
    /\ phase' = "locked"
    /\ UNCHANGED <<lease, password, call, now>>

\* An end or an error; what the process remembers goes with it.
Stop ==
    /\ phase # "gone"
    /\ phase' = "gone"
    /\ password' = "none"
    /\ UNCHANGED <<lease, call, now>>

Tick ==
    /\ phase # "gone"
    /\ now' = now + 1
    /\ UNCHANGED <<phase, lease, password, call>>

Next ==
    \/ Give \/ Forget \/ Unlock \/ Reopen \/ Keep \/ Call \/ Use \/ Lock \/ Stop
    \/ Tick

Spec == Init /\ [][Next]_promiseVars
=============================================================================
