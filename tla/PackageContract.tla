---------------------------- MODULE PackageContract ----------------------------
(***************************************************************************)
(* What the package controller promises about each Package, without caches,*)
(* queues, copies or helm: the state it shows, whether its release exists, *)
(* and whether somebody else has removed that release.  PackageLifecycle   *)
(* implements it.                                                          *)
(***************************************************************************)
CONSTANT Packages

VARIABLES
    status,   \* "absent", or the state in the status
    running,  \* the helm release exists
    lost      \* it was removed behind the controller's back, and not put back since

vars == <<status, running, lost>>

Statuses ==
    {"absent", "", "installing dependencies", "installing", "installed", "updating", "unknown"}

Init ==
    /\ status = [p \in Packages |-> "absent"]
    /\ running = [p \in Packages |-> FALSE]
    /\ lost = [p \in Packages |-> FALSE]

SameStatus(p) == status'[p] = status[p]
SameRelease(p) == running'[p] = running[p] /\ lost'[p] = lost[p]

Create(p) == status[p] = "absent" /\ status'[p] = "" /\ SameRelease(p)
Delete(p) == status[p] # "absent" /\ status'[p] = "absent" /\ SameRelease(p)

\* The states in their order; "installed" is shown only of what is there.
Order ==
    {<<"", "installing dependencies">>, <<"installing dependencies", "installing">>,
     <<"installing", "installed">>, <<"installed", "updating">>,
     <<"updating", "installing dependencies">>, <<"", "unknown">>}
Advance(p) ==
    /\ <<status[p], status'[p]>> \in Order
    /\ status'[p] = "installed" => running[p] \/ lost[p]
    /\ SameRelease(p)

\* A release appears when its turn has come, or, of an installation that is late, right
\* after that: never while dependencies are awaited or an update is being prepared.
MayInstall(p) == status[p] \in {"absent", "", "installing", "installed"}
Install(p) == MayInstall(p) /\ running'[p] /\ ~lost'[p] /\ SameStatus(p)

\* It goes only when the Package has gone, or is new again.
MayUninstall(p) == status[p] \in {"absent", ""}
Uninstall(p) == MayUninstall(p) /\ ~running'[p] /\ lost'[p] = lost[p] /\ SameStatus(p)

Lose(p) ==
    running[p] /\ ~running'[p] /\ lost'[p] /\ SameStatus(p)

Step(p) == Create(p) \/ Delete(p) \/ Advance(p) \/ Install(p) \/ Uninstall(p) \/ Lose(p)
Rest(p) == SameStatus(p) /\ SameRelease(p)

\* The controller may create the Packages of several dependencies in one step.
Next ==
    /\ status' \in [Packages -> Statuses]
    /\ running' \in [Packages -> BOOLEAN] /\ lost' \in [Packages -> BOOLEAN]
    /\ \A p \in Packages : Step(p) \/ Rest(p)

Spec == Init /\ [][Next]_vars
=============================================================================
