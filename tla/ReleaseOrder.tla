---------------------------- MODULE ReleaseOrder ----------------------------
(***************************************************************************)
(* What the release workflow promises (.github/workflows/release.yml):     *)
(* whatever becomes of its runs, Releases come out in the order the pull   *)
(* requests merged, and each takes the oldest pull request still owed one. *)
(* Pull requests are numbered by their merge on main; 0 stands for those   *)
(* released before.                                                        *)
(***************************************************************************)
EXTENDS Naturals

VARIABLES
    merged,    \* how many have merged
    optedOut,  \* the ones that want no Release of their own
    released   \* the ones with a published Release

vars == <<merged, optedOut, released>>

Pulls == 1..merged

Owed == {p \in Pulls \ optedOut : \A r \in released : r < p}

Init == merged = 0 /\ optedOut = {} /\ released \in {{}, {0}}

Merge ==
    /\ merged' = merged + 1
    /\ optedOut' \in {optedOut, optedOut \cup {merged + 1}}
    /\ UNCHANGED released

OptOut ==
    /\ \E p \in Pulls : optedOut' = optedOut \cup {p}
    /\ UNCHANGED <<merged, released>>

\* A Release of p passes over nothing that is owed one, unless it is the first
\* Release of all.
Release(p) ==
    /\ \A r \in released : r < p
    /\ released # {} => \A q \in Owed : p <= q
    /\ released' = released \cup {p}
    /\ UNCHANGED <<merged, optedOut>>

Next == Merge \/ OptOut \/ \E p \in Pulls : Release(p)

Spec == Init /\ [][Next]_vars
=============================================================================
