---------------------------- MODULE ReviewThread ----------------------------
(***************************************************************************)
(* What the follow-up promises of the review threads it answers: one reply *)
(* to whatever was asked last, a bot's thread resolved only once it is     *)
(* answered, an owner's never (.sandcastle/lib/follow-up.mts,              *)
(* .sandcastle/lib/follow-up-pass.mts).                                    *)
(***************************************************************************)
EXTENDS Naturals

CONSTANTS Threads, BotThreads

VARIABLES
    standing,  \* of each thread: "open", "answered" or "resolved"
    asks,      \* what a bot or the owner wrote on it
    replies    \* what the host wrote on it

vars == <<standing, asks, replies>>

Init ==
    /\ standing = [t \in Threads |-> "open"]
    /\ asks = [t \in Threads |-> 1]
    /\ replies = [t \in Threads |-> 0]

Ask(t) ==
    /\ standing[t] # "resolved"
    /\ standing' = [standing EXCEPT ![t] = "open"]
    /\ asks' = [asks EXCEPT ![t] = @ + 1]
    /\ UNCHANGED replies

Answer(t) ==
    /\ standing[t] = "open"
    /\ standing' = [standing EXCEPT ![t] = "answered"]
    /\ replies' = [replies EXCEPT ![t] = @ + 1]
    /\ UNCHANGED asks

\* Asked again after the answer, a bot's thread is resolved all the same.
Resolve(t) ==
    /\ t \in BotThreads /\ standing[t] # "resolved" /\ replies[t] > 0
    /\ standing' = [standing EXCEPT ![t] = "resolved"]
    /\ UNCHANGED <<asks, replies>>

Next == \E t \in Threads : Ask(t) \/ Answer(t) \/ Resolve(t)

Spec == Init /\ [][Next]_vars

=============================================================================
