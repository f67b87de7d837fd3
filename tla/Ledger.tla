------------------------------- MODULE Ledger -------------------------------
(***************************************************************************)
(* What the event store promises, without saying how: a set of entries     *)
(* that only grows, and in which every trace belongs to one organisation   *)
(* and holds the sequence numbers 1..n, each exactly once.  EventChain is  *)
(* shown to implement this specification.                                  *)
(***************************************************************************)
EXTENDS Naturals

CONSTANTS Traces,     \* trace identifiers
          Orgs,       \* organisations
          Contents    \* (redacted) payloads an event can carry

VARIABLE log          \* the entries recorded so far

Entry == [trace : Traces, seq : Nat, org : Orgs, content : Contents]

\* No two entries of a trace share a sequence number.
ForkFree(L) ==
    \A d, e \in L : d.trace = e.trace /\ d.seq = e.seq => d = e

\* Sequence numbers start at 1 and leave no gap.
GapFree(L) ==
    \A e \in L :
        \/ e.seq = 1
        \/ e.seq > 1 /\ \E d \in L : d.trace = e.trace /\ d.seq = e.seq - 1

\* A trace never mixes the records of two organisations.
OneOwner(L) ==
    \A d, e \in L : d.trace = e.trace => d.org = e.org

Init == log = {}

\* One request adds its entries, all of them in one step.
Extend ==
    /\ log \subseteq log'
    /\ log' \subseteq Entry
    /\ ForkFree(log')
    /\ GapFree(log')
    /\ OneOwner(log')

Spec == Init /\ [][Extend]_log
=============================================================================
