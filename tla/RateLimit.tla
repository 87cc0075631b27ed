----------------------------- MODULE RateLimit -----------------------------
(***************************************************************************)
(* What the wallet rate limiter promises: one durable set of admissions    *)
(* per wallet, changed by atomic operations.  Every operation works at an  *)
(* instant t that lies at most MaxDelay before the present (the caller     *)
(* read its clock before it reached the object store), first drops the     *)
(* admissions that had left the rolling window at t, and then admits,      *)
(* commits or releases one reservation.  Nothing else touches the set.     *)
(* WalletRateLimiter implements this module.                               *)
(***************************************************************************)
EXTENDS Integers, FiniteSets

CONSTANTS Ids,        \* reservation ids; the job id is the reservation id
          Capacity,   \* admissions per window
          Window,     \* length of the rolling window
          MaxDelay    \* age of the instant an operation may work at

VARIABLES clock,      \* the present
          entries     \* the admissions the object store holds

vars == <<clock, entries>>

Entry == [id : Ids, at : Nat, st : {"reserved", "committed"}]

Live(es, t) == {e \in es : e.at > t - Window}

\* The instants an operation may work at.
Recent(t) == t <= clock /\ clock <= t + MaxDelay

Init == clock = 1 /\ entries = {}

Admit(id, t) ==
    /\ Recent(t)
    /\ \A e \in Live(entries, t) : e.id # id
    /\ Cardinality(Live(entries, t)) < Capacity
    /\ entries' = Live(entries, t) \cup {[id |-> id, at |-> t, st |-> "reserved"]}
    /\ UNCHANGED clock

Commit(e, t) ==
    /\ Recent(t)
    /\ entries' = (Live(entries, t) \ {e}) \cup {[e EXCEPT !.st = "committed"]}
    /\ UNCHANGED clock

Release(e, t) ==
    /\ Recent(t)
    /\ entries' = Live(entries, t) \ {e}
    /\ UNCHANGED clock

Prune(t) ==
    /\ Recent(t)
    /\ entries' = Live(entries, t)
    /\ UNCHANGED clock

Tick == clock' = clock + 1 /\ UNCHANGED entries

Next ==
    \/ Tick
    \/ \E t \in clock - MaxDelay .. clock :
         \/ \E id \in Ids : Admit(id, t)
         \/ \E e \in Live(entries, t) : Commit(e, t) \/ Release(e, t)
         \/ Prune(t)

Spec == Init /\ [][Next]_vars
=============================================================================
