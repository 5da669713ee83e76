------------------------------ MODULE RunBook -------------------------------
(***************************************************************************)
(* What the run ledger promises, whoever writes it.  A run is in the book  *)
(* as running for as long as its runner lives; the runner itself closes it *)
(* with what became of it, or others do once it is over; a closed run is   *)
(* only ever forgotten, by retention, which any step may bring about.      *)
(*                                                                         *)
(* One blemish is part of the promise: who was closing a run that has been *)
(* forgotten meanwhile may bring it back, as a ghost.                      *)
(***************************************************************************)
CONSTANT Runs

VARIABLES life,   \* of each run: whether its runner is yet to come, lives or is over
          book    \* what is on record of each run

vars == <<life, book>>

Closed == {"ok", "failed", "reaped", "unlaunched", "event", "blank"}
Books == Closed \cup {"none", "running", "forgotten", "ghost"}

Init == /\ life = [r \in Runs |-> "unborn"]
        /\ book = [r \in Runs |-> "none"]

\* A record stays, or is forgotten once it is closed.
Stays(b) == {b} \cup IF b \in Closed THEN {"forgotten"} ELSE {}

\* Run r comes to life l and record b.
Moves(r, l, b) ==
    /\ life' = [life EXCEPT ![r] = l]
    /\ book' \in [Runs -> Books]
    /\ book'[r] \in Stays(b)
    /\ \A q \in Runs \ {r} : book'[q] \in Stays(book[q])

Open(r) == /\ life[r] = "unborn"
           /\ \E l \in {"pending", "live"} : Moves(r, l, "running")
Note(r) == /\ life[r] = "unborn"
           /\ \E b \in {"event", "blank"} : Moves(r, "pending", b)

Launch(r) == /\ life[r] = "pending" /\ book[r] = "running"
             /\ Moves(r, "live", "running")
Fail(r) == /\ life[r] = "pending" /\ book[r] = "running"
           /\ Moves(r, "pending", "unlaunched")

Close(r) == /\ life[r] = "live" /\ book[r] = "running"
            /\ \E rc \in {"ok", "failed"} : Moves(r, "over", rc)
Die(r) == /\ life[r] = "live" /\ book[r] = "running"
          /\ Moves(r, "over", "running")

Reap(r) == /\ life[r] = "over" /\ book[r] \in {"running", "ghost"}
           /\ Moves(r, "over", "reaped")
Haunt(r) == /\ life[r] = "over" /\ book[r] = "forgotten"
            /\ Moves(r, "over", "ghost")

Next == \E r \in Runs : \/ Open(r) \/ Note(r) \/ Launch(r) \/ Fail(r)
                        \/ Close(r) \/ Die(r) \/ Reap(r) \/ Haunt(r)

Spec == Init /\ [][Next]_vars
=============================================================================
