------------------------------ MODULE KeyQueue ------------------------------
(***************************************************************************)
(* What the keystroke queue promises (spec.md, "Keystroke queue" and      *)
(* "Ordering guarantees"): a bounded single-producer/single-consumer queue *)
(* of decoded keys.  The producer appends a key when the queue has room   *)
(* and drops the newest key when it is full; the consumer takes the       *)
(* oldest key.  out is the key the consumer took last.                    *)
(***************************************************************************)
EXTENDS Naturals, Sequences

CONSTANTS
  Keys,   \* the decoded keys
  Cap,    \* how many keys the queue holds
  NoKey   \* out before the consumer took a key

VARIABLES q, out

Init == q = <<>> /\ out = NoKey

\* The producer offers key k; a full queue drops it.
Put(k) ==
  /\ q' = IF Len(q) < Cap THEN Append(q, k) ELSE q
  /\ UNCHANGED out

\* The consumer takes the oldest key.
Get ==
  /\ q # <<>>
  /\ q' = Tail(q)
  /\ out' = Head(q)

Next == (\E k \in Keys : Put(k)) \/ Get

Spec == Init /\ [][Next]_<<q, out>>
=============================================================================
