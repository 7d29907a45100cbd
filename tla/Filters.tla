------------------------------- MODULE Filters ------------------------------
(***************************************************************************)
(* The loops that build a slice by appending to it:                        *)
(*                                                                         *)
(*   src/internal/scheduler/webhook.go   UnregisterAgent                   *)
(*   src/internal/notify/channels.go     RateLimiter.Allow                 *)
(*   src/internal/provider/openai.go     buildRequest                      *)
(***************************************************************************)
EXTENDS Integers, Sequences, FiniteSets

\* The sequences of seqs, one after the other.
Joined(seqs) ==
    LET upTo[i \in 0 .. Len(seqs)] == IF i = 0 THEN <<>> ELSE upTo[i - 1] \o seqs[i]
    IN upTo[Len(seqs)]

\* The elements of seq at the indices in keep, in their order.
Kept(seq, keep) ==
    Joined([i \in 1 .. Len(seq) |-> IF i \in keep THEN <<seq[i]>> ELSE <<>>])

\* How many elements of seq are in the set Q.
CountIn(seq, Q) == Cardinality({i \in DOMAIN seq : seq[i] \in Q})

=============================================================================
