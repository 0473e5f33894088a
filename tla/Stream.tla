------------------------------- MODULE Stream -------------------------------
(***************************************************************************)
(* What a subscription promises its callback: messages are taken up in the *)
(* order of the stream, though some may be passed over; at most `slots` of *)
(* them are open at a time; an open message tells its events one by one,   *)
(* in order, and none after it is closed.                                  *)
(***************************************************************************)
EXTENDS Naturals, Sequences, FiniteSets

VARIABLES
    sizes,          \* how many events each message of the stream has
    slots,
    next,           \* the first message that is not behind yet
    open,           \* the open messages, with the events each has told
    heard           \* what the callback got: pairs <<message, event>>

vars == <<sizes, slots, next, open, heard>>

Without(f, S) == [i \in DOMAIN f \ S |-> f[i]]

Init ==
    /\ sizes \in Seq(Nat)
    /\ slots \in Nat \ {0}
    /\ next = 1
    /\ open = <<>>
    /\ heard = <<>>

Open(i) ==
    /\ i \in next..Len(sizes)
    /\ Cardinality(DOMAIN open) < slots
    /\ open' = [j \in DOMAIN open \cup {i} |-> IF j = i THEN 0 ELSE open[j]]
    /\ next' = i + 1
    /\ UNCHANGED <<sizes, slots, heard>>

\* A message may be closed by its last event.
Tell(i) ==
    /\ i \in DOMAIN open
    /\ open[i] < sizes[i]
    /\ heard' = Append(heard, <<i, open[i] + 1>>)
    /\ \/ open' = [open EXCEPT ![i] = @ + 1]
       \/ open[i] + 1 = sizes[i] /\ open' = Without(open, {i})
    /\ UNCHANGED <<sizes, slots, next>>

\* Told to the end, or given up.
Close(S) ==
    /\ S # {} /\ S \subseteq DOMAIN open
    /\ open' = Without(open, S)
    /\ UNCHANGED <<sizes, slots, next, heard>>

Next ==
    \/ \E i \in 1..Len(sizes) : Open(i) \/ Tell(i)
    \/ \E S \in SUBSET DOMAIN open : Close(S)

Spec == Init /\ [][Next]_vars

=============================================================================
